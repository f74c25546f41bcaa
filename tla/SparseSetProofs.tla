---------------------------- MODULE SparseSetProofs ----------------------------
(* For every size and offset: the two arrays stay inverse permutations, the   *)
(* trailed bounds fit, what an open level remembers survives every shuffle,   *)
(* each operation does and tells what its name says, and the whole is an      *)
(* implementation of IntDomain.                                               *)
EXTENDS SparseSet, IntervalLemmas, SequenceTheorems

Records == [v : [Slots -> Slots], i : [Slots -> Slots], n : 0..N, lo : Slots, hi : Slots]

Inverses(f) == \A s \in Slots : f.i[f.v[s]] = s /\ f.v[f.i[s]] = s

Members(f) == {x \in Slots : f.i[x] < f.n}

Fits(f) == f.n # 0 => /\ f.lo \in Members(f) /\ f.hi \in Members(f)
                      /\ \A x \in Members(f) : f.lo <= x /\ x <= f.hi

Sets == {f \in Records : Inverses(f) /\ Fits(f)}

(* From f to g the set may shrink, and the slots past f's values stand still. *)
Keeps(f, g) == g.n <= f.n /\ \A x \in Slots : f.i[x] >= f.n => g.i[x] = f.i[x]

Swapped(f, g, x, y) ==
    \A z \in Slots : g.i[z] = IF z = x THEN f.i[y] ELSE IF z = y THEN f.i[x] ELSE f.i[z]

Becomes(f, g, D) == g \in Sets /\ Keeps(f, g) /\ Members(g) = D
--------------------------------------------------------------------------------

(* The slots are numbers, the first and the last among them.                  *)
LEMMA SlotsAreNat == N \in Nat \ {0} /\ Slots \subseteq Nat /\ 0 \in Slots /\ N - 1 \in Slots
  BY SparseSetAssumption DEF Slots

(* What it is to be a record of the five fields.                              *)
LEMMA RecordFields ==
  ASSUME NEW f \in Records
  PROVE  /\ f.v \in [Slots -> Slots] /\ f.i \in [Slots -> Slots] /\ f.n \in 0..N
         /\ f.lo \in Slots /\ f.hi \in Slots
         /\ f.n \in Nat /\ \A x \in Slots : f.i[x] \in Nat /\ f.v[x] \in Slots /\ f.i[x] \in Slots
<1>1. /\ f.v \in [Slots -> Slots] /\ f.i \in [Slots -> Slots] /\ f.n \in 0..N
      /\ f.lo \in Slots /\ f.hi \in Slots
  BY DEF Records
<1>2. f.n \in Nat
  BY <1>1, SlotsAreNat
<1>3. \A x \in Slots : f.i[x] \in Slots /\ f.v[x] \in Slots
  BY <1>1
<1>4. QED
  BY <1>1, <1>2, <1>3, SlotsAreNat

(* exchangePositions (domain.cpp:251-258) keeps the two arrays inverse to     *)
(* each other and swaps two entries only.                                     *)
LEMMA Exchanged ==
  ASSUME NEW f \in Records, Inverses(f), NEW x \in Slots, NEW y \in Slots
  PROVE  /\ Exchange(f, x, y) \in Records /\ Inverses(Exchange(f, x, y))
         /\ Exchange(f, x, y).n = f.n
         /\ Exchange(f, x, y).lo = f.lo /\ Exchange(f, x, y).hi = f.hi
         /\ Swapped(f, Exchange(f, x, y), x, y)
<1> DEFINE g == Exchange(f, x, y)
           v == [f.v EXCEPT ![f.i[x]] = y, ![f.i[y]] = x]
           i == [f.i EXCEPT ![x] = f.i[y], ![y] = f.i[x]]
<1>1. g.v = v /\ g.i = i /\ g.n = f.n /\ g.lo = f.lo /\ g.hi = f.hi /\ g \in Records
  BY DEF Exchange, Records
<1>2. \A z \in Slots : i[z] = IF z = x THEN f.i[y] ELSE IF z = y THEN f.i[x] ELSE f.i[z]
  BY RecordFields
<1>3. \A s \in Slots : v[s] = IF s = f.i[y] THEN x ELSE IF s = f.i[x] THEN y ELSE f.v[s]
  BY RecordFields
<1> HIDE DEF g, v, i
<1>4. \A s \in Slots : i[v[s]] = s /\ v[i[s]] = s
  BY <1>2, <1>3, RecordFields DEF Inverses
<1>5. QED
  BY <1>1, <1>2, <1>4 DEF Inverses, Swapped, g

(* removeAll leaves no member.                                                *)
LEMMA AllRemoved ==
  ASSUME NEW f \in Sets
  PROVE  Becomes(f, RemoveAll(f), {})
<1> DEFINE g == RemoveAll(f)
<1>1. f \in Records /\ Inverses(f)
  BY DEF Sets
<1>2. g \in Records /\ g.v = f.v /\ g.i = f.i /\ g.n = 0 /\ g.lo = f.lo /\ g.hi = f.hi
  BY <1>1, SparseSetAssumption DEF RemoveAll, Records
<1> HIDE DEF g
<1>3. Members(g) = {}
  BY <1>1, <1>2, RecordFields DEF Members
<1>4. g \in Sets
  BY <1>1, <1>2 DEF Sets, Inverses, Fits
<1>5. Keeps(f, g)
  BY <1>1, <1>2, RecordFields DEF Keeps
<1>6. QED
  BY <1>3, <1>4, <1>5 DEF Becomes, g

(* removeAllBut (domain.cpp:303-317) leaves the one value it is given.        *)
LEMMA AllButRemoved ==
  ASSUME NEW f \in Sets, NEW x \in Members(f)
  PROVE  Becomes(f, RemoveAllBut(f, x), {x})
<1> DEFINE y == f.v[0]
           e == Exchange(f, x, y)
           g == RemoveAllBut(f, x)
<1>1. f \in Records /\ Inverses(f) /\ x \in Slots /\ f.i[x] < f.n /\ 0 \in Slots
  BY SlotsAreNat DEF Sets, Members
<1>2. y \in Slots /\ f.i[y] = 0
  BY <1>1, RecordFields DEF Inverses
<1> HIDE DEF y
<1>3. e \in Records /\ Inverses(e) /\ Swapped(f, e, x, y)
  BY <1>1, <1>2, Exchanged
<1>4. g = [e EXCEPT !.lo = x, !.hi = x, !.n = 1]
  BY DEF RemoveAllBut, y
<1> HIDE DEF e, g
<1>5. g \in Records /\ g.v = e.v /\ g.i = e.i /\ g.n = 1 /\ g.lo = x /\ g.hi = x
  <2>1. 1 \in 0..N
    BY SlotsAreNat
  <2> QED
    BY <1>1, <1>3, <1>4, <2>1 DEF Records
<1>6. g.i[x] = 0 /\ \A z \in Slots : g.i[z] = 0 => z = x
  BY <1>1, <1>2, <1>3, <1>5 DEF Inverses, Swapped
<1>7. Members(g) = {x}
  <2>1. \A z \in Slots : g.i[z] < g.n <=> g.i[z] = 0
    BY <1>5, RecordFields
  <2> QED
    BY <1>1, <1>6, <2>1 DEF Members
<1>8. g \in Sets
  <2>1. Inverses(g)
    BY <1>3, <1>5 DEF Inverses
  <2>2. Fits(g)
    BY <1>1, <1>5, <1>7, SlotsAreNat DEF Fits
  <2> QED
    BY <1>5, <2>1, <2>2 DEF Sets
<1>9. Keeps(f, g)
  <2>1. g.n <= f.n
    BY <1>1, <1>5, RecordFields
  <2>2. \A z \in Slots : f.i[z] >= f.n => z # x /\ z # y
    BY <1>1, <1>2, RecordFields
  <2> QED
    BY <1>3, <1>5, <2>1, <2>2 DEF Keeps, Swapped
<1>10. QED
  BY <1>7, <1>8, <1>9 DEF Becomes, g

(* A bound that was removed moves to the nearest value left.                  *)
LEMMA MaxUpdated ==
  ASSUME NEW f \in Records, NEW x \in Slots, x \notin Members(f),
         \A z \in Members(f) : f.lo <= z /\ z <= f.hi,
         f.n # 0 => Members(f) # {}
  PROVE  LET g == UpdateMax(f, x)
         IN /\ g \in Records /\ g.v = f.v /\ g.i = f.i /\ g.n = f.n /\ g.lo = f.lo
            /\ \A z \in Members(f) : z <= g.hi
            /\ f.hi \in Members(f) \/ f.hi = x => (f.n # 0 => g.hi \in Members(f))
<1> DEFINE left == {y \in f.lo..(x - 1) : Holds(f, y)}
           g == UpdateMax(f, x)
<1>1. f.lo \in Nat /\ x \in Nat /\ f.hi \in Nat /\ Slots \subseteq Nat
  BY RecordFields, SlotsAreNat
<1>2. left \subseteq Members(f) /\ \A y \in left : y <= x - 1
  BY <1>1 DEF Holds, Members
<1>3. f.hi = x => Members(f) \subseteq left
  <2> SUFFICES ASSUME f.hi = x, NEW z \in Members(f) PROVE z \in left
    OBVIOUS
  <2>1. z \in Nat /\ z # x /\ Holds(f, z)
    BY <1>1 DEF Holds, Members
  <2> QED
    BY <1>1, <2>1
<1>4. left # {} => Max(left) \in left /\ \A y \in left : Max(left) >= y
  <2>1. left \in SUBSET Int /\ x - 1 \in Int
    BY <1>1
  <2> HIDE DEF left
  <2> QED
    BY <1>2, <2>1, GreatestInt
<1>5. g = IF f.n # 0 /\ f.hi = x /\ left # {} THEN [f EXCEPT !.hi = Max(left)] ELSE f
  BY DEF UpdateMax
<1> HIDE DEF g, left
<1>6. CASE f.n # 0 /\ f.hi = x
  <2>1. Members(f) = left /\ left # {}
    BY <1>2, <1>3, <1>6
  <2>2. Max(left) \in Slots /\ Max(left) \in left /\ \A y \in left : Max(left) >= y
    BY <1>4, <2>1 DEF Members
  <2>3. g = [f EXCEPT !.hi = Max(left)]
    BY <1>5, <1>6, <2>1
  <2>4. g \in Records /\ g.v = f.v /\ g.i = f.i /\ g.n = f.n /\ g.lo = f.lo /\ g.hi = Max(left)
    BY <2>2, <2>3 DEF Records
  <2>5. \A z \in Members(f) : z <= Max(left)
    BY <1>1, <2>1, <2>2 DEF Members
  <2> QED
    BY <2>1, <2>2, <2>4, <2>5 DEF g
<1>7. CASE ~(f.n # 0 /\ f.hi = x)
  <2>1. g = f
    BY <1>5, <1>7
  <2> QED
    BY <1>7, <2>1 DEF g
<1>8. QED
  BY <1>6, <1>7

(* The same of updateMinValRemoved.                                           *)
LEMMA MinUpdated ==
  ASSUME NEW f \in Records, NEW x \in Slots, x \notin Members(f),
         \A z \in Members(f) : f.lo <= z /\ z <= f.hi,
         f.n # 0 => Members(f) # {}
  PROVE  LET g == UpdateMin(f, x)
         IN /\ g \in Records /\ g.v = f.v /\ g.i = f.i /\ g.n = f.n /\ g.hi = f.hi
            /\ \A z \in Members(f) : g.lo <= z
            /\ f.lo \in Members(f) \/ f.lo = x => (f.n # 0 => g.lo \in Members(f))
<1> DEFINE left == {y \in (x + 1)..f.hi : Holds(f, y)}
           g == UpdateMin(f, x)
<1>1. f.lo \in Nat /\ x \in Nat /\ f.hi \in Nat /\ Slots \subseteq Nat
  BY RecordFields, SlotsAreNat
<1>2. left \subseteq Members(f) /\ \A y \in left : x + 1 <= y
  BY <1>1 DEF Holds, Members
<1>3. f.lo = x => Members(f) \subseteq left
  <2> SUFFICES ASSUME f.lo = x, NEW z \in Members(f) PROVE z \in left
    OBVIOUS
  <2>1. z \in Nat /\ z # x /\ Holds(f, z)
    BY <1>1 DEF Holds, Members
  <2> QED
    BY <1>1, <2>1
<1>4. left # {} => Min(left) \in left /\ \A y \in left : Min(left) <= y
  <2>1. left \in SUBSET Int /\ x + 1 \in Int
    BY <1>1
  <2> HIDE DEF left
  <2> QED
    BY <1>2, <2>1, LeastInt
<1>5. g = IF f.n # 0 /\ f.lo = x /\ left # {} THEN [f EXCEPT !.lo = Min(left)] ELSE f
  BY DEF UpdateMin
<1> HIDE DEF g, left
<1>6. CASE f.n # 0 /\ f.lo = x
  <2>1. Members(f) = left /\ left # {}
    BY <1>2, <1>3, <1>6
  <2>2. Min(left) \in Slots /\ Min(left) \in left /\ \A y \in left : Min(left) <= y
    BY <1>4, <2>1 DEF Members
  <2>3. g = [f EXCEPT !.lo = Min(left)]
    BY <1>5, <1>6, <2>1
  <2>4. g \in Records /\ g.v = f.v /\ g.i = f.i /\ g.n = f.n /\ g.hi = f.hi /\ g.lo = Min(left)
    BY <2>2, <2>3 DEF Records
  <2> QED
    BY <2>1, <2>2, <2>4 DEF g
<1>7. CASE ~(f.n # 0 /\ f.lo = x)
  <2>1. g = f
    BY <1>5, <1>7
  <2> QED
    BY <1>7, <2>1 DEF g
<1>8. QED
  BY <1>6, <1>7

(* remove (domain.cpp:290-301) takes out its value, if it is a member.        *)
LEMMA OneRemoved ==
  ASSUME NEW f \in Sets, NEW x \in Int
  PROVE  Becomes(f, RemoveOne(f, x), Members(f) \ {x})
<1>1. f \in Records /\ Inverses(f) /\ Fits(f)
  BY DEF Sets
<1>2. CASE ~Holds(f, x)
  <2>1. RemoveOne(f, x) = f /\ x \notin Members(f)
    BY <1>2 DEF RemoveOne, Members, Holds
  <2>2. Keeps(f, f)
    BY <1>1, RecordFields DEF Keeps
  <2> QED
    BY <2>1, <2>2 DEF Becomes
<1>3. CASE Holds(f, x)
  <2> DEFINE y == f.v[f.n - 1]
             e == Exchange(f, x, y)
             g == [e EXCEPT !.n = f.n - 1]
             h == UpdateMax(g, x)
             k == UpdateMin(h, x)
  <2>1. x \in Slots /\ f.i[x] < f.n /\ f.n - 1 \in Slots /\ f.n - 1 \in 0..N /\ f.n \in Nat
    <3>1. x \in Slots /\ f.i[x] < f.n /\ f.i[x] \in Nat /\ f.n \in 0..N
      BY <1>1, <1>3, RecordFields DEF Holds
    <3> QED
      BY <3>1, SlotsAreNat DEF Slots
  <2>2. y \in Slots /\ f.i[y] = f.n - 1
    BY <1>1, <2>1, RecordFields DEF Inverses
  <2>3. RemoveOne(f, x) = k
    BY <1>3 DEF RemoveOne
  <2> HIDE DEF y, k, h
  <2>4. /\ e \in Records /\ Inverses(e) /\ e.lo = f.lo /\ e.hi = f.hi
        /\ Swapped(f, e, x, y)
    BY <1>1, <2>1, <2>2, Exchanged
  <2> HIDE DEF e
  <2>5. g \in Records /\ g.v = e.v /\ g.i = e.i /\ g.n = f.n - 1 /\ g.lo = f.lo /\ g.hi = f.hi
    BY <2>1, <2>4 DEF Records
  <2> HIDE DEF g
  <2>6. \A z \in Slots : g.i[z] < g.n <=> f.i[z] < f.n /\ z # x
    <3> SUFFICES ASSUME NEW z \in Slots PROVE g.i[z] < g.n <=> f.i[z] < f.n /\ z # x
      OBVIOUS
    <3>1. /\ f.i[z] \in Nat /\ f.i[x] \in Nat
          /\ (f.i[z] = f.i[y] <=> z = y) /\ (f.i[x] = f.i[y] <=> x = y)
      BY <1>1, <2>1, <2>2, RecordFields DEF Inverses
    <3>2. g.i[z] = IF z = x THEN f.n - 1 ELSE IF z = y THEN f.i[x] ELSE f.i[z]
      BY <2>2, <2>4, <2>5 DEF Swapped
    <3>3. f.i[y] = f.n - 1 /\ g.n = f.n - 1
      BY <2>2, <2>5
    <3>4. ASSUME NEW m \in Nat, NEW iz \in Nat, NEW ix \in Nat, ix < m, NEW gz,
                 gz = IF z = x THEN m - 1 ELSE IF z = y THEN ix ELSE iz,
                 iz = m - 1 <=> z = y, ix = m - 1 <=> x = y, z = x => iz = ix
          PROVE  gz < m - 1 <=> iz < m /\ z # x
      BY <3>4
    <3> QED
      BY <2>1, <3>1, <3>2, <3>3, <3>4
  <2>7. Members(g) = Members(f) \ {x}
    BY <2>6 DEF Members
  <2>8. x \notin Members(g) /\ (\A z \in Members(g) : g.lo <= z /\ z <= g.hi)
        /\ (g.n # 0 => Members(g) # {})
    <3>1. \A z \in Members(f) : f.lo <= z /\ z <= f.hi
      BY <1>1, <2>1, SlotsAreNat DEF Fits
    <3>2. ASSUME g.n # 0 PROVE g.v[0] \in Members(g)
      <4>1. g.v[0] \in Slots /\ g.i[g.v[0]] = 0 /\ 0 < g.n
        <5>1. Inverses(g) /\ 0 \in Slots
          BY <2>4, <2>5, SlotsAreNat DEF Inverses
        <5>2. g.v[0] \in Slots /\ g.n \in Nat
          BY <2>5, <5>1, RecordFields
        <5> QED
          BY <3>2, <5>1, <5>2 DEF Inverses
      <4> QED
        BY <4>1 DEF Members
    <3> QED
      BY <2>5, <2>7, <3>1, <3>2
  <2>9. /\ h \in Records /\ h.v = g.v /\ h.i = g.i /\ h.n = g.n /\ h.lo = g.lo
        /\ \A z \in Members(g) : z <= h.hi
        /\ g.hi \in Members(g) \/ g.hi = x => (g.n # 0 => h.hi \in Members(g))
    BY <2>1, <2>5, <2>8, MaxUpdated DEF h
  <2>10. Members(h) = Members(g)
    BY <2>9 DEF Members
  <2>11. /\ k \in Records /\ k.v = h.v /\ k.i = h.i /\ k.n = h.n /\ k.hi = h.hi
         /\ \A z \in Members(h) : k.lo <= z
         /\ h.lo \in Members(h) \/ h.lo = x => (h.n # 0 => k.lo \in Members(h))
    BY <2>1, <2>8, <2>9, <2>10, MinUpdated DEF k
  <2>12. Members(k) = Members(f) \ {x}
    BY <2>7, <2>10, <2>11 DEF Members
  <2>13. Fits(k)
    <3>1. f.n # 0 /\ f.lo \in Members(f) /\ f.hi \in Members(f)
      BY <1>1, <2>1, RecordFields DEF Fits
    <3>2. g.lo \in Members(g) \/ g.lo = x
      BY <2>5, <2>7, <3>1
    <3>3. g.hi \in Members(g) \/ g.hi = x
      BY <2>5, <2>7, <3>1
    <3> QED
      BY <2>7, <2>9, <2>10, <2>11, <2>12, <3>2, <3>3 DEF Fits
  <2>14. Inverses(k)
    BY <2>4, <2>5, <2>9, <2>11 DEF Inverses
  <2>15. Keeps(f, k)
    <3>1. k.n <= f.n
      BY <2>1, <2>5, <2>9, <2>11
    <3>2. \A z \in Slots : f.i[z] >= f.n => z # x /\ z # y
      BY <1>1, <2>1, <2>2, RecordFields
    <3> QED
      BY <2>4, <2>5, <2>9, <2>11, <3>1, <3>2 DEF Keeps, Swapped
  <2>16. QED
    BY <2>3, <2>11, <2>12, <2>13, <2>14, <2>15 DEF Becomes, Sets
<1>4. QED
  BY <1>2, <1>3

(* Two operations after one another keep the arrays as each does.             *)
LEMMA KeepsOn ==
  ASSUME NEW f \in Records, NEW g \in Records, NEW h \in Records, Keeps(f, g), Keeps(g, h)
  PROVE  Keeps(f, h)
<1>1. h.n <= f.n
  BY RecordFields DEF Keeps
<1>2. ASSUME NEW x \in Slots, f.i[x] >= f.n PROVE h.i[x] = f.i[x]
  <2>1. g.i[x] = f.i[x] /\ g.i[x] >= g.n
    BY <1>2, RecordFields DEF Keeps
  <2> QED
    BY <2>1 DEF Keeps
<1>3. QED
  BY <1>1, <1>2 DEF Keeps

(* One more removal after others.                                             *)
LEMMA RemoveOneOn ==
  ASSUME NEW f \in Sets, NEW D, NEW g, Becomes(f, g, D), NEW x \in Int
  PROVE  Becomes(f, RemoveOne(g, x), D \ {x})
<1>1. Becomes(g, RemoveOne(g, x), Members(g) \ {x})
  BY OneRemoved DEF Becomes
<1>2. f \in Records /\ g \in Records /\ RemoveOne(g, x) \in Records
  BY <1>1 DEF Becomes, Sets
<1>3. Keeps(f, RemoveOne(g, x))
  BY <1>1, <1>2, KeepsOn DEF Becomes
<1>4. QED
  BY <1>1, <1>3 DEF Becomes

(* Doing nothing keeps the members.                                           *)
LEMMA Unchanged ==
  ASSUME NEW f \in Sets
  PROVE  Becomes(f, f, Members(f))
<1>1. f \in Records
  BY DEF Sets
<1>2. QED
  BY <1>1, RecordFields DEF Becomes, Keeps

(* The members are numbers between the bounds.                                *)
LEMMA MembersBetween ==
  ASSUME NEW f \in Sets
  PROVE  /\ f.lo \in Nat /\ f.hi \in Nat /\ f.lo \in Slots /\ f.hi \in Slots
         /\ Members(f) \subseteq Nat
         /\ \A z \in Members(f) : f.lo <= z /\ z <= f.hi
<1>1. f \in Records /\ Fits(f)
  BY DEF Sets
<1>2. /\ f.lo \in Nat /\ f.hi \in Nat /\ f.lo \in Slots /\ f.hi \in Slots
      /\ Members(f) \subseteq Nat
  BY <1>1, RecordFields, SlotsAreNat DEF Members
<1>3. f.n = 0 => Members(f) = {}
  BY <1>1, RecordFields DEF Members
<1>4. QED
  BY <1>1, <1>2, <1>3 DEF Fits

(* The loop of removeBelow.                                                   *)
LEMMA UpToRemoved ==
  ASSUME NEW f \in Sets, NEW x \in Int
  PROVE  Becomes(f, RemoveUpTo(f, x), {z \in Members(f) : z >= x})
<1> DEFINE go == CHOOSE g : g = [y \in f.lo..x |-> IF y = f.lo THEN f ELSE RemoveOne(g[y - 1], y - 1)]
           T == [y \in f.lo..x |-> {s \in Sets : Becomes(f, s, {z \in Members(f) : z >= y})}]
           F == [y \in (f.lo + 1)..x |-> [s \in T[y - 1] |-> RemoveOne(s, y - 1)]]
<1>1. RemoveUpTo(f, x) = IF f.hi < x THEN RemoveAll(f) ELSE IF x <= f.lo THEN f ELSE go[x]
  BY DEF RemoveUpTo
<1>2. CASE f.hi < x
  <2>1. {z \in Members(f) : z >= x} = {}
    BY <1>2, MembersBetween
  <2> QED
    BY <1>1, <1>2, <2>1, AllRemoved
<1>3. CASE ~(f.hi < x) /\ x <= f.lo
  <2>1. {z \in Members(f) : z >= x} = Members(f)
    BY <1>3, MembersBetween
  <2> QED
    BY <1>1, <1>3, <2>1, Unchanged
<1>4. CASE ~(f.hi < x) /\ ~(x <= f.lo)
  <2>1. f.lo \in Nat /\ x \in f.lo..x /\ f.lo \in f.lo..x
    BY <1>4, MembersBetween
  <2>2. \A y \in f.lo..x : \A s : s \in T[y] <=> s \in Sets /\ Becomes(f, s, {z \in Members(f) : z >= y})
    OBVIOUS
  <2>3. f \in T[f.lo]
    <3>1. {z \in Members(f) : z >= f.lo} = Members(f)
      BY MembersBetween
    <3> QED
      BY <2>1, <2>2, <3>1, Unchanged
  <2> HIDE DEF T
  <2>4. ASSUME NEW y \in (f.lo + 1)..x, NEW s \in T[y - 1]
        PROVE  F[y][s] = RemoveOne(s, y - 1) /\ F[y][s] \in T[y]
    <3>1. F[y][s] = RemoveOne(s, y - 1)
      OBVIOUS
    <3>2. y \in f.lo..x /\ y - 1 \in f.lo..x /\ y \in Int
      BY <2>1
    <3>3. Becomes(f, RemoveOne(s, y - 1), {z \in Members(f) : z >= y - 1} \ {y - 1})
      <4>1. Becomes(f, s, {z \in Members(f) : z >= y - 1}) /\ y - 1 \in Int
        BY <2>2, <3>2
      <4> QED
        BY <4>1, RemoveOneOn
    <3>4. {z \in Members(f) : z >= y - 1} \ {y - 1} = {z \in Members(f) : z >= y}
      BY <3>2, MembersBetween
    <3>5. Becomes(f, RemoveOne(s, y - 1), {z \in Members(f) : z >= y})
      BY <3>3, <3>4
    <3> QED
      BY <2>2, <3>1, <3>2, <3>5 DEF Becomes
  <2> HIDE DEF F
  <2>5. PICK g : /\ Unrolled(g, f.lo, x, f, F)
                 /\ \A y \in f.lo..x : g[y] \in T[y]
    <3>1. \A y \in (f.lo + 1)..x : \A s \in T[y - 1] : F[y][s] \in T[y]
      BY <2>4
    <3>2. f.lo \in Int
      BY <2>1
    <3> QED
      BY <2>3, <3>1, <3>2, Unrolls
  <2>6. g = [y \in f.lo..x |-> IF y = f.lo THEN f ELSE RemoveOne(g[y - 1], y - 1)]
    <3>1. ASSUME NEW y \in f.lo..x, y # f.lo PROVE F[y][g[y - 1]] = RemoveOne(g[y - 1], y - 1)
      <4>1. y \in (f.lo + 1)..x /\ y - 1 \in f.lo..x
        BY <2>1, <3>1
      <4> QED
        BY <2>4, <2>5, <4>1
    <3> QED
      BY <2>5, <3>1 DEF Unrolled
  <2>7. go = [y \in f.lo..x |-> IF y = f.lo THEN f ELSE RemoveOne(go[y - 1], y - 1)]
    BY <2>6
  <2> HIDE DEF go
  <2>8. \A y \in f.lo..x : go[y] \in T[y]
    <3> DEFINE P == {y \in f.lo..x : go[y] \in T[y]}
    <3>1. f.lo \in P
      BY <2>1, <2>3, <2>7
    <3>2. ASSUME NEW y \in f.lo..(x - 1), y \in P PROVE y + 1 \in P
      <4>1. y + 1 \in (f.lo + 1)..x /\ y + 1 \in f.lo..x /\ (y + 1) - 1 = y /\ y + 1 # f.lo
        BY <2>1
      <4>2. go[y + 1] = RemoveOne(go[y], y)
        BY <2>7, <4>1
      <4>3. go[y] \in T[(y + 1) - 1]
        BY <3>2, <4>1
      <4>4. F[y + 1][go[y]] = RemoveOne(go[y], (y + 1) - 1) /\ F[y + 1][go[y]] \in T[y + 1]
        BY <2>4, <4>1, <4>3
      <4> QED
        BY <4>1, <4>2, <4>4
    <3> HIDE DEF P
    <3>3. \A y \in f.lo..x : y \in P
      <4>1. \A y \in f.lo..(x - 1) : y \in P => y + 1 \in P
        BY <3>2
      <4>2. f.lo \in Int
        BY <2>1
      <4> QED
        BY <3>1, <4>1, <4>2, Upwards
    <3> QED
      BY <3>3 DEF P
  <2>9. Becomes(f, go[x], {z \in Members(f) : z >= x})
    BY <2>1, <2>2, <2>8
  <2> QED
    BY <1>1, <1>4, <2>9
<1>5. QED
  BY <1>2, <1>3, <1>4

(* The loop of removeAbove, which looks at max() again at every turn.         *)
LEMMA FromRemoved ==
  ASSUME NEW f \in Sets, NEW x \in Int
  PROVE  Becomes(f, RemoveFrom(f, x), {z \in Members(f) : z <= x})
<1> DEFINE Turn(s, y) == IF y > s.hi THEN s ELSE RemoveOne(s, y)
           go == CHOOSE g : g = [y \in x..f.hi |-> IF y = x THEN f
                                                   ELSE IF y > g[y - 1].hi THEN g[y - 1]
                                                        ELSE RemoveOne(g[y - 1], y)]
           Left(y) == {z \in Members(f) : z <= x \/ z > y}
           T == [y \in x..f.hi |-> {s \in Sets : Becomes(f, s, Left(y))}]
           F == [y \in (x + 1)..f.hi |-> [s \in T[y - 1] |-> Turn(s, y)]]
<1>1. RemoveFrom(f, x) = IF f.lo > x THEN RemoveAll(f) ELSE IF x >= f.hi THEN f ELSE go[f.hi]
  BY DEF RemoveFrom
<1>2. CASE f.lo > x
  <2>1. {z \in Members(f) : z <= x} = {}
    BY <1>2, MembersBetween
  <2> QED
    BY <1>1, <1>2, <2>1, AllRemoved
<1>3. CASE ~(f.lo > x) /\ x >= f.hi
  <2>1. {z \in Members(f) : z <= x} = Members(f)
    BY <1>3, MembersBetween
  <2> QED
    BY <1>1, <1>3, <2>1, Unchanged
<1>4. CASE ~(f.lo > x) /\ ~(x >= f.hi)
  <2>1. f.hi \in Nat /\ x \in x..f.hi /\ f.hi \in x..f.hi
    BY <1>4, MembersBetween
  <2>2. \A y \in x..f.hi : \A s : s \in T[y] <=> s \in Sets /\ Becomes(f, s, Left(y))
    OBVIOUS
  <2>3. f \in T[x]
    <3>1. Left(x) = Members(f)
      BY MembersBetween
    <3>2. Becomes(f, f, Left(x))
      BY <3>1, Unchanged
    <3> QED
      BY <2>1, <2>2, <3>2
  <2> HIDE DEF T
  <2>4. ASSUME NEW y \in (x + 1)..f.hi, NEW s \in T[y - 1]
        PROVE  F[y][s] = Turn(s, y) /\ F[y][s] \in T[y]
    <3>1. F[y][s] = Turn(s, y)
      BY DEF F
    <3>2. y \in x..f.hi /\ y - 1 \in x..f.hi /\ y \in Int
      BY <2>1
    <3>3. s \in Sets /\ Becomes(f, s, Left(y - 1))
      BY <2>2, <3>2
    <3>4. Left(y - 1) \ {y} = Left(y)
      BY <2>1, <3>2, MembersBetween
    <3>5. Becomes(f, Turn(s, y), Left(y))
      <4>1. CASE y > s.hi
        <5>1. \A z \in Members(s) : z <= s.hi /\ z \in Nat /\ s.hi \in Nat
          BY <3>3, MembersBetween
        <5>2. y \notin Members(s)
          BY <3>2, <4>1, <5>1
        <5>3. Members(s) = Left(y - 1)
          BY <3>3 DEF Becomes
        <5>4. Left(y - 1) = Left(y)
          BY <3>4, <5>2, <5>3
        <5> QED
          BY <3>3, <4>1, <5>4
      <4>2. CASE ~(y > s.hi)
        <5>1. Becomes(f, RemoveOne(s, y), Left(y - 1) \ {y})
          BY <3>2, <3>3, RemoveOneOn
        <5> QED
          BY <3>4, <4>2, <5>1
      <4>3. QED
        BY <4>1, <4>2
    <3> HIDE DEF Turn
    <3> QED
      BY <2>2, <3>1, <3>2, <3>5 DEF Becomes
  <2> HIDE DEF F
  <2>5. PICK g : /\ Unrolled(g, x, f.hi, f, F)
                 /\ \A y \in x..f.hi : g[y] \in T[y]
    <3>1. \A y \in (x + 1)..f.hi : \A s \in T[y - 1] : F[y][s] \in T[y]
      BY <2>4
    <3>2. f.hi \in Int
      BY <2>1
    <3> QED
      BY <2>3, <3>1, <3>2, Unrolls
  <2>6. g = [y \in x..f.hi |-> IF y = x THEN f ELSE Turn(g[y - 1], y)]
    <3> HIDE DEF Turn
    <3>1. ASSUME NEW y \in x..f.hi, y # x PROVE F[y][g[y - 1]] = Turn(g[y - 1], y)
      <4>1. y \in (x + 1)..f.hi /\ y - 1 \in x..f.hi
        BY <2>1, <3>1
      <4> QED
        BY <2>4, <2>5, <4>1
    <3> QED
      BY <2>5, <3>1 DEF Unrolled
  <2>7. go = [y \in x..f.hi |-> IF y = x THEN f ELSE Turn(go[y - 1], y)]
    BY <2>6
  <2> HIDE DEF go, Turn
  <2>8. \A y \in x..f.hi : go[y] \in T[y]
    <3> DEFINE P == {y \in x..f.hi : go[y] \in T[y]}
    <3>1. x \in P
      BY <2>1, <2>3, <2>7
    <3>2. ASSUME NEW y \in x..(f.hi - 1), y \in P PROVE y + 1 \in P
      <4>1. y + 1 \in (x + 1)..f.hi /\ y + 1 \in x..f.hi /\ (y + 1) - 1 = y /\ y + 1 # x
        BY <2>1
      <4>2. go[y + 1] = Turn(go[y], y + 1)
        BY <2>7, <4>1
      <4>3. go[y] \in T[(y + 1) - 1]
        BY <3>2, <4>1
      <4>4. F[y + 1][go[y]] = Turn(go[y], y + 1) /\ F[y + 1][go[y]] \in T[y + 1]
        BY <2>4, <4>1, <4>3
      <4> QED
        BY <4>1, <4>2, <4>4
    <3> HIDE DEF P
    <3>3. \A y \in x..f.hi : y \in P
      <4>1. \A y \in x..(f.hi - 1) : y \in P => y + 1 \in P
        BY <3>2
      <4>2. f.hi \in Int
        BY <2>1
      <4> QED
        BY <3>1, <4>1, <4>2, Upwards
    <3> QED
      BY <3>3 DEF P
  <2>9. Becomes(f, go[f.hi], Left(f.hi))
    BY <2>1, <2>2, <2>8
  <2>10. Left(f.hi) = {z \in Members(f) : z <= x}
    BY <2>1, MembersBetween
  <2> HIDE DEF Left
  <2> QED
    BY <1>1, <1>4, <2>9, <2>10
<1>5. QED
  BY <1>2, <1>3, <1>4
--------------------------------------------------------------------------------
(* What an open level remembers: the same two arrays, cut at its size.        *)
At(s) == [v |-> values, i |-> indexes, n |-> s.n, lo |-> s.lo, hi |-> s.hi]

Shown(f) == {x + Ofs : x \in Members(f)}

SavedSet == [n : 1..N, lo : Slots, hi : Slots, was : SUBSET Int]

Levels == /\ saved \in Seq(SavedSet)
          /\ \A k \in DOMAIN saved : /\ At(saved[k]) \in Sets
                                     /\ saved[k].was = Shown(At(saved[k]))
                                     /\ size <= saved[k].n
          /\ \A j, k \in DOMAIN saved : j < k => saved[k].n <= saved[j].n

IInv == /\ TypeOK /\ Fields \in Sets /\ (failed <=> size = 0)
        /\ Levels

(* Slots past the size of the set hold what they held: a cut at the size of   *)
(* any open level shows the same values before and after.                     *)
LEMMA CutKept ==
  ASSUME NEW f \in Records, Inverses(f), NEW g \in Records, Inverses(g), Keeps(f, g),
         NEW m \in Nat, f.n <= m, NEW x \in Slots
  PROVE  g.i[x] < m <=> f.i[x] < m
<1>1. \A z \in Slots : f.i[z] \in Nat /\ g.i[z] \in Nat /\ f.i[z] \in Slots /\ g.i[z] \in Slots
  BY RecordFields
<1>2. f.n \in Nat /\ g.n \in Nat
  BY RecordFields
<1>3. CASE f.i[x] >= f.n
  BY <1>3 DEF Keeps
<1>4. CASE f.i[x] < f.n
  <2>1. ASSUME g.i[x] >= f.n PROVE FALSE
    <3> DEFINE s == g.i[x]
               y == f.v[s]
    <3>1. y \in Slots /\ f.i[y] = s /\ s \in Slots
      BY <1>1, RecordFields DEF Inverses
    <3>2. g.i[y] = s
      BY <2>1, <3>1 DEF Keeps
    <3>3. y = x
      BY <3>1, <3>2 DEF Inverses
    <3> QED
      BY <1>1, <1>2, <1>4, <2>1, <3>1, <3>3
  <2> QED
    BY <1>1, <1>2, <1>4, <2>1
<1>5. QED
  BY <1>1, <1>2, <1>3, <1>4

(* A record is made of its fields.                                            *)
LEMMA RecordRebuilt ==
  ASSUME NEW f \in Records
  PROVE  [v |-> f.v, i |-> f.i, n |-> f.n, lo |-> f.lo, hi |-> f.hi] = f
  BY DEF Records

(* The variables as the fields of a record.                                   *)
LEMMA FieldsNow ==
  /\ Fields.v = values /\ Fields.i = indexes /\ Fields.n = size /\ Fields.lo = min /\ Fields.hi = max
  /\ Contents = Shown(Fields)
  BY DEF Fields, Contents, Shown, Members

(* The set as a level saved it, with the arrays of today.                     *)
LEMMA AtFields ==
  ASSUME NEW s
  PROVE  /\ At(s).v = values /\ At(s).i = indexes /\ At(s).n = s.n /\ At(s).lo = s.lo /\ At(s).hi = s.hi
         /\ Shown(At(s)) = {x + Ofs : x \in {y \in Slots : indexes[y] < s.n}}
  BY DEF At, Shown, Members

(* Whatever an operation makes of the set, no open level notices.             *)
LEMMA NarrowKeeps ==
  ASSUME IInv, NEW g, NEW D, Becomes(Fields, g, D), SetFields(g), failed' = (g.n = 0),
         told' \subseteq {"bind", "change", "changeMin", "changeMax", "empty"}, saved' = saved
  PROVE  IInv' /\ Fields' = g
<1>1. g \in Sets /\ g \in Records /\ Inverses(g) /\ Keeps(Fields, g)
  BY DEF Becomes, Sets
<1>2. Fields \in Sets /\ Fields \in Records /\ Inverses(Fields)
  BY DEF IInv, Sets
<1>3. Fields' = g
  BY <1>1, RecordRebuilt DEF Fields, SetFields
<1>4. TypeOK' /\ (failed' <=> size' = 0)
  BY <1>1, RecordFields DEF SetFields, TypeOK, IInv
<1>5. ASSUME NEW k \in DOMAIN saved
      PROVE  /\ At(saved[k])' \in Sets
             /\ saved[k].was = Shown(At(saved[k]))'
             /\ size' <= saved[k].n
  <2> DEFINE s == saved[k]
             a == At(s)
             b == [v |-> values', i |-> indexes', n |-> s.n, lo |-> s.lo, hi |-> s.hi]
  <2>1. a \in Sets /\ s.was = Shown(a) /\ size <= s.n /\ s \in SavedSet /\ s.n \in 1..N
    <3>1. s \in SavedSet
      BY DEF IInv, Levels
    <3> QED
      BY <3>1 DEF IInv, Levels, SavedSet
  <2>2. At(saved[k])' = b
    BY DEF At
  <2>3. /\ a \in Records /\ Fits(a)
        /\ a.n = s.n /\ a.i = indexes /\ a.lo = s.lo /\ a.hi = s.hi
    BY <2>1, AtFields DEF Sets
  <2>4. b.v = g.v /\ b.i = g.i /\ b.n = a.n /\ b.lo = a.lo /\ b.hi = a.hi
    BY <2>3 DEF SetFields
  <2> HIDE DEF a, b, s
  <2>5. s.n \in Nat /\ \A x \in Slots : g.i[x] < s.n <=> indexes[x] < s.n
    <3>1. s.n \in Nat /\ Fields.n <= s.n
      BY <2>1, FieldsNow, SlotsAreNat
    <3> QED
      BY <1>1, <1>2, <3>1, CutKept, FieldsNow
  <2>6. Members(b) = Members(a)
    BY <2>3, <2>4, <2>5 DEF Members
  <2>7. b \in Sets
    <3>1. b \in Records
      BY <1>1, <2>2, <2>3, <2>4, RecordFields DEF Records, b, s
    <3>2. Inverses(b)
      BY <1>1, <2>4 DEF Inverses
    <3>3. Fits(b)
      BY <2>3, <2>4, <2>6 DEF Fits
    <3> QED
      BY <3>1, <3>2, <3>3 DEF Sets
  <2>8. Shown(b) = Shown(a)
    BY <2>6 DEF Shown
  <2>9. size' <= s.n
    <3>1. size' <= size /\ size' \in Nat /\ size \in Nat
      BY <1>1, <1>2, FieldsNow, RecordFields DEF Keeps, SetFields
    <3> QED
      BY <2>1, <2>5, <3>1
  <2>10. Shown(At(saved[k]))' = Shown(b)
    BY DEF b, s, At, Shown, Members
  <2> QED
    BY <2>1, <2>2, <2>7, <2>8, <2>9, <2>10 DEF s
<1>6. Levels'
  BY <1>5 DEF IInv, Levels
<1>7. QED
  BY <1>1, <1>3, <1>4, <1>6 DEF IInv

(* The constructor builds a set that satisfies the invariant.                 *)
LEMMA InvInit == Init => IInv
<1> SUFFICES ASSUME Init PROVE IInv
  OBVIOUS
<1>1. N \in Nat \ {0} /\ 0 \in Slots /\ N - 1 \in Slots /\ N \in 0..N /\ N # 0 /\ Slots \subseteq Nat
  BY SlotsAreNat
<1>2. TypeOK
  <2>1. Len(saved) <= MaxLevels
    BY SparseSetAssumption DEF Init
  <2> QED
    BY <1>1, <2>1 DEF Init, TypeOK
<1>3. Fields \in Records
  BY <1>2, FieldsNow DEF TypeOK, Records, Fields
<1>4. Inverses(Fields)
  BY FieldsNow DEF Init, Inverses
<1>5. Members(Fields) = Slots
  BY <1>1, FieldsNow DEF Init, Members, Slots
<1>6. Fits(Fields)
  BY <1>1, <1>5, FieldsNow DEF Init, Fits, Slots
<1>7. Levels
  <2>1. saved \in Seq(SavedSet) /\ DOMAIN saved = {}
    BY EmptySeq DEF Init
  <2> QED
    BY <2>1 DEF Levels
<1>8. QED
  BY <1>1, <1>2, <1>3, <1>4, <1>6, <1>7 DEF Sets, IInv, Init

(* A set has one member when its size is one: the slots in use hold members.  *)
LEMMA OneMember ==
  ASSUME NEW f \in Sets
  PROVE  /\ f.n = 0 <=> Members(f) = {}
         /\ f.n = 1 <=> \E x : Members(f) = {x}
<1>1. f \in Records /\ Inverses(f) /\ f.n \in 0..N
  BY RecordFields DEF Sets
<1>2. ASSUME NEW s \in 0..(f.n - 1) PROVE f.v[s] \in Members(f) /\ f.i[f.v[s]] = s
  <2>1. s \in Slots /\ s < f.n
    BY <1>1, SlotsAreNat DEF Slots
  <2> QED
    BY <1>1, <2>1, RecordFields DEF Inverses, Members
<1>3. \A x \in Members(f) : x \in Slots /\ f.i[x] \in 0..(f.n - 1) /\ f.v[f.i[x]] = x
  BY <1>1, RecordFields DEF Members, Inverses
<1>4. f.n = 0 <=> Members(f) = {}
  BY <1>1, <1>2, <1>3
<1>5. ASSUME f.n = 1 PROVE Members(f) = {f.v[0]}
  <2>1. \A x \in Members(f) : f.i[x] = 0
    BY <1>3, <1>5
  <2> QED
    BY <1>2, <1>3, <1>5, <2>1
<1>6. ASSUME NEW x, Members(f) = {x} PROVE f.n = 1
  <2>1. f.n # 0
    BY <1>4, <1>6
  <2>2. ASSUME f.n >= 2 PROVE FALSE
    <3>1. 0 \in 0..(f.n - 1) /\ 1 \in 0..(f.n - 1)
      BY <1>1, <2>2
    <3>2. f.v[0] = x /\ f.v[1] = x
      BY <1>2, <1>6, <3>1
    <3> QED
      BY <1>2, <3>1, <3>2
  <2> QED
    BY <1>1, <2>1, <2>2
<1>7. QED
  BY <1>4, <1>5, <1>6

(* The bounds are determined by the members.                                  *)
LEMMA BoundsOf ==
  ASSUME NEW f \in Sets, f.n # 0
  PROVE  /\ f.lo \in Members(f) /\ f.hi \in Members(f)
         /\ \A x \in Members(f) : (\A y \in Members(f) : x <= y) => f.lo = x
         /\ \A x \in Members(f) : (\A y \in Members(f) : y <= x) => f.hi = x
<1>1. f.lo \in Members(f) /\ f.hi \in Members(f)
  BY DEF Sets, Fits
<1>2. QED
  BY <1>1, MembersBetween

(* What the listener has to hear when f becomes g.                            *)
Tells(f, g, E) == /\ E \subseteq {"bind", "change", "changeMin", "changeMax"}
                  /\ "change" \in E <=> Members(f) # Members(g)
                  /\ "bind" \in E <=> Members(f) # Members(g) /\ g.n = 1
                  /\ "changeMin" \in E <=> f.lo # g.lo
                  /\ "changeMax" \in E <=> f.hi # g.hi

(* The set keeps the members in D, and the listener hears so.                 *)
Result(D) == \E g, E : /\ Becomes(Fields, g, D) /\ Became(g, E)
                       /\ g.n # 0 => Tells(Fields, g, E)

(* An operation that returns early leaves the members as they are.            *)
LEMMA NothingResult ==
  ASSUME IInv, ~failed, Nothing
  PROVE  Result(Members(Fields))
<1>1. Becomes(Fields, Fields, Members(Fields))
  BY Unchanged DEF IInv
<1>2. Became(Fields, {})
  BY FieldsNow DEF Became, Nothing, SetFields, IInv, TypeOK
<1>3. Tells(Fields, Fields, {})
  BY DEF Tells
<1>4. QED
  BY <1>1, <1>2, <1>3 DEF Result

(* An operation that removes everything fails.                                *)
LEMMA EmptyResult ==
  ASSUME IInv, NEW E, Became(RemoveAll(Fields), E)
  PROVE  Result({})
<1>1. Becomes(Fields, RemoveAll(Fields), {})
  BY AllRemoved DEF IInv
<1>2. RemoveAll(Fields).n = 0
  BY <1>1, OneMember DEF Becomes
<1>3. QED
  BY <1>1, <1>2 DEF Result

(* assign (domain.cpp:337-355) keeps at most its value.                       *)
LEMMA AssignResult ==
  ASSUME IInv, NEW w \in Int, Assign(w)
  PROVE  Result({z \in Members(Fields) : z = w - Ofs})
<1> DEFINE x == w - Ofs
           f == Fields
           D == {z \in Members(f) : z = x}
           g == RemoveAllBut(f, x)
           E == {"bind", "change"} \cup When(max # x, "changeMax") \cup When(min # x, "changeMin")
<1>1. f \in Sets /\ ~failed
  BY DEF IInv, Assign
<1>2. Holds(f, x) <=> x \in Members(f)
  BY DEF Holds, Members
<1>3. CASE Holds(f, x) /\ size = 1
  <2>1. Nothing
    BY <1>3 DEF Assign
  <2>2. \A z \in Members(f) : z = x
    BY <1>1, <1>2, <1>3, OneMember, FieldsNow
  <2>3. D = Members(f)
    BY <2>2
  <2> QED
    BY <1>1, <2>1, <2>3, NothingResult
<1>4. CASE Holds(f, x) /\ size # 1
  <2>1. Became(g, E)
    BY <1>4 DEF Assign
  <2>2. D = {x}
    BY <1>2, <1>4
  <2>3. Becomes(f, g, D)
    BY <1>1, <1>2, <1>4, <2>2, AllButRemoved
  <2>4. g \in Sets /\ Members(g) = {x}
    BY <2>2, <2>3 DEF Becomes
  <2> HIDE DEF g, f
  <2>5. g.n = 1 /\ g.lo = x /\ g.hi = x
    BY <2>4, OneMember, BoundsOf
  <2>6. Members(f) # Members(g)
    BY <1>1, <1>4, <2>4, OneMember, FieldsNow DEF f
  <2>7. Tells(f, g, E)
    BY <2>5, <2>6, FieldsNow DEF Tells, When, f
  <2> HIDE DEF D, E
  <2>8. Result(D)
    BY <2>1, <2>3, <2>7 DEF Result, f
  <2> QED
    BY <2>8 DEF D, f
<1>5. CASE ~Holds(f, x)
  <2>1. D = {}
    BY <1>2, <1>5
  <2>2. Became(RemoveAll(f), {})
    BY <1>5 DEF Assign
  <2> QED
    BY <2>1, <2>2, EmptyResult
<1>6. QED
  BY <1>3, <1>4, <1>5

(* remove (domain.cpp:357-370) takes out its value.                           *)
LEMMA RemoveResult ==
  ASSUME IInv, NEW w \in Int, Remove(w)
  PROVE  Result(Members(Fields) \ {w - Ofs})
<1> DEFINE x == w - Ofs
           f == Fields
           g == RemoveOne(f, x)
           E == {"change"} \cup When(max = x, "changeMax") \cup When(min = x, "changeMin")
                           \cup When(g.n = 1, "bind")
<1>1. f \in Sets /\ ~failed /\ x \in Int
  BY SparseSetAssumption DEF IInv, Remove
<1>2. Holds(f, x) <=> x \in Members(f)
  BY DEF Holds, Members
<1>3. CASE ~Holds(f, x)
  <2>1. Nothing /\ Members(f) \ {x} = Members(f)
    BY <1>2, <1>3 DEF Remove
  <2> QED
    BY <1>1, <2>1, NothingResult
<1>4. CASE Holds(f, x)
  <2>1. Became(g, E)
    BY <1>4 DEF Remove
  <2>2. Becomes(f, g, Members(f) \ {x})
    BY <1>1, OneRemoved
  <2>3. g \in Sets /\ Members(g) = Members(f) \ {x} /\ x \in Members(f)
    BY <1>2, <1>4, <2>2 DEF Becomes
  <2> HIDE DEF g, f
  <2>4. ASSUME g.n # 0 PROVE Tells(f, g, E)
    <3>0. f.n # 0 /\ f.lo \in Members(f) /\ f.hi \in Members(f)
      BY <1>1, <2>3, OneMember, BoundsOf
    <3>1. g.lo \in Members(g) /\ g.hi \in Members(g)
      BY <2>3, <2>4, BoundsOf
    <3>2. f.lo # g.lo <=> f.lo = x
      BY <1>1, <2>3, <2>4, <3>0, <3>1, BoundsOf, MembersBetween
    <3>3. f.hi # g.hi <=> f.hi = x
      BY <1>1, <2>3, <2>4, <3>0, <3>1, BoundsOf, MembersBetween
    <3> QED
      BY <2>3, <3>2, <3>3, FieldsNow DEF Tells, When, f
  <2> HIDE DEF E
  <2> QED
    BY <2>1, <2>2, <2>4 DEF Result, f
<1>5. QED
  BY <1>3, <1>4

(* removeBelow (domain.cpp:372-385) keeps the values from its argument on.    *)
LEMMA RemoveBelowResult ==
  ASSUME IInv, NEW w \in Int, RemoveBelow(w)
  PROVE  Result({z \in Members(Fields) : z >= w - Ofs})
<1> DEFINE x == w - Ofs
           f == Fields
           D == {z \in Members(f) : z >= x}
           g == RemoveUpTo(f, x)
           E == {"changeMin", "change"} \cup When(g.n = 1, "bind")
<1>1. f \in Sets /\ ~failed /\ x \in Int /\ f.n # 0
  BY SparseSetAssumption, FieldsNow DEF IInv, RemoveBelow
<1>2. CASE min >= x
  <2>1. Nothing
    <3>1. min \in Nat /\ max \in Nat
      BY SlotsAreNat DEF IInv, TypeOK
    <3> QED
      BY <1>1, <1>2, <3>1 DEF RemoveBelow
  <2>2. D = Members(f)
    BY <1>1, <1>2, MembersBetween, FieldsNow
  <2> QED
    BY <1>1, <2>1, <2>2, NothingResult
<1>3. CASE ~(min >= x)
  <2>1. Became(g, E)
    BY <1>3 DEF RemoveBelow
  <2>2. Becomes(f, g, D)
    BY <1>1, UpToRemoved
  <2>3. g \in Sets /\ Members(g) = D
    BY <2>2 DEF Becomes
  <2>4. f.lo = min /\ f.lo \in Members(f) /\ f.lo < x /\ f.lo \in Nat /\ f.hi \in Nat
    BY <1>1, <1>3, BoundsOf, MembersBetween, FieldsNow
  <2>5. \A z : z \in D <=> z \in Members(f) /\ z >= x
    OBVIOUS
  <2> HIDE DEF g, f, D
  <2>6. ASSUME g.n # 0 PROVE Tells(f, g, E)
    <3>1. g.lo \in D /\ g.hi \in D
      BY <2>3, <2>6, BoundsOf
    <3>2. f.lo # g.lo /\ Members(f) # Members(g)
      BY <1>1, <2>3, <2>4, <2>5, <3>1
    <3>3. f.hi \in Members(f) /\ \A z \in Members(f) : z <= f.hi /\ z \in Nat
      BY <1>1, BoundsOf, MembersBetween
    <3>4. f.hi \in D /\ \A z \in D : z <= f.hi
      BY <1>1, <2>4, <2>5, <3>1, <3>3
    <3>5. f.hi = g.hi
      BY <2>3, <2>6, <3>4, BoundsOf
    <3> QED
      BY <3>2, <3>5 DEF Tells, When
  <2> HIDE DEF E
  <2>7. Result(D)
    BY <2>1, <2>2, <2>6 DEF Result, f
  <2> QED
    BY <2>7 DEF D, f
<1>4. QED
  BY <1>2, <1>3

(* removeAbove (domain.cpp:387-400) keeps the values up to its argument.      *)
LEMMA RemoveAboveResult ==
  ASSUME IInv, NEW w \in Int, RemoveAbove(w)
  PROVE  Result({z \in Members(Fields) : z <= w - Ofs})
<1> DEFINE x == w - Ofs
           f == Fields
           D == {z \in Members(f) : z <= x}
           g == RemoveFrom(f, x)
           E == {"changeMax", "change"} \cup When(g.n = 1, "bind")
<1>1. f \in Sets /\ ~failed /\ x \in Int /\ f.n # 0
  BY SparseSetAssumption, FieldsNow DEF IInv, RemoveAbove
<1>2. CASE max <= x
  <2>1. Nothing
    <3>1. min \in Nat /\ max \in Nat
      BY SlotsAreNat DEF IInv, TypeOK
    <3> QED
      BY <1>1, <1>2, <3>1 DEF RemoveAbove
  <2>2. D = Members(f)
    BY <1>1, <1>2, MembersBetween, FieldsNow
  <2> QED
    BY <1>1, <2>1, <2>2, NothingResult
<1>3. CASE ~(max <= x)
  <2>1. Became(g, E)
    BY <1>3 DEF RemoveAbove
  <2>2. Becomes(f, g, D)
    BY <1>1, FromRemoved
  <2>3. g \in Sets /\ Members(g) = D
    BY <2>2 DEF Becomes
  <2>4. f.hi = max /\ f.hi \in Members(f) /\ f.hi > x /\ f.lo \in Nat /\ f.hi \in Nat
    BY <1>1, <1>3, BoundsOf, MembersBetween, FieldsNow
  <2>5. \A z : z \in D <=> z \in Members(f) /\ z <= x
    OBVIOUS
  <2> HIDE DEF g, f, D
  <2>6. ASSUME g.n # 0 PROVE Tells(f, g, E)
    <3>1. g.lo \in D /\ g.hi \in D
      BY <2>3, <2>6, BoundsOf
    <3>2. f.hi # g.hi /\ Members(f) # Members(g)
      BY <1>1, <2>3, <2>4, <2>5, <3>1
    <3>3. f.lo \in Members(f) /\ \A z \in Members(f) : f.lo <= z /\ z \in Nat
      BY <1>1, BoundsOf, MembersBetween
    <3>4. f.lo \in D /\ \A z \in D : f.lo <= z
      BY <1>1, <2>4, <2>5, <3>1, <3>3
    <3>5. f.lo = g.lo
      BY <2>3, <2>6, <3>4, BoundsOf
    <3> QED
      BY <3>2, <3>5 DEF Tells, When
  <2> HIDE DEF E
  <2>7. Result(D)
    BY <2>1, <2>2, <2>6 DEF Result, f
  <2> QED
    BY <2>7 DEF D, f
<1>4. QED
  BY <1>2, <1>3

(* An operation with such a result keeps the invariant.                       *)
LEMMA ResultKeeps ==
  ASSUME IInv, NEW D, Result(D)
  PROVE  IInv' /\ Members(Fields)' = D
<1>1. PICK g, E : /\ Becomes(Fields, g, D) /\ Became(g, E)
                  /\ g.n # 0 => Tells(Fields, g, E)
  BY DEF Result
<1>2. SetFields(g) /\ failed' = (g.n = 0) /\ saved' = saved
      /\ told' \subseteq {"bind", "change", "changeMin", "changeMax", "empty"}
  BY <1>1 DEF Became, Tells
<1>3. IInv' /\ Fields' = g
  BY <1>1, <1>2, NarrowKeeps
<1>4. Members(Fields)' = Members(g)
  BY <1>3 DEF Members
<1>5. QED
  BY <1>1, <1>3, <1>4 DEF Becomes

(* The stack of saved levels as a function.                                   *)
LEMMA SavedType ==
  ASSUME Levels
  PROVE  /\ saved \in Seq(SavedSet) /\ Len(saved) \in Nat /\ DOMAIN saved = 1..Len(saved)
         /\ \A k \in 1..Len(saved) : /\ saved[k].n \in 1..N /\ saved[k].lo \in Slots
                                     /\ saved[k].hi \in Slots /\ saved[k].was \in SUBSET Int
<1>1. saved \in Seq(SavedSet) /\ Len(saved) \in Nat /\ DOMAIN saved = 1..Len(saved)
  BY DEF Levels
<1>2. \A k \in 1..Len(saved) : saved[k] \in SavedSet
  BY <1>1
<1>3. \A s \in SavedSet : s.n \in 1..N /\ s.lo \in Slots /\ s.hi \in Slots /\ s.was \in SUBSET Int
  BY DEF SavedSet
<1>4. QED
  BY <1>1, <1>2, <1>3

(* A new level stores the three trailed numbers as they are.                  *)
LEMMA SaveKeeps == IInv /\ Save => IInv'
<1> SUFFICES ASSUME IInv, Save PROVE IInv'
  OBVIOUS
<1> DEFINE s == [n |-> size, lo |-> min, hi |-> max, was |-> Contents]
<1>1. s.n = size /\ s.lo = min /\ s.hi = max /\ s.was = Contents
  OBVIOUS
<1>2. s \in SavedSet
  <2>1. size \in 1..N
    BY SlotsAreNat DEF IInv, TypeOK, Save
  <2>2. Contents \in SUBSET Int
    BY SparseSetAssumption, SlotsAreNat DEF Contents
  <2> QED
    BY <2>1, <2>2 DEF SavedSet, IInv, TypeOK
<1>3. saved' = Append(saved, s)
  BY DEF Save
<1> HIDE DEF s
<1>4. saved \in Seq(SavedSet) /\ Len(saved) \in Nat /\ DOMAIN saved = 1..Len(saved)
  BY SavedType DEF IInv
<1>5. /\ saved' \in Seq(SavedSet) /\ Len(saved') = Len(saved) + 1
      /\ DOMAIN saved' = 1..(Len(saved) + 1)
      /\ \A k \in 1..Len(saved) : saved'[k] = saved[k]
      /\ saved'[Len(saved) + 1] = s
  BY <1>2, <1>3, <1>4, AppendProperties, LenProperties
<1>6. TypeOK'
  <2>1. Len(saved') <= MaxLevels
    BY <1>4, <1>5, SparseSetAssumption DEF Save
  <2> QED
    BY <2>1 DEF IInv, TypeOK, Save
<1>7. /\ UNCHANGED <<values, indexes, size, min, max, failed>> /\ Fields' = Fields
      /\ \A a : At(a)' = At(a) /\ Shown(At(a))' = Shown(At(a))
  BY DEF Save, Fields, At, Shown, Members
<1>8. At(s) = Fields
  BY <1>1 DEF At, Fields
<1>9. ASSUME NEW k \in DOMAIN saved'
      PROVE  /\ At(saved'[k]) \in Sets
             /\ saved'[k].was = Shown(At(saved'[k]))
             /\ size <= saved'[k].n
  <2>1. CASE k \in 1..Len(saved)
    BY <1>4, <1>5, <2>1 DEF IInv, Levels
  <2>2. CASE k = Len(saved) + 1
    BY <1>1, <1>5, <1>8, <2>2, FieldsNow, SlotsAreNat DEF IInv, TypeOK
  <2>3. QED
    BY <1>4, <1>5, <2>1, <2>2
<1>10. ASSUME NEW j \in DOMAIN saved', NEW k \in DOMAIN saved', j < k
       PROVE  saved'[k].n <= saved'[j].n
  <2>1. j \in 1..Len(saved)
    BY <1>4, <1>5, <1>10
  <2>2. CASE k \in 1..Len(saved)
    BY <1>4, <1>5, <1>10, <2>1, <2>2 DEF IInv, Levels
  <2>3. CASE k = Len(saved) + 1
    BY <1>1, <1>4, <1>5, <2>1, <2>3 DEF IInv, Levels
  <2>4. QED
    BY <1>4, <1>5, <2>2, <2>3
<1>11. Levels'
  <2>1. \A k \in DOMAIN saved' : At(saved'[k]) = At(saved[k])'
    BY <1>7 DEF At
  <2>2. \A k \in DOMAIN saved' : Shown(At(saved'[k])) = Shown(At(saved[k]))'
    BY <1>7 DEF At, Shown, Members
  <2> QED
    BY <1>5, <1>7, <1>9, <1>10, <2>1, <2>2 DEF Levels
<1>12. QED
  BY <1>6, <1>7, <1>11 DEF IInv

(* Going back reinstates the three numbers, under the arrays of today.        *)
LEMMA RestoreKeeps == IInv /\ Restore => IInv'
<1> SUFFICES ASSUME IInv, Restore PROVE IInv'
  OBVIOUS
<1> DEFINE m == Len(saved)
<1>1. /\ saved \in Seq(SavedSet) /\ m \in Nat \ {0} /\ DOMAIN saved = 1..m
      /\ \A k \in 1..m : saved[k].n \in 1..N /\ saved[k].lo \in Slots /\ saved[k].hi \in Slots
  <2>1. saved # <<>> /\ saved \in Seq(SavedSet)
    BY SavedType DEF Restore, IInv
  <2>2. Len(saved) # 0
    BY <2>1, EmptySeq
  <2> QED
    BY <2>1, <2>2, SavedType DEF IInv
<1>2. /\ size' = saved[m].n /\ min' = saved[m].lo /\ max' = saved[m].hi
      /\ saved' = SubSeq(saved, 1, m - 1) /\ failed' = FALSE /\ told' = {}
      /\ values' = values /\ indexes' = indexes
  BY DEF Restore
<1> HIDE DEF m
<1>3. /\ saved' \in Seq(SavedSet) /\ Len(saved') = m - 1 /\ DOMAIN saved' = 1..(m - 1)
      /\ \A k \in 1..(m - 1) : saved'[k] = saved[k]
  <2>1. \A k \in 1..(m - 1) : saved[k] \in SavedSet
    BY <1>1, SavedType DEF IInv, m
  <2> QED
    BY <1>1, <1>2, <2>1, SubSeqProperties DEF m
<1>4. Fields' = At(saved[m])
  BY <1>2 DEF Fields, At
<1>5. TypeOK'
  <2>1. Len(saved') <= MaxLevels
    BY <1>1, <1>3, SparseSetAssumption DEF IInv, TypeOK, m
  <2>2. saved[m].n \in 1..N /\ saved[m].lo \in Slots /\ saved[m].hi \in Slots
    BY <1>1
  <2>3. size' \in 0..N
    BY <1>2, <2>2, SlotsAreNat
  <2> QED
    BY <1>2, <2>1, <2>2, <2>3 DEF IInv, TypeOK
<1>6. At(saved[m]) \in Sets
  BY <1>1 DEF IInv, Levels
<1>7. failed' <=> size' = 0
  BY <1>1, <1>2, SlotsAreNat
<1>8. Levels'
  <2>1. ASSUME NEW k \in DOMAIN saved'
        PROVE  /\ At(saved[k])' \in Sets
               /\ saved'[k].was = Shown(At(saved[k]))'
               /\ size' <= saved'[k].n
    <3>1. k \in DOMAIN saved /\ m \in DOMAIN saved /\ k < m /\ saved'[k] = saved[k]
      BY <1>1, <1>3, <2>1
    <3>2. At(saved[k])' = At(saved[k]) /\ Shown(At(saved[k]))' = Shown(At(saved[k]))
      BY <1>2, <3>1 DEF At, Shown, Members
    <3> QED
      BY <1>2, <3>1, <3>2 DEF IInv, Levels
  <2>2. \A j, k \in DOMAIN saved' : j < k => saved'[k].n <= saved'[j].n
    <3>1. \A k \in DOMAIN saved' : k \in DOMAIN saved /\ saved'[k] = saved[k]
      BY <1>1, <1>3
    <3> QED
      BY <3>1 DEF IInv, Levels
  <2> QED
    BY <1>3, <2>1, <2>2 DEF Levels
<1>9. QED
  BY <1>4, <1>5, <1>6, <1>7, <1>8 DEF IInv

(* Every step keeps the invariant.                                            *)
LEMMA InvStep == IInv /\ [Next]_vars => IInv'
<1> SUFFICES ASSUME IInv, [Next]_vars PROVE IInv'
  OBVIOUS
<1>1. ASSUME NEW w \in Arguments, Assign(w) \/ Remove(w) \/ RemoveBelow(w) \/ RemoveAbove(w)
      PROVE  IInv'
  <2>1. w \in Int
    BY SparseSetAssumption
  <2> QED
    BY <1>1, <2>1, AssignResult, RemoveResult, RemoveBelowResult, RemoveAboveResult, ResultKeeps
<1>2. CASE UNCHANGED vars
  <2>1. Fields' = Fields /\ \A a : At(a)' = At(a) /\ Shown(At(a))' = Shown(At(a))
    BY <1>2 DEF vars, Fields, At, Shown, Members
  <2>2. \A k \in DOMAIN saved : At(saved[k])' = At(saved[k]) /\ Shown(At(saved[k]))' = Shown(At(saved[k]))
    BY <1>2 DEF vars, At, Shown, Members
  <2>3. Levels'
    BY <1>2, <2>2 DEF vars, IInv, Levels
  <2> QED
    BY <1>2, <2>1, <2>3 DEF vars, IInv, TypeOK
<1>3. QED
  BY <1>1, <1>2, SaveKeeps, RestoreKeeps DEF Next

(* The arrays are inverse, the bounds are members, and every saved level      *)
(* still shows its values: an invariant for every size, offset and number of  *)
(* levels (domain.cpp:238-400).                                               *)
THEOREM Invariant == Spec => []IInv
  BY InvInit, InvStep, PTL DEF Spec

(* The arrays stay inverse permutations and the trailed bounds are members    *)
(* with nothing outside, whatever is removed, saved and restored              *)
(* (domain.cpp:251-288, 303-317).                                             *)
THEOREM WellFormedHolds == Spec => []WellFormed
<1>1. IInv => WellFormed
  <2> SUFFICES ASSUME IInv PROVE WellFormed
    OBVIOUS
  <2>1. Permutation
    BY FieldsNow DEF IInv, Sets, Inverses, Permutation
  <2>2. ASSUME ~failed PROVE /\ {min + Ofs, max + Ofs} \subseteq Contents
                             /\ Contents \subseteq (min + Ofs)..(max + Ofs)
    <3>1. /\ min \in Members(Fields) /\ max \in Members(Fields)
          /\ \A x \in Members(Fields) : min <= x /\ x <= max /\ x \in Nat
      BY <2>2, BoundsOf, MembersBetween, FieldsNow DEF IInv
    <3>2. Contents = {x + Ofs : x \in Members(Fields)}
      BY FieldsNow DEF Shown
    <3> QED
      BY <3>1, <3>2, SparseSetAssumption
  <2> QED
    BY <2>1, <2>2 DEF WellFormed, IInv, Bounds
<1>2. QED
  BY <1>1, Invariant, PTL

(* The first n slots hold the set an open level saw, without a trail for the  *)
(* permutation (domain.hpp:64-66).                                            *)
THEOREM LevelsIntactHolds == Spec => []LevelsIntact
<1>1. IInv => LevelsIntact
  <2> SUFFICES ASSUME IInv, NEW k \in DOMAIN saved
               PROVE  {values[i] + Ofs : i \in 0..(saved[k].n - 1)} = saved[k].was
    BY DEF LevelsIntact
  <2> DEFINE f == At(saved[k])
  <2>1. f \in Sets /\ saved[k].was = Shown(f) /\ f.n = saved[k].n /\ f.v = values
    BY AtFields DEF IInv, Levels
  <2> HIDE DEF f
  <2>2. f \in Records /\ Inverses(f) /\ f.n \in 0..N
    BY <2>1, RecordFields DEF Sets
  <2>3. \A s \in 0..(f.n - 1) : f.v[s] \in Members(f)
    <3>1. \A s \in 0..(f.n - 1) : s \in Slots /\ s < f.n
      BY <2>2, SlotsAreNat DEF Slots
    <3> QED
      BY <2>2, <3>1, RecordFields DEF Inverses, Members
  <2>4. \A x \in Members(f) : f.i[x] \in 0..(f.n - 1) /\ f.v[f.i[x]] = x
    BY <2>2, RecordFields DEF Members, Inverses
  <2>5. {f.v[s] + Ofs : s \in 0..(f.n - 1)} = {x + Ofs : x \in Members(f)}
    BY <2>3, <2>4
  <2> QED
    BY <2>1, <2>5 DEF Shown
<1>2. QED
  BY <1>1, Invariant, PTL
--------------------------------------------------------------------------------
(* The abstract domain: the values shown, none after a failure.               *)
Abstract == IF failed THEN {} ELSE Contents
AbstractSaved == [k \in DOMAIN saved |-> saved[k].was]

(* The abstract set is the one the fields show.                               *)
LEMMA AbstractNow ==
  ASSUME IInv
  PROVE  /\ Abstract = Shown(Fields)
         /\ \A x \in Int : x \in Abstract <=> x - Ofs \in Members(Fields)
<1>1. Fields \in Sets
  BY DEF IInv
<1>2. Abstract = Shown(Fields)
  <2>1. CASE failed
    <3>1. Members(Fields) = {}
      BY <1>1, <2>1, OneMember, FieldsNow DEF IInv
    <3> QED
      BY <2>1, <3>1 DEF Abstract, Shown
  <2>2. CASE ~failed
    BY <2>2, FieldsNow DEF Abstract
  <2>3. QED
    BY <2>1, <2>2
<1>3. ASSUME NEW x \in Int PROVE x \in Shown(Fields) <=> x - Ofs \in Members(Fields)
  <2>1. Members(Fields) \subseteq Int /\ Ofs \in Int
    BY <1>1, MembersBetween, SparseSetAssumption
  <2>2. \A y \in Int : x = y + Ofs <=> y = x - Ofs
    BY <2>1
  <2> QED
    BY <2>1, <2>2 DEF Shown
<1>4. QED
  BY <1>2, <1>3

(* The bounds shown are the least and the greatest value.                     *)
LEMMA ShownExtremes ==
  ASSUME NEW f \in Sets, f.n # 0
  PROVE  /\ Min(Shown(f)) = f.lo + Ofs /\ Max(Shown(f)) = f.hi + Ofs
         /\ IsFiniteSet(Shown(f))
<1>1. /\ f.lo \in Members(f) /\ f.hi \in Members(f) /\ Members(f) \subseteq Nat
      /\ \A x \in Members(f) : f.lo <= x /\ x <= f.hi
  BY BoundsOf, MembersBetween
<1>2. Ofs \in Int
  BY SparseSetAssumption
<1>3. f.lo + Ofs \in Shown(f) /\ f.hi + Ofs \in Shown(f)
      /\ \A y \in Shown(f) : y \in Int /\ f.lo + Ofs <= y /\ y <= f.hi + Ofs
  BY <1>1, <1>2 DEF Shown
<1> DEFINE S == Shown(f)
           a == f.lo + Ofs
           b == f.hi + Ofs
<1>4. a \in Int /\ b \in Int /\ S \in SUBSET Int /\ S # {}
  BY <1>1, <1>2, <1>3
<1> HIDE DEF S, a, b
<1>5. Min(S) \in S /\ \A y \in S : Min(S) <= y
  BY <1>3, <1>4, LeastInt DEF S, a
<1>6. Max(S) \in S /\ \A y \in S : Max(S) >= y
  BY <1>3, <1>4, GreatestInt DEF S, b
<1>7. Min(S) = a /\ Max(S) = b
  BY <1>3, <1>4, <1>5, <1>6 DEF S, a, b
<1>8. IsFiniteSet(S)
  <2>1. S \subseteq a..b
    BY <1>3, <1>4 DEF S, a, b
  <2> QED
    BY <1>4, <2>1, FS_Interval, FS_Subset
<1>9. QED
  BY <1>7, <1>8 DEF S, a, b

(* The set is bound when its size is one.                                     *)
LEMMA OneShown ==
  ASSUME NEW f \in Sets, f.n # 0
  PROVE  Cardinality(Shown(f)) = 1 <=> f.n = 1
<1>1. Members(f) \subseteq Int /\ Ofs \in Int
  BY MembersBetween, SparseSetAssumption
<1>2. ASSUME NEW x, Members(f) = {x} PROVE \E y : Shown(f) = {y}
  BY <1>2 DEF Shown
<1>3. ASSUME NEW y, Shown(f) = {y} PROVE \E x : Members(f) = {x}
  <2>1. \A x \in Members(f) : x + Ofs = y
    BY <1>3 DEF Shown
  <2>2. f.lo \in Members(f)
    BY BoundsOf
  <2>3. Members(f) = {f.lo}
    BY <1>1, <2>1, <2>2
  <2> QED
    BY <2>3
<1>4. Cardinality(Shown(f)) = 1 <=> \E y : Shown(f) = {y}
  BY ShownExtremes, FS_Singleton
<1>5. QED
  BY <1>2, <1>3, <1>4, OneMember

(* A value is shown when it is a member less the offset.                      *)
LEMMA ShownMember ==
  ASSUME NEW f \in Sets, NEW x \in Int
  PROVE  x + Ofs \in Shown(f) <=> x \in Members(f)
<1>1. Members(f) \subseteq Int /\ Ofs \in Int
  BY MembersBetween, SparseSetAssumption
<1>2. \A y \in Members(f) : x + Ofs = y + Ofs => x = y
  <2> SUFFICES ASSUME NEW y \in Members(f), x + Ofs = y + Ofs PROVE x = y
    OBVIOUS
  <2>1. y \in Int /\ Ofs \in Int
    BY <1>1
  <2> QED
    BY <2>1
<1>3. QED
  BY <1>2 DEF Shown

(* The values shown change when the members do.                               *)
LEMMA ShownDiffer ==
  ASSUME NEW f \in Sets, NEW g \in Sets
  PROVE  Shown(f) = Shown(g) <=> Members(f) = Members(g)
<1>1. Members(f) \subseteq Int /\ Members(g) \subseteq Int /\ Ofs \in Int
  BY MembersBetween, SparseSetAssumption
<1>2. \A x \in Int : (x \in Members(f) <=> x + Ofs \in Shown(f)) /\ (x \in Members(g) <=> x + Ofs \in Shown(g))
  BY ShownMember
<1>3. ASSUME Shown(f) = Shown(g) PROVE Members(f) = Members(g)
  BY <1>1, <1>2, <1>3
<1>4. QED
  BY <1>3 DEF Shown

(* The notifications are the ones the abstract domain asks for.               *)
LEMMA TellsExactly ==
  ASSUME NEW f \in Sets, NEW g \in Sets, f.n # 0, g.n # 0, NEW E, Tells(f, g, E)
  PROVE  E = Domain!Events(Shown(f), Shown(g))
<1>1. Ofs \in Int /\ f.lo \in Int /\ g.lo \in Int /\ f.hi \in Int /\ g.hi \in Int
  BY MembersBetween, SparseSetAssumption
<1> DEFINE A == Shown(f)
           B == Shown(g)
           Wanted(e) == CASE e = "change"    -> A # B
                          [] e = "bind"      -> A # B /\ Cardinality(B) = 1
                          [] e = "changeMin" -> Min(A) # Min(B)
                          [] e = "changeMax" -> Max(A) # Max(B)
<1>2. Domain!Events(A, B) = {e \in {"change", "bind", "changeMin", "changeMax"} : Wanted(e)}
  BY DEF Domain!Events, Domain!Min, Domain!Max, Min, Max
<1>3. A # B <=> Members(f) # Members(g)
  BY ShownDiffer
<1>4. Cardinality(B) = 1 <=> g.n = 1
  BY OneShown
<1>x. Min(A) = f.lo + Ofs /\ Min(B) = g.lo + Ofs /\ Max(A) = f.hi + Ofs /\ Max(B) = g.hi + Ofs
  BY ShownExtremes
<1>5. Min(A) # Min(B) <=> f.lo # g.lo
  BY <1>1, <1>x
<1>6. Max(A) # Max(B) <=> f.hi # g.hi
  BY <1>1, <1>x
<1> HIDE DEF A, B
<1>7. /\ Wanted("change") <=> "change" \in E
      /\ Wanted("bind") <=> "bind" \in E
      /\ Wanted("changeMin") <=> "changeMin" \in E
      /\ Wanted("changeMax") <=> "changeMax" \in E
  BY <1>3, <1>4, <1>5, <1>6 DEF Tells
<1> HIDE DEF Wanted
<1>8. E \subseteq {"bind", "change", "changeMin", "changeMax"}
  BY DEF Tells
<1>9. QED
  BY <1>2, <1>7, <1>8 DEF A, B

(* Each operation is the abstract one of its name.                            *)
LEMMA ResultNarrows ==
  ASSUME IInv, ~failed, NEW D, Result(D), NEW S,
         \A x \in Members(Fields) : x \in D <=> x + Ofs \in S, D \subseteq Members(Fields)
  PROVE  Domain!Narrow(S)
<1>1. PICK g, E : /\ Becomes(Fields, g, D) /\ Became(g, E)
                  /\ g.n # 0 => Tells(Fields, g, E)
  BY DEF Result
<1>2. Fields \in Sets /\ g \in Sets /\ Members(g) = D /\ Fields.n # 0
  BY <1>1, FieldsNow DEF Becomes, IInv
<1>3. IInv' /\ Fields' = g
  <2>1. SetFields(g) /\ failed' = (g.n = 0) /\ saved' = saved
        /\ told' \subseteq {"bind", "change", "changeMin", "changeMax", "empty"}
    BY <1>1 DEF Became, Tells
  <2> QED
    BY <1>1, <2>1, NarrowKeeps
<1>4. Abstract = Shown(Fields) /\ Abstract' = Shown(g)
  <2>1. indexes' = g.i /\ size' = g.n /\ failed' = (g.n = 0)
    BY <1>1 DEF Became, SetFields
  <2>2. Contents' = Shown(g)
    BY <2>1 DEF Contents, Shown, Members
  <2>3. g.n = 0 => Shown(g) = {}
    BY <1>2, OneMember DEF Shown
  <2> QED
    BY <2>1, <2>2, <2>3, AbstractNow DEF Abstract
<1>5. Shown(g) = Shown(Fields) \cap S
  <2>1. \A x \in Members(Fields) : x \in Int
    BY <1>2, MembersBetween
  <2> QED
    BY <1>2, <2>1 DEF Shown
<1>6. failed' <=> Abstract \cap S = {}
  <2>1. g.n = 0 <=> Members(g) = {}
    BY <1>2, OneMember
  <2>2. Members(g) = {} <=> Shown(g) = {}
    BY DEF Shown
  <2> QED
    BY <1>1, <1>4, <1>5, <2>1, <2>2 DEF Became
<1>7. ~failed' => told' = Domain!Events(Abstract, Abstract')
  BY <1>1, <1>2, <1>4, TellsExactly DEF Became
<1>8. AbstractSaved' = AbstractSaved
  BY <1>1 DEF Became, AbstractSaved
<1>9. failed' = (Abstract \cap S = {})
  BY <1>1, <1>6 DEF Became
<1>10. Abstract' = Abstract \cap S
  BY <1>4, <1>5
<1>11. QED
  BY <1>7, <1>8, <1>9, <1>10 DEF Domain!Narrow, Abstract, AbstractSaved

(* A member is shown as an integer.                                           *)
LEMMA MembersShown ==
  ASSUME IInv, NEW x \in Members(Fields)
  PROVE  x \in Int /\ x + Ofs \in Int /\ (x + Ofs) - Ofs = x
         /\ x + Ofs \in Abstract
<1>1. x \in Int /\ Ofs \in Int
  BY MembersBetween, SparseSetAssumption DEF IInv
<1>2. QED
  BY <1>1, AbstractNow DEF Shown

(* Each operation is the one of its name of the abstract domain.              *)
LEMMA OperationsRefine ==
  ASSUME IInv, NEW w \in Int
  PROVE  /\ Assign(w) => Domain!Assign(w)
         /\ Remove(w) => Domain!Remove(w)
         /\ RemoveBelow(w) => Domain!RemoveBelow(w)
         /\ RemoveAbove(w) => Domain!RemoveAbove(w)
<1> DEFINE m == Members(Fields)
<1>1. Ofs \in Int /\ \A x \in m : x \in Int /\ x + Ofs \in Abstract
  BY MembersShown, SparseSetAssumption
<1>2. ASSUME Assign(w) PROVE Domain!Assign(w)
  <2> DEFINE D == {z \in m : z = w - Ofs}
  <2>1. Result(D) /\ ~failed
    BY <1>2, AssignResult DEF Assign
  <2>2. \A x \in m : x \in D <=> x + Ofs \in {w}
    BY <1>1
  <2>3. Domain!Narrow({w})
    BY <2>1, <2>2, ResultNarrows
  <2> QED
    BY <2>3 DEF Domain!Assign
<1>3. ASSUME Remove(w) PROVE Domain!Remove(w)
  <2> DEFINE D == m \ {w - Ofs}
  <2>1. Result(D) /\ ~failed
    BY <1>3, RemoveResult DEF Remove
  <2>2. \A x \in m : x \in D <=> x + Ofs \in Abstract \ {w}
    BY <1>1
  <2>3. Domain!Narrow(Abstract \ {w})
    BY <2>1, <2>2, ResultNarrows
  <2> QED
    BY <2>3 DEF Domain!Remove, Abstract
<1>4. ASSUME RemoveBelow(w) PROVE Domain!RemoveBelow(w)
  <2> DEFINE D == {z \in m : z >= w - Ofs}
  <2>1. Result(D) /\ ~failed
    BY <1>4, RemoveBelowResult DEF RemoveBelow
  <2>2. \A x \in m : x \in D <=> x + Ofs \in {v \in Abstract : v >= w}
    BY <1>1
  <2>3. Domain!Narrow({v \in Abstract : v >= w})
    BY <2>1, <2>2, ResultNarrows
  <2> QED
    BY <2>3 DEF Domain!RemoveBelow, Abstract
<1>5. ASSUME RemoveAbove(w) PROVE Domain!RemoveAbove(w)
  <2> DEFINE D == {z \in m : z <= w - Ofs}
  <2>1. Result(D) /\ ~failed
    BY <1>5, RemoveAboveResult DEF RemoveAbove
  <2>2. \A x \in m : x \in D <=> x + Ofs \in {v \in Abstract : v <= w}
    BY <1>1
  <2>3. Domain!Narrow({v \in Abstract : v <= w})
    BY <2>1, <2>2, ResultNarrows
  <2> QED
    BY <2>3 DEF Domain!RemoveAbove, Abstract
<1>6. QED
  BY <1>2, <1>3, <1>4, <1>5

(* Every operation narrows the set as its name says and tells the listener    *)
(* exactly what changed (domain.cpp:337-400).                                 *)
THEOREM OperationsExactHold == Spec => OperationsExact
<1>1. IInv /\ [Next]_vars =>
         [\A w \in Arguments : /\ Assign(w) => Domain!Assign(w)
                               /\ Remove(w) => Domain!Remove(w)
                               /\ RemoveBelow(w) => Domain!RemoveBelow(w)
                               /\ RemoveAbove(w) => Domain!RemoveAbove(w)]_vars
  BY OperationsRefine, SparseSetAssumption
<1>2. QED
  BY <1>1, Invariant, PTL DEF Spec, OperationsExact

(* The constructor builds the whole range.                                    *)
LEMMA InitRefines == Init => Domain!Init
<1> SUFFICES ASSUME Init PROVE Domain!Init
  OBVIOUS
<1>1. Abstract = Ofs..(Ofs + N - 1)
  <2>1. \A y \in Slots : indexes[y] < size
    BY SparseSetAssumption DEF Init, Slots
  <2>2. {y \in Slots : indexes[y] < size} = Slots
    BY <2>1
  <2>3. Contents = {x + Ofs : x \in Slots}
    BY <2>2 DEF Contents
  <2>4. \A v \in Ofs..(Ofs + N - 1) : v - Ofs \in Slots /\ v = (v - Ofs) + Ofs
    BY SparseSetAssumption DEF Slots
  <2>5. \A x \in Slots : x + Ofs \in Ofs..(Ofs + N - 1)
    BY SparseSetAssumption DEF Slots
  <2> QED
    BY <2>3, <2>4, <2>5 DEF Abstract, Init
<1>2. AbstractSaved = <<>>
  BY DEF Init, AbstractSaved
<1>3. QED
  BY <1>1, <1>2 DEF Domain!Init, Init, Abstract, AbstractSaved

(* The abstract levels are the sets the levels saved.                         *)
LEMMA SavedShown ==
  ASSUME Levels
  PROVE  /\ AbstractSaved \in Seq(SUBSET Int) /\ Len(AbstractSaved) = Len(saved)
         /\ \A k \in 1..Len(saved) : AbstractSaved[k] = saved[k].was
<1>1. /\ Len(saved) \in Nat /\ DOMAIN saved = 1..Len(saved)
      /\ \A k \in 1..Len(saved) : saved[k].was \in SUBSET Int
  BY SavedType
<1>2. AbstractSaved \in [1..Len(saved) -> SUBSET Int]
  BY <1>1 DEF AbstractSaved
<1>3. AbstractSaved \in Seq(SUBSET Int)
  BY <1>1, <1>2, SeqDef
<1>4. QED
  BY <1>1, <1>2, <1>3 DEF AbstractSaved

(* Saving saves.                                                              *)
LEMMA SaveRefines == ASSUME IInv, Save PROVE Domain!Save
<1> DEFINE s == [n |-> size, lo |-> min, hi |-> max, was |-> Contents]
<1>1. s.was = Contents /\ saved' = Append(saved, s) /\ ~failed
  BY DEF Save
<1>2. Contents = Abstract
  BY <1>1 DEF Abstract
<1>3. Levels /\ Levels'
  BY SaveKeeps DEF IInv
<1>4. s \in SavedSet
  <2>1. size \in 1..N
    BY SlotsAreNat DEF IInv, TypeOK, Save
  <2>2. Contents \in SUBSET Int
    BY SparseSetAssumption, SlotsAreNat DEF Contents
  <2> QED
    BY <2>1, <2>2 DEF SavedSet, IInv, TypeOK
<1> HIDE DEF s
<1>5. saved \in Seq(SavedSet) /\ Len(saved) \in Nat /\ DOMAIN saved = 1..Len(saved)
  BY <1>3, SavedType
<1>6. /\ Len(saved') = Len(saved) + 1 /\ DOMAIN saved' = 1..(Len(saved) + 1)
      /\ \A k \in 1..Len(saved) : saved'[k] = saved[k]
      /\ saved'[Len(saved) + 1] = s
  BY <1>1, <1>4, <1>5, AppendProperties, LenProperties
<1>7. /\ AbstractSaved \in Seq(SUBSET Int) /\ Len(AbstractSaved) = Len(saved)
      /\ \A k \in 1..Len(saved) : AbstractSaved[k] = saved[k].was
  BY <1>3, SavedShown
<1>8. Contents \in SUBSET Int
  BY SparseSetAssumption, SlotsAreNat DEF Contents
<1>9. AbstractSaved' = [k \in 1..(Len(saved) + 1) |-> saved'[k].was]
  BY <1>6 DEF AbstractSaved
<1>10. AbstractSaved' = Append(AbstractSaved, Contents)
  <2> DEFINE t == Append(AbstractSaved, Contents)
  <2>1. /\ t \in Seq(SUBSET Int) /\ Len(t) = Len(saved) + 1
        /\ \A k \in 1..Len(saved) : t[k] = AbstractSaved[k]
        /\ t[Len(saved) + 1] = Contents
    BY <1>7, <1>8, AppendProperties
  <2>2. t \in [1..(Len(saved) + 1) -> SUBSET Int]
    BY <2>1, LenProperties
  <2> HIDE DEF t
  <2>3. \A k \in 1..(Len(saved) + 1) : t[k] = saved'[k].was
    BY <1>1, <1>5, <1>6, <1>7, <2>1
  <2> QED
    BY <1>9, <2>2, <2>3 DEF t
<1>11. QED
  BY <1>1, <1>2, <1>10 DEF Domain!Save, Save, Abstract, AbstractSaved, Contents

(* Restoring brings back the set that was saved.                              *)
LEMMA RestoreRefines == ASSUME IInv, Restore PROVE Domain!Restore
<1> DEFINE m == Len(saved)
<1>1. saved \in Seq(SavedSet) /\ m \in Nat \ {0} /\ DOMAIN saved = 1..m
  <2>1. saved # <<>> /\ saved \in Seq(SavedSet)
    BY SavedType DEF Restore, IInv
  <2>2. Len(saved) # 0
    BY <2>1, EmptySeq
  <2> QED
    BY <2>1, <2>2, SavedType DEF IInv
<1>2. /\ size' = saved[m].n /\ saved' = SubSeq(saved, 1, m - 1) /\ failed' = FALSE
      /\ indexes' = indexes
  BY DEF Restore
<1> HIDE DEF m
<1>3. \A k \in 1..m : saved[k] \in SavedSet
  BY <1>1
<1>4. /\ saved' \in Seq(SavedSet) /\ Len(saved') = m - 1 /\ DOMAIN saved' = 1..(m - 1)
      /\ \A k \in 1..(m - 1) : saved'[k] = saved[k]
  BY <1>1, <1>2, <1>3, SubSeqProperties DEF m
<1>5. /\ AbstractSaved \in Seq(SUBSET Int) /\ Len(AbstractSaved) = m
      /\ \A k \in 1..m : AbstractSaved[k] = saved[k].was
  BY SavedShown DEF IInv, m
<1>6. Abstract' = AbstractSaved[m]
  <2>1. Contents' = Shown(At(saved[m]))
    BY <1>2 DEF Contents, Shown, Members, At
  <2>2. saved[m].was = Shown(At(saved[m]))
    BY <1>1 DEF IInv, Levels
  <2> QED
    BY <1>1, <1>2, <1>5, <2>1, <2>2 DEF Abstract
<1>7. AbstractSaved' = SubSeq(AbstractSaved, 1, m - 1)
  <2> DEFINE t == SubSeq(AbstractSaved, 1, m - 1)
  <2>1. AbstractSaved' = [k \in 1..(m - 1) |-> saved[k].was]
    BY <1>4 DEF AbstractSaved
  <2>2. t = [k \in 1..(m - 1) |-> AbstractSaved[k]]
    <3>1. /\ t \in Seq(SUBSET Int) /\ Len(t) = m - 1
          /\ \A k \in 1..(m - 1) : t[k] = AbstractSaved[k]
      <4>1. \A k \in 1..(m - 1) : AbstractSaved[k] \in SUBSET Int
        BY <1>1, <1>5
      <4> QED
        BY <1>1, <1>5, <4>1, SubSeqProperties
    <3>2. t \in [1..(m - 1) -> SUBSET Int]
      BY <3>1, LenProperties
    <3> HIDE DEF t
    <3> QED
      BY <3>1, <3>2
  <2> HIDE DEF t
  <2> QED
    BY <1>1, <1>5, <2>1, <2>2 DEF t
<1>8. AbstractSaved # <<>>
  BY <1>1, <1>5, EmptySeq
<1>9. QED
  BY <1>2, <1>5, <1>6, <1>7, <1>8 DEF Domain!Restore, Abstract, AbstractSaved

(* Every step is a step of the abstract domain, or none.                      *)
LEMMA StepRefines == IInv /\ [Next]_vars => [Domain!Next]_(Domain!vars)
<1> SUFFICES ASSUME IInv, [Next]_vars PROVE [Domain!Next]_(Domain!vars)
  OBVIOUS
<1>1. ASSUME NEW S, Domain!Narrow(S) PROVE Domain!Next
  <2>1. Domain!Narrow(Abstract \cap S)
    <3>1. Abstract \cap (Abstract \cap S) = Abstract \cap S
      OBVIOUS
    <3> QED
      BY <1>1, <3>1 DEF Domain!Narrow, Abstract
  <2> QED
    BY <2>1 DEF Domain!Next, Abstract
<1>2. ASSUME NEW w \in Arguments, Assign(w) \/ Remove(w) \/ RemoveBelow(w) \/ RemoveAbove(w)
      PROVE  Domain!Next
  <2>1. w \in Int
    BY SparseSetAssumption
  <2>2. \/ Domain!Assign(w) \/ Domain!Remove(w)
        \/ Domain!RemoveBelow(w) \/ Domain!RemoveAbove(w)
    BY <1>2, <2>1, OperationsRefine
  <2>3. \E S : Domain!Narrow(S)
    BY <2>2 DEF Domain!Assign, Domain!Remove, Domain!RemoveBelow, Domain!RemoveAbove
  <2> QED
    BY <1>1, <2>3
<1>3. CASE UNCHANGED vars
  BY <1>3 DEF vars, Domain!vars, Contents
<1>4. QED
  BY <1>2, <1>3, SaveRefines, RestoreRefines DEF Next, Domain!Next

(* Over any run it is a set that four operations narrow and that backtracking *)
(* restores: the sparse set implements IntDomain (domain.hpp:63-120).         *)
THEOREM SparseSetIsIntDomain == Spec => IsIntDomain
  BY InitRefines, StepRefines, Invariant, PTL DEF Spec, IsIntDomain, Domain!Spec
================================================================================
