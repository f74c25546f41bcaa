------------------------------ MODULE TrailProofs ------------------------------
(* For every set of cells and values, every block size and every bound: the   *)
(* type invariant, the layout of the block, the soundness of the stamps under *)
(* the discipline of the searches, and the refinement of BacktrackStore.      *)
EXTENDS Trail, IntervalLemmas, SequenceTheorems

(* What the type invariant says of one frame, one entry.                      *)
LEMMA FrameFields ==
  ASSUME NEW f \in Frames
  PROVE  f.size \in Nat /\ f.mem \in Nat /\ f.id \in Int /\ f.armed \in BOOLEAN
  BY DEF Frames

(* What the type invariant says of one entry of the trail.                    *)
LEMMA EntryFields ==
  ASSUME NEW e \in Entries
  PROVE  e.cell \in Cells /\ e.old \in Values /\ e.at \in Nat
  BY DEF Entries

(* The stack of frames as a function: its domain and its range.               *)
LEMMA FrameType ==
  ASSUME TypeOK
  PROVE  /\ Len(tops) \in Nat /\ DOMAIN tops = 1..Len(tops)
         /\ \A i \in DOMAIN tops : tops[i] \in Frames
  BY DEF TypeOK

(* The trail as a function: its domain and its range.                         *)
LEMMA EntryType ==
  ASSUME TypeOK
  PROVE  /\ Len(trail) \in Nat /\ DOMAIN trail = 1..Len(trail)
         /\ \A k \in DOMAIN trail : trail[k] \in Entries
  BY DEF TypeOK

(* The least entry of a cell above a height, when there is one.               *)
LEMMA LowestEntry ==
  ASSUME TypeOK, NEW s \in 0..Len(trail), NEW c \in Cells, Above(s, c) # {}
  PROVE  /\ Min(Above(s, c)) \in Above(s, c)
         /\ \A k \in Above(s, c) : Min(Above(s, c)) <= k
<1>1. Above(s, c) \in SUBSET Nat
  BY DEF Above, TypeOK
<1>2. QED
  BY <1>1, MinNat

(* It is the entry whose old value the cell goes back to.                     *)
LEMMA ValueOfLowest ==
  ASSUME TypeOK, NEW s \in 0..Len(trail), NEW c \in Cells, NEW k \in Above(s, c),
         \A j \in Above(s, c) : k <= j
  PROVE  ValueAt[s][c] = trail[k].old
<1>1. /\ Min(Above(s, c)) \in Above(s, c)
      /\ \A j \in Above(s, c) : Min(Above(s, c)) <= j
  BY LowestEntry
<1>2. Above(s, c) \subseteq Int
  BY DEF Above, TypeOK
<1>3. Min(Above(s, c)) = k
  BY <1>1, <1>2
<1>4. QED
  BY <1>3 DEF ValueAt

(* Undoing down to any height of the trail leaves a store.                    *)
LEMMA ValueAtType ==
  ASSUME TypeOK, NEW s \in 0..Len(trail)
  PROVE  ValueAt[s] \in Stores
<1>1. ASSUME NEW c \in Cells PROVE ValueAt[s][c] \in Values
  <2>1. CASE Above(s, c) = {}
    BY <2>1 DEF ValueAt, TypeOK, Stores
  <2>2. CASE Above(s, c) # {}
    <3>1. Min(Above(s, c)) \in Above(s, c)
      BY <2>2, LowestEntry
    <3>2. Min(Above(s, c)) \in 1..Len(trail)
      BY <3>1 DEF Above, TypeOK
    <3>3. trail[Min(Above(s, c))] \in Entries
      BY <3>2 DEF TypeOK
    <3>4. QED
      BY <2>2, <3>3 DEF ValueAt, Entries
  <2>3. QED
    BY <2>1, <2>2
<1>2. QED
  BY <1>1 DEF ValueAt, Stores

(* Logging the old value of c and then writing c changes nothing below.       *)
LEMMA LoggedWrite ==
  ASSUME TypeOK, TypeOK', NEW s \in 0..Len(trail), NEW c \in Cells, NEW v, NEW e \in Entries,
         e.cell = c, e.old = val[c],
         trail' = Append(trail, e), val' = [val EXCEPT ![c] = v]
  PROVE  ValueAt'[s] = ValueAt[s]
<1> DEFINE n == Len(trail)
<1>1. /\ trail \in Seq(Entries) /\ n \in Nat /\ Len(trail') = n + 1
      /\ \A k \in 1..n : trail'[k] = trail[k]
      /\ trail'[n + 1] = e
  BY AppendProperties DEF TypeOK
<1>0. s \in 0..Len(trail')
  BY <1>1
<1> SUFFICES ASSUME NEW d \in Cells PROVE ValueAt'[s][d] = ValueAt[s][d]
  BY <1>0 DEF ValueAt
<1>2. \A k \in 1..n : k \in Above(s, d)' <=> k \in Above(s, d)
  BY <1>1 DEF Above
<1>3. n + 1 \in Above(s, d)' <=> d = c
  BY <1>1 DEF Above
<1>4. Above(s, d) \subseteq 1..n /\ Above(s, d)' \subseteq 1..(n + 1)
  BY <1>1 DEF Above
<1>5. CASE Above(s, d) # {}
  <2> DEFINE k == Min(Above(s, d))
  <2>1. k \in Above(s, d) /\ \A j \in Above(s, d) : k <= j
    BY <1>5, LowestEntry
  <2> HIDE DEF k
  <2>2. k \in Above(s, d)' /\ \A j \in Above(s, d)' : k <= j
    BY <2>1, <1>1, <1>2, <1>4
  <2>3. ValueAt[s][d] = trail[k].old
    BY <2>1, ValueOfLowest
  <2>4. ValueAt'[s][d] = trail'[k].old
    <3>1. /\ Min(Above(s, d)') \in Above(s, d)'
          /\ \A j \in Above(s, d)' : Min(Above(s, d)') <= j
      BY <2>2, <1>4, <1>1, MinNat
    <3>2. Min(Above(s, d)') = k
      BY <3>1, <2>2, <1>4, <1>1
    <3>3. QED
      BY <3>2, <2>2, <1>0 DEF ValueAt
  <2>5. QED
    BY <2>1, <2>3, <2>4, <1>1, <1>4
<1>6. CASE Above(s, d) = {} /\ d = c
  <2>1. Above(s, d)' = {n + 1}
    BY <1>6, <1>1, <1>2, <1>3, <1>4
  <2>2. Min({n + 1}) = n + 1
    BY <1>1 DEF Min
  <2>3. QED
    BY <1>6, <2>1, <2>2, <1>0, <1>1 DEF ValueAt
<1>7. CASE Above(s, d) = {} /\ d # c
  <2>1. Above(s, d)' = {}
    BY <1>7, <1>1, <1>2, <1>3, <1>4
  <2>2. QED
    BY <1>7, <2>1, <1>0 DEF ValueAt, TypeOK, Stores
<1>8. QED
  BY <1>5, <1>6, <1>7

(* A cell with an entry above s may be written without logging it again.      *)
LEMMA CoveredWrite ==
  ASSUME TypeOK, NEW s \in 0..Len(trail), NEW c \in Cells, NEW v,
         Above(s, c) # {},
         trail' = trail, val' = [val EXCEPT ![c] = v]
  PROVE  ValueAt'[s] = ValueAt[s]
<1>1. \A d \in Cells : Above(s, d)' = Above(s, d)
  BY DEF Above
<1>2. ASSUME NEW d \in Cells PROVE ValueAt'[s][d] = ValueAt[s][d]
  <2>1. CASE Above(s, d) = {}
    BY <2>1, <1>1 DEF ValueAt, TypeOK, Stores
  <2>2. CASE Above(s, d) # {}
    BY <2>2, <1>1 DEF ValueAt
  <2>3. QED
    BY <2>1, <2>2
<1>3. QED
  BY <1>2 DEF ValueAt

(* Returning to height t does not change what returning to a lower height s   *)
(* would bring back.                                                          *)
LEMMA PopKeepsLower ==
  ASSUME TypeOK, TypeOK', NEW t \in 0..Len(trail), NEW s \in 0..t,
         trail' = SubSeq(trail, 1, t), val' = ValueAt[t]
  PROVE  ValueAt'[s] = ValueAt[s]
<1>1. /\ Len(trail) \in Nat /\ Len(trail') = t
      /\ \A k \in 1..t : trail'[k] = trail[k]
  BY SubSeqProperties DEF TypeOK
<1>0. s \in 0..Len(trail') /\ s \in 0..Len(trail)
  BY <1>1
<1> SUFFICES ASSUME NEW d \in Cells PROVE ValueAt'[s][d] = ValueAt[s][d]
  BY <1>0 DEF ValueAt
<1>2. Above(s, d)' = Above(s, d) \cap (1..t)
  BY <1>1 DEF Above
<1>3. Above(t, d) = Above(s, d) \ (1..t)
  BY <1>1 DEF Above
<1>4. Above(s, d) \subseteq Nat /\ Above(s, d)' \subseteq Nat
  BY <1>1 DEF Above
<1>5. CASE Above(s, d)' # {}
  <2> DEFINE k == Min(Above(s, d)')
  <2>1. k \in Above(s, d)' /\ \A j \in Above(s, d)' : k <= j
    BY <1>4, <1>5, MinNat
  <2>2. ValueAt'[s][d] = trail'[k].old
    BY <1>5, <1>0 DEF ValueAt
  <2> HIDE DEF k
  <2>3. k \in Above(s, d) /\ k \in 1..t
    BY <2>1, <1>2
  <2>4. \A j \in Above(s, d) : k <= j
    <3>1. \A j \in Above(s, d) : j \in 1..t => k <= j
      BY <2>1, <1>2
    <3>2. \A j \in Above(s, d) : j \notin 1..t => j > t
      BY <1>1 DEF Above
    <3>3. QED
      BY <3>1, <3>2, <2>3, <1>4
  <2>5. ValueAt[s][d] = trail[k].old
    BY <2>3, <2>4, <1>0, ValueOfLowest
  <2>6. QED
    BY <2>2, <2>3, <2>5, <1>1
<1>6. CASE Above(s, d)' = {}
  <2>1. ValueAt'[s][d] = ValueAt[t][d]
    BY <1>6, <1>0 DEF ValueAt
  <2>2. Above(t, d) = Above(s, d)
    BY <1>6, <1>2, <1>3
  <2>3. QED
    BY <2>1, <2>2, <1>0 DEF ValueAt
<1>7. QED
  BY <1>5, <1>6

--------------------------------------------------------------------------------
(* Everything about the trail that holds whoever its client is.               *)
FreeInv == TypeOK /\ Ordered /\ InBlock

(* A frame's height is a height of the trail.                                 *)
LEMMA FrameHeight ==
  ASSUME TypeOK, InBlock, NEW i \in DOMAIN tops
  PROVE  tops[i].size \in 0..Len(trail) /\ tops[i].mem \in Nat /\ tops[i].armed \in BOOLEAN
<1>1. tops[i] \in Frames /\ Len(trail) \in Nat
  BY FrameType, EntryType
<1>2. tops[i].size \in Nat /\ tops[i].mem \in Nat /\ tops[i].armed \in BOOLEAN
  BY <1>1, FrameFields
<1>3. QED
  BY <1>1, <1>2 DEF InBlock

(* The trailer starts in FreeInv (trail.cpp:23-31).                           *)
LEMMA InitFree == Init => FreeInv
<1> SUFFICES ASSUME Init PROVE FreeInv
  OBVIOUS
<1>1. trail \in Seq(Entries) /\ tops \in Seq(Frames) /\ Len(trail) = 0 /\ Len(tops) = 0
  BY EmptySeq DEF Init
<1>2. TypeOK
  <2>1. val \in Stores /\ stamp \in [Cells -> Int]
    BY DEF Init
  <2>2. enabled \in BOOLEAN /\ popped \in BOOLEAN
    BY DEF Init
  <2>3. magic \in Int /\ lastNode \in Int /\ btop \in Nat /\ bsz \in Nat
    BY TrailAssumption DEF Init
  <2>4. QED
    BY <1>1, <2>1, <2>2, <2>3 DEF TypeOK
<1>3. Ordered
  BY <1>1 DEF Init, Ordered
<1>4. InBlock
  BY <1>1, TrailAssumption DEF Init, InBlock, OffsetAt
<1>5. QED
  BY <1>2, <1>3, <1>4 DEF FreeInv

(* push() and push(id) keep FreeInv (trail.cpp:61-72).                        *)
LEMMA PushFree ==
  ASSUME FreeInv, NEW id \in Int, PushFrame(id), lastNode' \in Int
  PROVE  FreeInv'
<1> DEFINE n == Len(tops)
<1>1. Frame(id) \in Frames
  <2>1. Len(trail) \in Nat /\ btop \in Nat /\ enabled \in BOOLEAN
    BY DEF FreeInv, TypeOK
  <2>2. QED
    BY <2>1 DEF Frames, Frame
<1>2. /\ n \in Nat /\ tops' \in Seq(Frames) /\ Len(tops') = n + 1
      /\ \A i \in 1..n : tops'[i] = tops[i]
      /\ tops'[n + 1] = Frame(id)
  BY <1>1, AppendProperties DEF FreeInv, TypeOK, PushFrame
<1>3. DOMAIN tops = 1..n /\ DOMAIN tops' = 1..(n + 1)
  BY <1>2, FrameType DEF FreeInv
<1>4. TypeOK'
  <2>1. UNCHANGED <<val, stamp, trail, enabled, btop, bsz>> /\ magic' = magic + 1
    BY DEF PushFrame, NewMagic
  <2>2. popped' \in BOOLEAN
    BY DEF PushFrame, NewMagic
  <2>3. QED
    BY <1>2, <2>1, <2>2 DEF FreeInv, TypeOK
<1>5. Ordered'
  <2>1. \A c \in Cells : stamp'[c] <= magic'
    BY DEF FreeInv, TypeOK, Ordered, PushFrame, NewMagic
  <2>2. ASSUME NEW i \in 1..(n + 1), NEW j \in 1..(n + 1), i <= j
        PROVE  tops'[i].size <= tops'[j].size /\ (tops'[i].armed => tops'[j].armed)
    <3>1. CASE j \in 1..n
      BY <2>2, <3>1, <1>2, <1>3 DEF FreeInv, Ordered
    <3>2. CASE j = n + 1 /\ i \in 1..n
      <4>1. tops'[j].size = Len(trail) /\ tops'[j].armed = enabled
        BY <3>2, <1>2 DEF Frame
      <4>2. tops[i].size <= Len(trail) /\ (tops[i].armed => enabled)
        BY <3>2, <1>3 DEF FreeInv, Ordered, InBlock
      <4>3. QED
        BY <3>2, <4>1, <4>2, <1>2
    <3>3. CASE j = n + 1 /\ i = n + 1
      BY <3>3, <1>1, <1>2, FrameFields
    <3>4. QED
      BY <2>2, <3>1, <3>2, <3>3, <1>2
  <2>3. \A i \in 1..(n + 1) : tops'[i].armed => enabled'
    BY <1>2, <1>3 DEF FreeInv, Ordered, PushFrame, Frame
  <2>4. QED
    BY <2>1, <2>2, <2>3, <1>3 DEF Ordered
<1>6. InBlock'
  <2>1. trail' = trail /\ btop' = btop /\ bsz' = bsz
    BY DEF PushFrame
  <2>2. OffsetAt' = OffsetAt
    BY <2>1 DEF OffsetAt
  <2>3. ASSUME NEW i \in 1..(n + 1)
        PROVE  tops'[i].size <= Len(trail) /\ tops'[i].mem = OffsetAt[tops'[i].size]
    <3>1. CASE i \in 1..n
      BY <3>1, <1>2, <1>3 DEF FreeInv, InBlock
    <3>2. CASE i = n + 1
      <4>1. tops'[i].size = Len(trail) /\ tops'[i].mem = btop /\ Len(trail) \in Nat
        BY <3>2, <1>2, EntryType DEF Frame, FreeInv
      <4>2. QED
        BY <4>1 DEF OffsetAt
    <3>3. QED
      BY <3>1, <3>2, <1>2
  <2>4. QED
    BY <1>3, <2>1, <2>2, <2>3 DEF FreeInv, InBlock
<1>7. QED
  BY <1>4, <1>5, <1>6 DEF FreeInv

(* Returning to any open frame keeps FreeInv (trail.cpp:73-107).              *)
LEMMA PopFree ==
  ASSUME FreeInv, NEW j \in DOMAIN tops, PopTo(j)
  PROVE  FreeInv'
<1> DEFINE t == tops[j].size
<1>1. /\ j \in 1..Len(tops) /\ Len(tops) \in Nat /\ DOMAIN tops = 1..Len(tops)
      /\ \A i \in 1..Len(tops) : tops[i] \in Frames
      /\ t \in 0..Len(trail) /\ Len(trail) \in Nat /\ tops[j].mem \in Nat
  BY FrameType, EntryType, FrameHeight DEF FreeInv
<1>2. /\ trail' \in Seq(Entries) /\ Len(trail') = t
      /\ \A k \in 1..t : trail'[k] = trail[k]
  <2>1. \A k \in 1..t : trail[k] \in Entries
    BY <1>1, EntryType DEF FreeInv
  <2>2. trail' = SubSeq(trail, 1, t)
    BY DEF PopTo
  <2> HIDE DEF t
  <2>3. QED
    BY <1>1, <2>1, <2>2, SubSeqProperties
<1>3. /\ tops' \in Seq(Frames) /\ Len(tops') = j - 1
      /\ \A k \in 1..(j - 1) : tops'[k] = tops[k]
  <2>1. \A k \in 1..(j - 1) : tops[k] \in Frames
    BY <1>1
  <2>2. QED
    BY <1>1, <2>1, SubSeqProperties DEF PopTo
<1>4. DOMAIN tops' = 1..(j - 1)
  BY <1>3, <1>1
<1>5. TypeOK'
  <2>1. val' \in Stores
    BY <1>1, ValueAtType DEF FreeInv, PopTo
  <2>2. UNCHANGED <<stamp, magic, lastNode, enabled, bsz>> /\ popped' = TRUE /\ btop' \in Nat
    BY <1>1 DEF PopTo
  <2>3. QED
    BY <2>1, <2>2, <1>2, <1>3 DEF FreeInv, TypeOK
<1>6. \A i \in DOMAIN tops' : tops'[i] = tops[i] /\ i \in DOMAIN tops /\ tops[i].size \in 0..t
  <2>1. ASSUME NEW i \in 1..(j - 1) PROVE tops[i].size \in 0..t
    <3>1. i \in DOMAIN tops /\ i <= j
      BY <1>1
    <3>2. tops[i].size <= t
      BY <3>1 DEF FreeInv, Ordered
    <3>3. QED
      BY <3>1, <3>2, <1>1, FrameHeight DEF FreeInv
  <2>2. QED
    BY <2>1, <1>1, <1>3, <1>4
<1>7. Ordered'
  <2>1. UNCHANGED <<stamp, magic, enabled>>
    BY DEF PopTo
  <2>2. QED
    BY <1>6, <2>1 DEF FreeInv, Ordered
<1>8. \A s \in 0..t : OffsetAt'[s] = OffsetAt[s]
  <2>1. btop' = OffsetAt[t]
    BY <1>1 DEF FreeInv, InBlock, PopTo
  <2>2. ASSUME NEW s \in 0..t PROVE OffsetAt'[s] = OffsetAt[s]
    <3>1. CASE s = t
      BY <3>1, <2>1, <1>2 DEF OffsetAt
    <3>2. CASE s < t
      <4> HIDE DEF t
      <4>1. s + 1 \in 1..t /\ s # t /\ s # Len(trail) /\ s \in 0..Len(trail)
        BY <3>2, <1>1
      <4>2. QED
        BY <4>1, <1>2 DEF OffsetAt
    <3>3. QED
      BY <3>1, <3>2, <1>1
  <2>3. QED
    BY <2>2
<1>9. InBlock'
  <2>1. btop' < bsz' /\ BlockSize <= bsz'
    <3>1. btop' = OffsetAt[t] /\ OffsetAt[Len(trail)] = btop /\ bsz' = bsz
      BY <1>1 DEF FreeInv, InBlock, PopTo, OffsetAt
    <3>2. OffsetAt[t] <= OffsetAt[Len(trail)]
      BY <1>1 DEF FreeInv, InBlock
    <3>3. btop \in Nat /\ bsz \in Nat /\ btop < bsz /\ BlockSize <= bsz /\ btop' \in Nat
      BY <1>5 DEF FreeInv, TypeOK, InBlock
    <3>4. QED
      BY <3>1, <3>2, <3>3
  <2>2. OffsetAt'[0] = 0
    BY <1>1, <1>8 DEF FreeInv, InBlock
  <2>3. \A r, s \in 0..Len(trail') : r <= s => OffsetAt'[r] <= OffsetAt'[s]
    BY <1>1, <1>2, <1>8 DEF FreeInv, InBlock
  <2>4. \A k \in DOMAIN trail' : trail'[k].at + EntrySize[trail'[k].cell] = OffsetAt'[k]
    <3>1. \A k \in DOMAIN trail' : trail'[k] = trail[k] /\ k \in DOMAIN trail /\ k \in 0..t
      BY <1>1, <1>2, EntryType DEF FreeInv
    <3>2. QED
      BY <3>1, <1>8 DEF FreeInv, InBlock
  <2>5. \A i \in DOMAIN tops' : /\ tops'[i].size <= Len(trail')
                                /\ tops'[i].mem = OffsetAt'[tops'[i].size]
    BY <1>1, <1>2, <1>6, <1>8 DEF FreeInv, InBlock
  <2>6. QED
    BY <2>1, <2>2, <2>3, <2>4, <2>5 DEF InBlock
<1>10. QED
  BY <1>5, <1>7, <1>9 DEF FreeInv

(* Logging an old value keeps the layout of the block, the reallocation       *)
(* that doubles it included (trail.hpp:68-81, trail.cpp:38-59).               *)
LEMMA LogFree ==
  ASSUME FreeInv, NEW c \in Cells, enabled, LogOld(c), UNCHANGED tops
  PROVE  /\ trail' \in Seq(Entries) /\ btop' \in Nat /\ bsz' \in Nat
         /\ InBlock'
<1> DEFINE n == Len(trail)
           e == [cell |-> c, old |-> val[c], at |-> btop]
<1>1. e \in Entries
  BY DEF Entries, FreeInv, TypeOK, Stores
<1>2. /\ n \in Nat /\ trail' \in Seq(Entries) /\ Len(trail') = n + 1
      /\ \A k \in 1..n : trail'[k] = trail[k]
      /\ trail'[n + 1] = e
  <2>1. trail' = Append(trail, e)
    BY DEF LogOld
  <2> HIDE DEF e
  <2>2. QED
    BY <1>1, <2>1, AppendProperties DEF FreeInv, TypeOK
<1>3. /\ btop \in Nat /\ bsz \in Nat /\ EntrySize[c] \in Nat \ {0} /\ btop < bsz
      /\ btop' = btop + EntrySize[c]
      /\ bsz' = IF btop + EntrySize[c] >= bsz THEN 2 * bsz ELSE bsz
  BY TrailAssumption DEF FreeInv, TypeOK, InBlock, LogOld
<1>4. btop' < bsz' /\ BlockSize <= bsz' /\ btop' \in Nat /\ bsz' \in Nat
  <2>1. EntrySize[c] < bsz
    BY <1>3, TrailAssumption DEF FreeInv, InBlock
  <2>2. QED
    BY <1>3, <2>1, TrailAssumption DEF FreeInv, InBlock
<1>5. \A s \in 0..n : OffsetAt'[s] = OffsetAt[s]
  <2>1. ASSUME NEW s \in 0..n PROVE OffsetAt'[s] = OffsetAt[s]
    <3>1. s \in 0..Len(trail') /\ s # Len(trail') /\ s + 1 \in 1..(n + 1)
      BY <1>2
    <3>2. OffsetAt'[s] = trail'[s + 1].at
      BY <3>1 DEF OffsetAt
    <3>3. CASE s = n
      <4>1. trail'[s + 1] = e
        BY <1>2, <3>3
      <4>2. e.at = btop
        OBVIOUS
      <4>3. OffsetAt[s] = btop
        BY <1>2, <3>3 DEF OffsetAt
      <4> HIDE DEF e
      <4>4. QED
        BY <3>2, <4>1, <4>2, <4>3
    <3>4. CASE s # n
      <4>1. trail'[s + 1] = trail[s + 1]
        BY <1>2, <3>4
      <4>2. OffsetAt[s] = trail[s + 1].at
        BY <1>2, <3>4 DEF OffsetAt
      <4>3. QED
        BY <3>2, <4>1, <4>2
    <3>5. QED
      BY <3>3, <3>4
  <2>2. QED
    BY <2>1
<1>6. OffsetAt'[n + 1] = btop' /\ OffsetAt[n] = btop
  BY <1>2 DEF OffsetAt
<1>7. InBlock'
  <2>1. OffsetAt'[0] = 0
    BY <1>2, <1>5 DEF FreeInv, InBlock
  <2>2. \A r, s \in 0..Len(trail') : r <= s => OffsetAt'[r] <= OffsetAt'[s]
    <3>1. ASSUME NEW r \in 0..n, NEW s \in 0..n, r <= s PROVE OffsetAt'[r] <= OffsetAt'[s]
      BY <3>1, <1>5 DEF FreeInv, InBlock
    <3>2. ASSUME NEW r \in 0..n PROVE OffsetAt'[r] <= OffsetAt'[n + 1]
      <4>1. OffsetAt[r] <= OffsetAt[n]
        BY <1>2 DEF FreeInv, InBlock
      <4>2. OffsetAt[r] \in Int
        <5>1. CASE r = n
          BY <5>1, <1>3, <1>6
        <5>2. CASE r # n
          <6>1. r + 1 \in 1..n
            BY <5>2, <1>2
          <6>2. trail[r + 1].at \in Nat
            <7>1. r + 1 \in DOMAIN trail
              BY <6>1, EntryType DEF FreeInv
            <7>2. QED
              BY <7>1, EntryType, EntryFields DEF FreeInv
          <6>3. QED
            BY <5>2, <6>2 DEF OffsetAt
        <5>3. QED
          BY <5>1, <5>2
      <4>3. QED
        BY <4>1, <4>2, <1>3, <1>5, <1>6
    <3>3. OffsetAt'[n + 1] <= OffsetAt'[n + 1]
      BY <1>4, <1>6
    <3>4. QED
      BY <3>1, <3>2, <3>3, <1>2
  <2>3. \A k \in DOMAIN trail' : trail'[k].at + EntrySize[trail'[k].cell] = OffsetAt'[k]
    <3>1. DOMAIN trail' = 1..(n + 1) /\ DOMAIN trail = 1..n
      BY <1>2, EntryType DEF FreeInv
    <3>2. ASSUME NEW k \in 1..n PROVE trail'[k].at + EntrySize[trail'[k].cell] = OffsetAt'[k]
      BY <3>1, <1>2, <1>5 DEF FreeInv, InBlock
    <3>3. trail'[n + 1].at + EntrySize[trail'[n + 1].cell] = OffsetAt'[n + 1]
      BY <1>2, <1>3, <1>6
    <3>4. QED
      BY <3>1, <3>2, <3>3, <1>2
  <2>4. \A i \in DOMAIN tops' : /\ tops'[i].size <= Len(trail')
                                /\ tops'[i].mem = OffsetAt'[tops'[i].size]
    <3>1. ASSUME NEW i \in DOMAIN tops
          PROVE  tops[i].size <= Len(trail') /\ tops[i].mem = OffsetAt'[tops[i].size]
      <4>1. tops[i].size \in 0..n /\ tops[i].mem = OffsetAt[tops[i].size]
        BY FrameHeight DEF FreeInv, InBlock
      <4>2. QED
        BY <4>1, <1>2, <1>5
    <3>2. QED
      BY <3>1
  <2>5. QED
    BY <1>4, <2>1, <2>2, <2>3, <2>4 DEF InBlock
<1>8. QED
  BY <1>2, <1>4, <1>7

(* A write keeps FreeInv (trailable.hpp:117-173, trailVec.hpp:119-122).       *)
LEMMA AssignFree ==
  ASSUME FreeInv, NEW c \in Cells, NEW v \in Values, Assign(c, v)
  PROVE  FreeInv'
<1>1. UNCHANGED <<tops, magic, lastNode, enabled, popped>>
  BY DEF Assign
<1>2. val' \in Stores
  BY DEF FreeInv, TypeOK, Stores, Assign
<1>3. stamp' \in [Cells -> Int] /\ \A d \in Cells : stamp'[d] <= magic
  BY DEF FreeInv, TypeOK, Ordered, Assign
<1>4. Ordered'
  BY <1>1, <1>3 DEF FreeInv, Ordered
<1>5. trail' \in Seq(Entries) /\ btop' \in Nat /\ bsz' \in Nat /\ InBlock'
  <2>1. CASE enabled /\ LogOld(c)
    BY <2>1, <1>1, LogFree
  <2>2. CASE UNCHANGED <<trail, btop, bsz>>
    <3>1. OffsetAt' = OffsetAt
      BY <2>2 DEF OffsetAt
    <3>2. QED
      BY <2>2, <3>1, <1>1 DEF FreeInv, TypeOK, InBlock
  <2>3. QED
    BY <2>1, <2>2 DEF Assign, LogOld
<1>6. QED
  BY <1>1, <1>2, <1>3, <1>4, <1>5 DEF FreeInv, TypeOK

(* FreeInv is inductive, whoever the client is.                               *)
LEMMA StepFree == FreeInv /\ [Next]_vars => FreeInv'
<1> SUFFICES ASSUME FreeInv, [Next]_vars PROVE FreeInv'
  OBVIOUS
<1>1. CASE Enable
  <2>1. UNCHANGED <<val, stamp, trail, tops, magic, lastNode, btop, bsz, popped>> /\ enabled' = TRUE
    BY <1>1 DEF Enable
  <2>2. OffsetAt' = OffsetAt
    BY <2>1 DEF OffsetAt
  <2>3. enabled' \in BOOLEAN
    BY <2>1
  <2>4. TypeOK'
    BY <2>1, <2>3 DEF FreeInv, TypeOK
  <2>5. QED
    BY <2>1, <2>2, <2>4 DEF FreeInv, Ordered, InBlock
<1>2. CASE Push
  <2>1. lastNode \in Int
    BY DEF FreeInv, TypeOK
  <2>2. QED
    BY <1>2, <2>1, PushFree DEF Push
<1>3. CASE Pop
  <2>1. Len(tops) \in DOMAIN tops
    BY <1>3, FrameType, EmptySeq DEF Pop, FreeInv, TypeOK
  <2>2. QED
    BY <1>3, <2>1, PopFree DEF Pop
<1>4. CASE Clear
  <2>1. 1 \in DOMAIN tops
    BY <1>4, FrameType, EmptySeq DEF Clear, FreeInv, TypeOK
  <2>2. QED
    BY <1>4, <2>1, PopFree DEF Clear
<1>5. CASE IncMagic
  <2>1. UNCHANGED <<val, stamp, trail, tops, lastNode, enabled, btop, bsz>> /\ magic' = magic + 1
    BY <1>5 DEF IncMagic, NewMagic
  <2>2. popped' \in BOOLEAN
    BY <1>5 DEF IncMagic, NewMagic
  <2>3. OffsetAt' = OffsetAt
    BY <2>1 DEF OffsetAt
  <2>4. TypeOK'
    BY <2>1, <2>2 DEF FreeInv, TypeOK
  <2>5. \A c \in Cells : stamp'[c] <= magic'
    BY <2>1 DEF FreeInv, TypeOK, Ordered
  <2>6. QED
    BY <2>1, <2>3, <2>4, <2>5 DEF FreeInv, Ordered, InBlock
<1>6. ASSUME NEW id \in Nodes, PushNode(id) PROVE FreeInv'
  <2>1. id \in Int /\ lastNode' \in Int
    BY <1>6, TrailAssumption DEF PushNode, FreeInv, TypeOK
  <2>2. QED
    BY <1>6, <2>1, PushFree DEF PushNode
<1>7. ASSUME NEW id, PopToNode(id) PROVE FreeInv'
  BY <1>7, PopFree DEF PopToNode
<1>8. ASSUME NEW c \in Cells, NEW v \in Values, Assign(c, v) PROVE FreeInv'
  BY <1>8, AssignFree
<1>9. CASE UNCHANGED vars
  <2>1. OffsetAt' = OffsetAt
    BY <1>9 DEF OffsetAt, vars
  <2>2. QED
    BY <1>9, <2>1 DEF vars, FreeInv, TypeOK, Ordered, InBlock
<1>10. QED
  BY <1>1, <1>2, <1>3, <1>4, <1>5, <1>6, <1>7, <1>8, <1>9 DEF Next, Control

(* Whoever the client is, the trail is well typed (Trailer and trail<T>).     *)
THEOREM TypeCorrect == Spec => []TypeOK
<1>1. Spec => []FreeInv
  BY InitFree, StepFree, PTL DEF Spec
<1>2. FreeInv => TypeOK
  BY DEF FreeInv
<1>3. QED
  BY <1>1, <1>2, PTL

(* Whoever the client is, the entries fill the block end to end and inside    *)
(* it, whatever is pushed, popped, logged or doubled, and every frame holds   *)
(* the height and offset its entries start at.                                *)
THEOREM BlockSafe == Spec => []Layout
<1>1. Spec => []FreeInv
  BY InitFree, StepFree, PTL DEF Spec
<1>2. FreeInv => Layout
  BY DEF FreeInv, Layout
<1>3. QED
  BY <1>1, <1>2, PTL

(* Undoing one entry more: the closed form goes from one height to the next   *)
(* as a turn of the loop does (trail.cpp:93-99).                              *)
LEMMA OneTurn ==
  ASSUME TypeOK, NEW k \in 0..(Len(trail) - 1)
  PROVE  ValueAt[k] = [ValueAt[k + 1] EXCEPT ![trail[k + 1].cell] = trail[k + 1].old]
<1> DEFINE e == trail[k + 1]
<1>1. /\ Len(trail) \in Nat /\ k \in 0..Len(trail) /\ k + 1 \in 0..Len(trail)
      /\ k + 1 \in 1..Len(trail)
  BY EntryType
<1>2. e.cell \in Cells
  <2>1. e \in Entries
    BY <1>1, EntryType
  <2> HIDE DEF e
  <2> QED
    BY <2>1, EntryFields
<1>3. ValueAt[k] \in Stores /\ ValueAt[k + 1] \in Stores
  BY <1>1, ValueAtType
<1>4. ValueAt[k][e.cell] = e.old
  <2>1. k + 1 \in Above(k, e.cell) /\ \A j \in Above(k, e.cell) : k + 1 <= j
    BY <1>1 DEF Above
  <2> QED
    BY <1>1, <1>2, <2>1, ValueOfLowest
<1>5. ASSUME NEW c \in Cells, c # e.cell PROVE ValueAt[k][c] = ValueAt[k + 1][c]
  <2>1. Above(k, c) = Above(k + 1, c)
    BY <1>1, <1>5 DEF Above
  <2> QED
    BY <1>1, <2>1 DEF ValueAt
<1> HIDE DEF e
<1>6. ValueAt[k] = [ValueAt[k + 1] EXCEPT ![e.cell] = e.old]
  BY <1>2, <1>3, <1>4, <1>5 DEF Stores
<1>7. QED
  BY <1>6 DEF e

(* The loop of pop() ends in the store the closed form gives: both answer the *)
(* same at the top of the trail, and keep to each other turn by turn.         *)
LEMMA LoopUndoes ==
  ASSUME TypeOK, NEW s \in 0..Len(trail)
  PROVE  UndoLoop(s) = ValueAt[s]
<1> DEFINE n == Len(trail)
           turn(g, k) == IF k = n THEN val
                         ELSE [g[k + 1] EXCEPT ![trail[k + 1].cell] = trail[k + 1].old]
           undo == CHOOSE g : g = [k \in s..n |-> turn(g, k)]
           w == [k \in s..n |-> ValueAt[k]]
<1>1. n \in Nat /\ s \in Nat /\ s <= n
  BY EntryType
<1>2. \A k \in s..n : k # n => k \in 0..(n - 1) /\ k + 1 \in s..n
  BY <1>1
<1>3. ValueAt[n] = val
  <2>1. \A c \in Cells : Above(n, c) = {}
    BY <1>1 DEF Above
  <2>2. ValueAt[n] = [c \in Cells |-> val[c]]
    BY <1>1, <2>1 DEF ValueAt
  <2> QED
    BY <2>2 DEF TypeOK, Stores
<1>4. \A k \in s..n : ValueAt[k] = turn(w, k)
  <2> TAKE k \in s..n
  <2>1. CASE k = n
    BY <1>3, <2>1
  <2>2. CASE k # n
    <3>1. k \in 0..(n - 1) /\ w[k + 1] = ValueAt[k + 1]
      BY <1>2, <2>2
    <3> HIDE DEF w
    <3> QED
      BY <2>2, <3>1, OneTurn
  <2> QED
    BY <2>1, <2>2
<1>5. w = [k \in s..n |-> turn(w, k)]
  <2> HIDE DEF turn
  <2> QED
    BY <1>4
<1>6. undo = [k \in s..n |-> turn(undo, k)]
  <2> HIDE DEF turn, w
  <2> QED
    BY <1>5
<1>7. UndoLoop(s) = undo[s]
  BY DEF UndoLoop
<1> HIDE DEF undo, w
<1>8. \A k \in s..n : undo[k] = turn(undo, k)
  <2> HIDE DEF turn
  <2> QED
    BY <1>6
<1>9. undo[n] = ValueAt[n]
  <2>1. n \in s..n
    BY <1>1
  <2>2. undo[n] = val
    BY <1>8, <2>1
  <2> QED
    BY <1>3, <2>2
<1>10. ASSUME NEW k \in s..n, k # n, undo[k + 1] = ValueAt[k + 1] PROVE undo[k] = ValueAt[k]
  BY <1>2, <1>8, <1>10, OneTurn
<1> DEFINE P == {i \in 0..(n - s) : undo[n - i] = ValueAt[n - i]}
<1>11. 0 \in P
  BY <1>1, <1>9
<1>12. ASSUME NEW i \in 0..((n - s) - 1), i \in P PROVE i + 1 \in P
  <2>1. n - (i + 1) \in s..n /\ n - (i + 1) # n /\ (n - (i + 1)) + 1 = n - i
        /\ i + 1 \in 0..(n - s)
    BY <1>1
  <2>2. undo[n - (i + 1)] = ValueAt[n - (i + 1)]
    BY <1>10, <1>12, <2>1
  <2> QED
    BY <2>1, <2>2
<1>13. n - s \in P
  <2>1. n - s \in Nat
    BY <1>1
  <2>2. \A i \in 0..((n - s) - 1) : i \in P => i + 1 \in P
    BY <1>12
  <2>3. 0 \in Int /\ n - s \in Int
    BY <2>1
  <2> HIDE DEF P
  <2>4. \A i \in 0..(n - s) : i \in P
    BY <1>11, <2>2, <2>3, Upwards
  <2>5. n - s \in 0..(n - s)
    BY <2>1
  <2> QED
    BY <2>4, <2>5
<1>14. QED
  <2>1. n - (n - s) = s
    BY <1>1
  <2> QED
    BY <1>7, <1>13, <2>1

(* Whoever the client is, the loop of pop() brings back for every open frame  *)
(* the store the closed form of the model gives (trail.cpp:93-99).            *)
THEOREM PopIsTheLoopHolds == Spec => []PopIsTheLoop
<1>1. Spec => []FreeInv
  BY InitFree, StepFree, PTL DEF Spec
<1>2. FreeInv => PopIsTheLoop
  <2> SUFFICES ASSUME FreeInv, NEW i \in DOMAIN tops
               PROVE  UndoLoop(tops[i].size) = ValueAt[tops[i].size]
    BY DEF PopIsTheLoop
  <2>1. tops[i].size \in 0..Len(trail)
    BY FrameHeight DEF FreeInv
  <2> QED
    BY <2>1, LoopUndoes DEF FreeInv
<1>3. QED
  BY <1>1, <1>2, PTL

(* No level is open at first: the stamps have nothing to cover.               *)
LEMMA InitCovered == Init => Covered
  BY DEF Init, Covered, Recording

(* The discipline of the searches keeps the stamps sound.                     *)
LEMMA StepCovered ==
  ASSUME FreeInv, Covered, [ClientNext]_vars
  PROVE  Covered'
<1>1. CASE Enable
  BY <1>1 DEF Enable, Covered, Recording, LoggedSince
<1>2. ASSUME NEW id, PushFrame(id) PROVE Covered'
  <2>1. ASSUME NEW c \in Cells PROVE stamp'[c] # magic'
    <3>1. stamp[c] <= magic /\ magic \in Int /\ stamp[c] \in Int
      BY DEF FreeInv, TypeOK, Ordered
    <3>2. stamp'[c] = stamp[c] /\ magic' = magic + 1
      BY <1>2 DEF PushFrame, NewMagic
    <3>3. QED
      BY <3>1, <3>2
  <2>2. QED
    BY <2>1 DEF Covered
<1>3. ASSUME NEW j, PopTo(j) PROVE Covered'
  BY <1>3 DEF PopTo, Covered
<1>4. CASE IncMagic
  <2>1. ASSUME NEW c \in Cells PROVE stamp'[c] # magic'
    <3>1. stamp[c] <= magic /\ magic \in Int /\ stamp[c] \in Int
      BY DEF FreeInv, TypeOK, Ordered
    <3>2. stamp'[c] = stamp[c] /\ magic' = magic + 1
      BY <1>4 DEF IncMagic, NewMagic
    <3>3. QED
      BY <3>1, <3>2
  <2>2. QED
    BY <2>1 DEF Covered
<1>5. ASSUME NEW d \in Cells, NEW v \in Values, Assign(d, v) PROVE Covered'
  <2> DEFINE h == tops[Len(tops)].size
             n == Len(trail)
  <2>1. UNCHANGED <<tops, magic, popped, enabled>>
    BY <1>5 DEF Assign
  <2>2. SUFFICES ASSUME Recording, ~popped, NEW c \in Cells \ Vecs, stamp'[c] = magic
                 PROVE  LoggedSince(h, c)'
    BY <2>1 DEF Covered, Recording
  <2>3. Len(tops) \in DOMAIN tops
    BY <2>2, FrameType, EmptySeq DEF FreeInv, TypeOK, Recording
  <2>4. enabled
    BY <2>2, <2>3 DEF Recording, FreeInv, Ordered
  <2>5. h \in 0..n /\ n \in Nat
    BY <2>3, FrameHeight, EntryType DEF FreeInv
  <2>6. h' = h
    BY <2>1
  <2> HIDE DEF h
  <2>7. CASE c = d /\ stamp[c] # magic
    <3> DEFINE e == [cell |-> c, old |-> val[c], at |-> btop]
    <3>1. trail' = Append(trail, e)
      BY <1>5, <2>4, <2>7 DEF Assign, LogOld
    <3>2. Len(trail') = n + 1 /\ trail'[n + 1] = e
      BY <3>1 DEF FreeInv, TypeOK
    <3>3. n + 1 \in 1..Len(trail') /\ n + 1 > h /\ trail'[n + 1].cell = c
      BY <2>5, <3>2
    <3>4. QED
      BY <2>6, <3>3 DEF LoggedSince
  <2>8. CASE ~(c = d /\ stamp[c] # magic)
    <3>1. stamp[c] = magic
      BY <1>5, <2>2, <2>8 DEF Assign, FreeInv, TypeOK
    <3>2. PICK k \in 1..n : k > h /\ trail[k].cell = c
      BY <2>2, <3>1 DEF Covered, LoggedSince, h
    <3>3. n <= Len(trail') /\ \A i \in 1..n : trail'[i] = trail[i]
      <4>1. CASE trail' = trail
        BY <4>1, <2>5
      <4>2. CASE trail' = Append(trail, [cell |-> d, old |-> val[d], at |-> btop])
        BY <4>2 DEF FreeInv, TypeOK
      <4>3. QED
        BY <1>5, <4>1, <4>2 DEF Assign, LogOld
    <3>4. k \in 1..Len(trail') /\ k > h /\ trail'[k].cell = c
      BY <2>5, <3>2, <3>3, EntryType DEF FreeInv
    <3>5. QED
      BY <2>6, <3>4 DEF LoggedSince
  <2>9. QED
    BY <2>7, <2>8
<1>6. CASE UNCHANGED vars
  BY <1>6 DEF vars, Covered, Recording, LoggedSince
<1>7. QED
  BY <1>1, <1>2, <1>3, <1>4, <1>5, <1>6
     DEF ClientNext, Control, Push, PushNode, Pop, PopToNode, Clear

(* The inductive invariant under the discipline of the searches.              *)
LEMMA ClientInvariant == ClientSpec => [](FreeInv /\ Covered)
<1>1. Init => FreeInv /\ Covered
  BY InitFree, InitCovered
<1>2. FreeInv /\ Covered /\ [ClientNext]_vars => (FreeInv /\ Covered)'
  <2>1. [ClientNext]_vars => [Next]_vars
    BY DEF ClientNext, Next
  <2>2. QED
    BY <2>1, StepFree, StepCovered
<1>3. QED
  BY <1>1, <1>2, PTL DEF ClientSpec

(* Under the discipline of the searches a write that is not logged hits a     *)
(* cell already logged since the innermost level was opened.                  *)
THEOREM StampsSound == ClientSpec => []Covered
  BY ClientInvariant, PTL

--------------------------------------------------------------------------------
(* The refinement.  First what Remembered is, then one lemma per kind of step.*)
Memories == Stores \cup {NoPromise}

(* The abstraction of a trail is a sequence of promises, one per frame.       *)
LEMMA RememberedType ==
  ASSUME FreeInv
  PROVE  /\ Remembered \in Seq(Memories) /\ Len(Remembered) = Len(tops)
         /\ Len(tops) \in Nat /\ DOMAIN Remembered = 1..Len(tops)
<1>1. Len(tops) \in Nat /\ DOMAIN tops = 1..Len(tops)
  BY FrameType DEF FreeInv
<1>2. ASSUME NEW i \in 1..Len(tops) PROVE Remembered[i] \in Memories
  <2>1. tops[i].size \in 0..Len(trail)
    BY <1>1, FrameHeight DEF FreeInv
  <2>2. ValueAt[tops[i].size] \in Stores
    BY <2>1, ValueAtType DEF FreeInv
  <2>3. QED
    BY <1>1, <2>2 DEF Remembered, Memories
<1>3. Remembered = [i \in 1..Len(tops) |-> Remembered[i]]
  BY <1>1 DEF Remembered
<1>4. Remembered \in [1..Len(tops) -> Memories]
  BY <1>2, <1>3
<1>5. QED
  BY <1>1, <1>3, <1>4, SeqDef

(* The same after a step that leaves k frames.                                *)
LEMMA RememberedAfter ==
  ASSUME NEW k \in Nat, DOMAIN tops' = 1..k, \A i \in 1..k : Remembered'[i] \in Memories
  PROVE  Remembered' \in Seq(Memories) /\ Len(Remembered') = k
<1>1. Remembered' = [i \in 1..k |-> Remembered'[i]]
  BY DEF Remembered
<1>2. Remembered' \in [1..k -> Memories]
  BY <1>1
<1>3. QED
  BY <1>2, SeqDef

(* Frames that stay keep what they remember when their ValueAt does.          *)
LEMMA SamePromise ==
  ASSUME NEW i \in DOMAIN tops, i \in DOMAIN tops', tops'[i] = tops[i],
         tops[i].armed => ValueAt'[tops[i].size] = ValueAt[tops[i].size]
  PROVE  Remembered'[i] = Remembered[i]
<1>1. CASE tops[i].armed
  <2>1. ValueAt'[tops[i].size] = ValueAt[tops[i].size]
    BY <1>1
  <2>2. QED
    BY <1>1, <2>1 DEF Remembered
<1>2. CASE ~tops[i].armed
  BY <1>2 DEF Remembered
<1>3. QED
  BY <1>1, <1>2

(* Nothing but the frames and the bookkeeping changes what is remembered.     *)
LEMMA SameRemembered ==
  ASSUME FreeInv, FreeInv', UNCHANGED tops,
         \A i \in DOMAIN tops : tops[i].armed => ValueAt'[tops[i].size] = ValueAt[tops[i].size]
  PROVE  Remembered' = Remembered
<1>1. Len(tops) \in Nat /\ DOMAIN tops = 1..Len(tops)
  BY FrameType DEF FreeInv
<1>2. \A i \in 1..Len(tops) : Remembered'[i] = Remembered[i]
  BY <1>1, SamePromise
<1>3. Remembered = [i \in 1..Len(tops) |-> Remembered[i]] /\ Remembered' = [i \in 1..Len(tops) |-> Remembered'[i]]
  BY <1>1 DEF Remembered
<1>4. QED
  BY <1>2, <1>3

(* A write the discipline allows is an abstract write: no promise changes.    *)
LEMMA AssignRefines ==
  ASSUME FreeInv, FreeInv', Covered, NEW c \in Cells, NEW v \in Values, MayWrite(c), Assign(c, v)
  PROVE  Abstract!Write(c, v)
<1> DEFINE n == Len(trail)
<1>1. val' = [val EXCEPT ![c] = v] /\ UNCHANGED <<tops, enabled>>
  BY DEF Assign
<1>2. ASSUME NEW i \in DOMAIN tops, tops[i].armed
      PROVE  ValueAt'[tops[i].size] = ValueAt[tops[i].size]
  <2> DEFINE s == tops[i].size
             l == Len(tops)
  <2>1. /\ s \in 0..n /\ n \in Nat /\ i \in 1..l /\ l \in DOMAIN tops
        /\ tops[l].size \in 0..n
    <3>1. i \in 1..l /\ l \in DOMAIN tops /\ n \in Nat
      BY FrameType, EntryType DEF FreeInv
    <3>2. QED
      BY <3>1, FrameHeight DEF FreeInv
  <2>2. enabled
    BY <1>2 DEF FreeInv, Ordered
  <2>3. s <= tops[l].size /\ Recording
    <3>1. s <= tops[l].size /\ tops[l].armed
      BY <1>2, <2>1, FrameType DEF FreeInv, Ordered
    <3>2. tops # <<>>
      BY <2>1
    <3>3. QED
      BY <3>1, <3>2 DEF Recording
  <2> HIDE DEF s, l
  <2>4. CASE LogOld(c)
    <3> DEFINE e == [cell |-> c, old |-> val[c], at |-> btop]
    <3>1. e \in Entries /\ e.cell = c /\ e.old = val[c]
      BY DEF Entries, FreeInv, TypeOK, Stores
    <3>2. trail' = Append(trail, e)
      BY <2>2, <2>4 DEF LogOld
    <3> HIDE DEF e
    <3>3. ValueAt'[s] = ValueAt[s]
      BY <1>1, <2>1, <3>1, <3>2, LoggedWrite DEF FreeInv
    <3>4. QED
      BY <3>3 DEF s
  <2>5. CASE c \notin Vecs /\ stamp[c] = magic /\ trail' = trail
    <3>1. ~popped
      BY <2>3, <2>5 DEF MayWrite, Recording
    <3>2. PICK k \in 1..n : k > tops[l].size /\ trail[k].cell = c
      BY <2>3, <2>5, <3>1 DEF Covered, LoggedSince, l
    <3>3. k \in Above(s, c)
      <4>1. k \in (s + 1)..n
        BY <2>1, <2>3, <3>2
      <4>2. QED
        BY <3>2, <4>1 DEF Above
    <3>4. ValueAt'[s] = ValueAt[s]
      BY <1>1, <2>1, <2>5, <3>3, CoveredWrite DEF FreeInv
    <3>5. QED
      BY <3>4 DEF s
  <2>6. QED
    BY <2>4, <2>5 DEF Assign
<1>3. Remembered' = Remembered
  BY <1>1, <1>2, SameRemembered
<1>4. QED
  BY <1>1, <1>3 DEF Abstract!Write

(* Pushing a frame opens an abstract level that remembers the store.          *)
LEMMA PushRefines ==
  ASSUME FreeInv, FreeInv', NEW id, PushFrame(id)
  PROVE  Abstract!Open
<1> DEFINE n == Len(tops)
           m == IF enabled THEN val ELSE NoPromise
<1>1. UNCHANGED <<val, trail>> /\ tops' = Append(tops, Frame(id)) /\ n \in Nat
  BY FrameType DEF PushFrame, FreeInv
<1>2. ValueAt' = ValueAt
  BY <1>1 DEF ValueAt, Above
<1>3. Len(tops') = n + 1 /\ (\A i \in 1..n : tops'[i] = tops[i]) /\ tops'[n + 1] = Frame(id)
  BY <1>1 DEF FreeInv, TypeOK
<1>4. DOMAIN tops = 1..n /\ DOMAIN tops' = 1..(n + 1)
  BY <1>1, <1>3, FrameType DEF FreeInv
<1>5. ASSUME NEW i \in 1..n PROVE Remembered'[i] = Remembered[i]
  <2>1. i \in DOMAIN tops /\ i \in DOMAIN tops' /\ tops'[i] = tops[i]
    BY <1>1, <1>3, <1>4
  <2>2. QED
    BY <1>2, <2>1, SamePromise
<1>6. Remembered'[n + 1] = m
  <2>1. tops'[n + 1].armed = enabled /\ tops'[n + 1].size = Len(trail)
    BY <1>3 DEF Frame
  <2>2. ValueAt[Len(trail)] = val
    <3>1. Len(trail) \in 0..Len(trail)
      BY EntryType DEF FreeInv
    <3>2. \A c \in Cells : Above(Len(trail), c) = {}
      BY <3>1 DEF Above
    <3>3. \A c \in Cells : ValueAt[Len(trail)][c] = val[c]
      BY <3>1, <3>2 DEF ValueAt
    <3>4. ValueAt[Len(trail)] = [c \in Cells |-> ValueAt[Len(trail)][c]]
      BY <3>1 DEF ValueAt
    <3>5. val = [c \in Cells |-> val[c]]
      BY DEF FreeInv, TypeOK, Stores
    <3>6. QED
      BY <3>3, <3>4, <3>5
  <2>3. n + 1 \in DOMAIN tops'
    BY <1>1, <1>4
  <2>4. Remembered'[n + 1] = IF tops'[n + 1].armed THEN ValueAt'[tops'[n + 1].size] ELSE NoPromise
    BY <2>3 DEF Remembered
  <2>5. CASE enabled
    BY <1>2, <2>1, <2>2, <2>4, <2>5
  <2>6. CASE ~enabled
    BY <2>1, <2>4, <2>6
  <2>7. QED
    BY <2>5, <2>6
<1>7. m \in Memories
  BY DEF Memories, FreeInv, TypeOK
<1>8. /\ Remembered \in Seq(Memories) /\ Len(Remembered) = n
      /\ Remembered' \in Seq(Memories) /\ Len(Remembered') = n + 1
  <2>1. Remembered \in Seq(Memories) /\ Len(Remembered) = n
    BY RememberedType
  <2>2. ASSUME NEW i \in 1..(n + 1) PROVE Remembered'[i] \in Memories
    <3>1. CASE i \in 1..n
      BY <3>1, <1>5, <2>1, ElementOfSeq
    <3>2. CASE i = n + 1
      BY <3>2, <1>6, <1>7
    <3>3. QED
      BY <1>1, <3>1, <3>2
  <2>3. n + 1 \in Nat
    BY <1>1
  <2>4. QED
    BY <1>4, <2>1, <2>2, <2>3, RememberedAfter
<1>9. Remembered' = Append(Remembered, m)
  <2> HIDE DEF m
  <2>1. /\ Append(Remembered, m) \in Seq(Memories) /\ Len(Append(Remembered, m)) = n + 1
        /\ \A i \in 1..n : Append(Remembered, m)[i] = Remembered[i]
        /\ Append(Remembered, m)[n + 1] = m
    BY <1>8, <1>7, AppendProperties
  <2>2. \A i \in 1..(n + 1) : Remembered'[i] = Append(Remembered, m)[i]
    BY <1>1, <1>5, <1>6, <2>1
  <2>3. QED
    BY <1>8, <2>1, <2>2, SeqEqual
<1>10. QED
  BY <1>1, <1>9 DEF Abstract!Open

(* Returning to frame j is the abstract return to level j.                    *)
LEMMA PopRefines ==
  ASSUME FreeInv, FreeInv', NEW j \in DOMAIN tops, PopTo(j)
  PROVE  j \in 1..Len(Remembered) /\ Abstract!Return(j)
<1> DEFINE t == tops[j].size
<1>1. Len(tops) \in Nat /\ DOMAIN tops = 1..Len(tops) /\ t \in 0..Len(trail) /\ Len(Remembered) = Len(tops)
  BY FrameType, FrameHeight, RememberedType DEF FreeInv
<1>2. Len(tops') = j - 1 /\ (\A i \in 1..(j - 1) : tops'[i] = tops[i])
  <2>1. \A i \in 1..(j - 1) : tops[i] \in Frames
    BY <1>1, FrameType DEF FreeInv
  <2>2. QED
    BY <1>1, <2>1, SubSeqProperties DEF PopTo
<1>3. ASSUME NEW i \in 1..(j - 1) PROVE Remembered'[i] = Remembered[i]
  <2>1. i \in DOMAIN tops /\ i \in DOMAIN tops' /\ tops'[i] = tops[i]
    BY <1>1, <1>2, FrameType DEF FreeInv
  <2>2. tops[i].size \in 0..t
    <3>1. i <= j /\ tops[i].size <= t
      BY <1>1, <2>1 DEF FreeInv, Ordered
    <3>2. QED
      BY <3>1, <1>1, <2>1, FrameHeight DEF FreeInv
  <2>3. ValueAt'[tops[i].size] = ValueAt[tops[i].size]
    <3>1. trail' = SubSeq(trail, 1, t) /\ val' = ValueAt[t]
      BY DEF PopTo
    <3> HIDE DEF t
    <3>2. QED
      BY <1>1, <2>2, <3>1, PopKeepsLower DEF FreeInv
  <2>4. QED
    BY <2>1, <2>3, SamePromise
<1>4. Remembered' = SubSeq(Remembered, 1, j - 1)
  <2>1. Remembered \in Seq(Memories) /\ Remembered' \in Seq(Memories) /\ Len(Remembered') = j - 1
    <3>1. Remembered \in Seq(Memories)
      BY RememberedType
    <3>2. \A i \in 1..(j - 1) : Remembered'[i] \in Memories
      BY <1>1, <1>3, <3>1, ElementOfSeq
    <3>3. j - 1 \in Nat /\ DOMAIN tops' = 1..(j - 1)
      BY <1>1, <1>2 DEF FreeInv, TypeOK
    <3>4. QED
      BY <3>1, <3>2, <3>3, RememberedAfter
  <2>2. \A i \in 1..(j - 1) : Remembered[i] \in Memories
    BY <1>1, <2>1, ElementOfSeq
  <2>3. /\ SubSeq(Remembered, 1, j - 1) \in Seq(Memories)
        /\ Len(SubSeq(Remembered, 1, j - 1)) = j - 1
        /\ \A i \in 1..(j - 1) : SubSeq(Remembered, 1, j - 1)[i] = Remembered[i]
    BY <1>1, <2>2, SubSeqProperties
  <2>4. QED
    BY <1>3, <2>1, <2>3, SeqEqual
<1>5. val' \in Stores /\ val' = ValueAt[t]
  BY DEF FreeInv, TypeOK, PopTo
<1>6. Remembered[j] # NoPromise => val' = Remembered[j]
  <2>1. CASE tops[j].armed
    BY <1>1, <1>5, <2>1 DEF Remembered
  <2>2. CASE ~tops[j].armed
    BY <1>1, <2>2 DEF Remembered
  <2>3. QED
    BY <2>1, <2>2
<1>7. QED
  BY <1>1, <1>4, <1>5, <1>6 DEF Abstract!Return, Abstract!Stores, Stores

(* Under the discipline of the searches the trailer with its cells is a       *)
(* backtrackable store: values are preserved on write and restored on         *)
(* backtrack (trailable.hpp:22-23).                                           *)
THEOREM TrailIsBacktrackStore == ClientSpec => IsBacktrackStore
<1>1. Init => Abstract!Init
  <2>1. SUFFICES ASSUME Init PROVE Abstract!Init
    OBVIOUS
  <2>2. FreeInv /\ Len(tops) = 0
    <3>1. tops = <<>>
      BY <2>1 DEF Init
    <3>2. QED
      BY <2>1, <3>1, InitFree, EmptySeq
  <2>3. Remembered = <<>>
    BY <2>2, RememberedType, EmptySeq
  <2>4. QED
    BY <2>1, <2>3 DEF Init, Abstract!Init, Abstract!Stores, Stores
<1>2. ASSUME FreeInv, FreeInv', Covered, [ClientNext]_vars
      PROVE  [Abstract!Next]_(Abstract!vars)
  <2>1. CASE Enable
    <3>1. UNCHANGED <<val, trail, tops>>
      BY <2>1 DEF Enable
    <3>2. UNCHANGED Remembered
      BY <3>1 DEF Remembered, ValueAt, Above
    <3>3. QED
      BY <3>1, <3>2 DEF Abstract!vars
  <2>2. CASE IncMagic
    <3>1. UNCHANGED <<val, trail, tops>>
      BY <2>2 DEF IncMagic
    <3>2. UNCHANGED Remembered
      BY <3>1 DEF Remembered, ValueAt, Above
    <3>3. QED
      BY <3>1, <3>2 DEF Abstract!vars
  <2>3. ASSUME NEW id, PushFrame(id) PROVE Abstract!Next
    BY <1>2, <2>3, PushRefines DEF Abstract!Next
  <2>4. ASSUME NEW j \in DOMAIN tops, PopTo(j) PROVE Abstract!Next
    BY <1>2, <2>4, PopRefines DEF Abstract!Next
  <2>5. CASE Pop
    <3>1. Len(tops) \in DOMAIN tops
      BY <1>2, <2>5, FrameType, EmptySeq DEF Pop, FreeInv, TypeOK
    <3>2. QED
      BY <2>4, <2>5, <3>1 DEF Pop
  <2>6. CASE Clear
    <3>1. 1 \in DOMAIN tops
      BY <1>2, <2>6, FrameType, EmptySeq DEF Clear, FreeInv, TypeOK
    <3>2. QED
      BY <2>4, <2>6, <3>1 DEF Clear
  <2>7. ASSUME NEW c \in Cells, NEW v \in Values, MayWrite(c), Assign(c, v) PROVE Abstract!Next
    BY <1>2, <2>7, AssignRefines DEF Abstract!Next
  <2>8. CASE UNCHANGED vars
    <3>1. UNCHANGED <<val, trail, tops>>
      BY <2>8 DEF vars
    <3>2. UNCHANGED Remembered
      BY <3>1 DEF Remembered, ValueAt, Above
    <3>3. QED
      BY <3>1, <3>2 DEF Abstract!vars
  <2>9. QED
    BY <1>2, <2>1, <2>2, <2>3, <2>4, <2>5, <2>6, <2>7, <2>8
       DEF ClientNext, Control, Push, PushNode, PopToNode
<1>3. QED
  BY <1>1, <1>2, ClientInvariant, PTL DEF ClientSpec, IsBacktrackStore, Abstract!Spec
================================================================================
