------------------------------- MODULE BitDomain -------------------------------
(* BitDomain (domain.hpp:34-61, domain.cpp:24-195): a domain kept as an array *)
(* of words with trailed bounds and size.  Removing a bound moves the bound   *)
(* and leaves the bit behind it set.  The trailed fields go back together on  *)
(* backtrack (Trail.tla); a failing notifier leaves the operation half done.  *)
EXTENDS Integers, Sequences, FiniteSets, FiniteSetsExt

CONSTANTS
    W,              \* bits in a word (32)
    IMin, N,        \* _imin, and the size the domain is created with
    Arguments,      \* the values operations are called with
    MaxLevels       \* bound: open levels

ASSUME BitDomainAssumption == /\ W \in Nat \ {0} /\ N \in Nat \ {0} /\ IMin \in Int
                              /\ Arguments \subseteq Int /\ MaxLevels \in Nat

VARIABLES
    words,          \* _dom: the set bits of each word
    min, max, sz,   \* _min, _max, _sz
    failed,         \* empty() jumped out of the operation
    told,           \* the notifications of the last operation, in order
    saved           \* what the open levels restore

fields == <<words, min, max, sz>>
vars == <<words, min, max, sz, failed, told, saved>>

NbWords == (N + W - 1) \div W

Notifications == {"bind", "change", "changeMin", "changeMax", "empty"}

TypeOK == /\ words \in [0..(NbWords - 1) -> SUBSET (0..(W - 1))]
          /\ min \in Int /\ max \in Int /\ sz \in Int
          /\ failed \in BOOLEAN
          /\ told \in Seq(Notifications)
          /\ Len(saved) <= MaxLevels

Init == /\ words = [k \in 0..(NbWords - 1) |->
                       IF k = NbWords - 1 /\ N % W # 0 THEN 0..((N % W) - 1) ELSE 0..(W - 1)]
        /\ min = IMin /\ max = IMin + N - 1 /\ sz = N
        /\ failed = FALSE /\ told = <<>> /\ saved = <<>>

--------------------------------------------------------------------------------
(* A word past the array: whatever memory holds there, at worst all ones.     *)
Word(k) == IF k \in DOMAIN words THEN words[k] ELSE 0..(W - 1)

GetBit(v) == (v - IMin) % W \in Word((v - IMin) \div W)

(* Mutant: the bit of the last value is not counted. *)
Count_short(from, to) == Cardinality({v \in from..(to - 1) : GetBit(v)})

(* count: the bits from word fw, bit fb up to, not including, word tw, bit tb.*)
Count(from, to) ==
    LET fw == (from - IMin) \div W       fb == (from - IMin) % W
        tw == (to - IMin + 1) \div W     tb == (to - IMin + 1) % W
    IN IF fw = tw THEN Cardinality(Word(fw) \cap (fb..(tb - 1)))
       ELSE Cardinality(Word(fw) \cap (fb..(W - 1)))
            + MapThenSumSet(LAMBDA k : Cardinality(Word(k)), (fw + 1)..(tw - 1))
            + Cardinality(Word(tw) \cap (0..(tb - 1)))

SetBits == {v \in IMin..(IMin + NbWords * W - 1) : GetBit(v)}

(* findMin and findMax scan for a set bit; a scan that runs off the array     *)
(* stops wherever memory holds a one.                                         *)
FindMin(from) == LET up == {v \in SetBits : v >= from}
                 IN IF up # {} THEN {Min(up)} ELSE {IMin + NbWords * W, IMin + NbWords * W + 1}
FindMax(from) == LET down == {v \in SetBits : v <= from}
                 IN IF down # {} THEN {Max(down)} ELSE {IMin - 1, IMin - 2}

--------------------------------------------------------------------------------
(* Notifications up to the first empty(), which does not return.              *)
Notify(s) == LET e == {i \in DOMAIN s : s[i] = "empty"}
             IN /\ failed' = (e # {})
                /\ told' = IF e = {} THEN s ELSE SubSeq(s, 1, Min(e))

When(cond, n) == IF cond THEN <<n>> ELSE <<>>

Nothing == /\ told' = <<>>
           /\ UNCHANGED <<words, min, max, sz, failed, saved>>

(* Mutant: binding to the smallest value forgets that the maximum moved. *)
Assign_deaf(v) ==
    /\ ~failed
    /\ \/ sz = 1 /\ v = min /\ Nothing
       \/ /\ ~(sz = 1 /\ v = min)
          /\ v < min \/ v > max \/ ~GetBit(v)
          /\ sz' = 0
          /\ Notify(<<"empty">>)
          /\ UNCHANGED <<words, min, max, saved>>
       \/ /\ ~(sz = 1 /\ v = min)
          /\ min <= v /\ v <= max /\ GetBit(v)
          /\ min' = v /\ max' = v /\ sz' = 1
          /\ Notify(<<"bind", "change">> \o When(min # v, "changeMin"))
          /\ UNCHANGED <<words, saved>>

Assign(v) ==
    /\ ~failed
    /\ \/ sz = 1 /\ v = min /\ Nothing
       \/ /\ ~(sz = 1 /\ v = min)
          /\ v < min \/ v > max \/ ~GetBit(v)
          /\ sz' = 0
          /\ Notify(<<"empty">>)
          /\ UNCHANGED <<words, min, max, saved>>
       \/ /\ ~(sz = 1 /\ v = min)
          /\ min <= v /\ v <= max /\ GetBit(v)
          /\ min' = v /\ max' = v /\ sz' = 1
          /\ Notify(<<"bind", "change">> \o When(min # v, "changeMin") \o When(max # v, "changeMax"))
          /\ UNCHANGED <<words, saved>>

(* The shared tail of the three branches of remove.                           *)
Shrink(first) == /\ sz' = sz - 1
                 /\ Notify(first \o When(sz' = 1, "bind") \o When(sz' = 0, "empty") \o <<"change">>)

Remove(v) ==
    /\ ~failed
    /\ \/ (v < min \/ v > max) /\ Nothing
       \/ /\ v = min
          /\ min' \in FindMin(min + 1)
          /\ Shrink(<<"changeMin">>)
          /\ UNCHANGED <<words, max, saved>>
       \/ /\ v = max /\ v # min
          /\ max' \in FindMax(max - 1)
          /\ Shrink(<<"changeMax">>)
          /\ UNCHANGED <<words, min, saved>>
       \/ /\ min < v /\ v < max /\ GetBit(v)
          /\ words' = [words EXCEPT ![(v - IMin) \div W] = @ \ {(v - IMin) % W}]
          /\ Shrink(<<>>)
          /\ UNCHANGED <<min, max, saved>>
       \/ min < v /\ v < max /\ ~GetBit(v) /\ Nothing

IsCompact == max - min + 1 = sz

RemoveBelow(newMin) ==
    /\ ~failed
    /\ \/ newMin <= min /\ Nothing
       \/ /\ newMin > max
          /\ Notify(<<"empty">>)
          /\ UNCHANGED <<words, min, max, sz, saved>>
       \/ /\ min < newMin /\ newMin <= max
          /\ sz' = sz - (IF IsCompact THEN newMin - min ELSE Count(min, newMin - 1))
          /\ IF IsCompact THEN min' = newMin ELSE min' \in FindMin(newMin)
          /\ Notify(<<"changeMin", "change">> \o When(sz' = 0, "empty") \o When(sz' = 1, "bind"))
          /\ UNCHANGED <<words, max, saved>>

RemoveAbove(newMax) ==
    /\ ~failed
    /\ \/ newMax >= max /\ Nothing
       \/ /\ newMax < min
          /\ Notify(<<"empty">>)
          /\ UNCHANGED <<words, min, max, sz, saved>>
       \/ /\ min <= newMax /\ newMax < max
          /\ sz' = sz - (IF IsCompact THEN max - newMax ELSE Count(newMax + 1, max))
          /\ IF IsCompact THEN max' = newMax ELSE max' \in FindMax(newMax)
          /\ Notify(<<"changeMax", "change">> \o When(sz' = 0, "empty") \o When(sz' = 1, "bind"))
          /\ UNCHANGED <<words, min, saved>>

Save == /\ ~failed
        /\ Len(saved) < MaxLevels
        /\ saved' = Append(saved, fields)
        /\ told' = <<>>
        /\ UNCHANGED <<words, min, max, sz, failed>>

(* Mutant: the maximum is not trailed. *)
Restore_max == /\ saved # <<>>
               /\ LET f == saved[Len(saved)]
                  IN words' = f[1] /\ min' = f[2] /\ sz' = f[4]
               /\ saved' = SubSeq(saved, 1, Len(saved) - 1)
               /\ failed' = FALSE
               /\ told' = <<>>
               /\ UNCHANGED max

Restore == /\ saved # <<>>
           /\ LET f == saved[Len(saved)]
              IN words' = f[1] /\ min' = f[2] /\ max' = f[3] /\ sz' = f[4]
           /\ saved' = SubSeq(saved, 1, Len(saved) - 1)
           /\ failed' = FALSE
           /\ told' = <<>>

Next == \/ Save \/ Restore
        \/ \E v \in Arguments : Assign(v) \/ Remove(v) \/ RemoveBelow(v) \/ RemoveAbove(v)

Spec == Init /\ [][Next]_vars
--------------------------------------------------------------------------------
(* The set a state of the fields stands for: stale bits outside the bounds    *)
(* do not count (member, domain.hpp:53).                                      *)
DomainOf(f) == {v \in f[2]..f[3] : (v - IMin) % W \in f[1][(v - IMin) \div W]}

(* Unless it failed, the domain is not empty, its bounds are members and its  *)
(* size counts its members, so isBound and the compact test mean what they    *)
(* say (domain.hpp:49-53, domain.cpp:167, 185).                               *)
BoundsAndSize == /\ TypeOK
                 /\ ~failed => /\ sz = Cardinality(DomainOf(fields))
                               /\ {min, max} \subseteq DomainOf(fields)

Heard == {told[i] : i \in DOMAIN told}

Domain == INSTANCE IntDomain WITH
             Initial <- IMin..(IMin + N - 1),
             dom <- IF failed THEN {} ELSE DomainOf(fields),
             told <- Heard,
             saved <- [i \in DOMAIN saved |-> DomainOf(saved[i])]

(* Each operation narrows the set as its name says and tells the listener     *)
(* neither more nor less than what changed (domain.cpp:111-195).              *)
OperationsExact == [][\A v \in Arguments : /\ Assign(v) => Domain!Assign(v)
                                           /\ Remove(v) => Domain!Remove(v)
                                           /\ RemoveBelow(v) => Domain!RemoveBelow(v)
                                           /\ RemoveAbove(v) => Domain!RemoveAbove(v)]_vars

(* Over any run, failures and backtracks included, the words, bounds and size *)
(* behave as a set that is narrowed and restored.                             *)
IsIntDomain == Domain!Spec
================================================================================
