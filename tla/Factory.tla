-------------------------------- MODULE Factory --------------------------------
(* The expressions and constraints a client writes (intvar.hpp, the factories *)
(* of constraint.hpp) or a FlatZinc model asks for (fz_constraints/           *)
(* flatzinc.cpp): the views and constraint objects they allocate.  Where      *)
(* the code makes a variable of its own, z stands for it and zDom for the     *)
(* domain it is given.                                                        *)
EXTENDS Propagators

Var(x) == <<x, 1, 0>>
minus(v) == <<v[1], -v[2], -v[3]>>
times(v, a) == <<v[1], a * v[2], a * v[3]>>     \* a # 0: otherwise a new variable over {0}
plus(v, o) == <<v[1], v[2], v[3] + o>>
from(o, v) == plus(minus(v), o)                 \* o - v

equal(x, y, c) == MkBody("EQBinBC", <<x, y>>, c, 2)
equal3(x, y, z) == MkBody("EQTernBC", <<x, y, z>>, 0, 3)
equal3bool(x, y, b) == MkBody("EQTernBCbool", <<x, y, b>>, 0, 3)
notEqual(x, y, c) == MkBody("NEQBinBC", <<x, y>>, c, 2)
notEqualLight(x, y, c) == MkBody("NEQBinBCLight", <<x, y>>, c, 0)
lessOrEqual(x, y) == MkBody("LessOrEqual", <<x, y>>, 0, 0)
less(x, y) == lessOrEqual(x, plus(y, -1))
equalAbsDiff(z, x, y) == MkBody("EQAbsDiffBC", <<z, x, y>>, 0, 3)
equalDC(x, y, c) == MkBody("EQBinDC", <<x, y>>, c, 0)

and(z, x, y) == MkBody("Conjunction", <<z, x, y>>, 0, 0)
xOR(z, x, y) == MkBody("XOR", <<z, x, y>>, 0, 0)

(* The reified constraints over a Boolean b of the client, who posts them     *)
(* himself.  (The factories that make the Boolean, isEqual(x, c) and its      *)
(* like, post them too, and swallow a failure.)                               *)
IsEqual(b, x, c) == MkBody("IsEqual", <<b, x>>, c, 0)
isMember(b, x, S) == MkBody("IsMember", <<b, x>>, S, 0)
IsLessOrEqual(b, x, c) == MkBody("IsLessOrEqual", <<b, x>>, c, 2)

(* Sum adds the opposite of the sum to the terms. *)
sum(xs, s) == MkBody("Sum", xs \o <<minus(s)>>, 0, 0)
sumBool(xs, s) == MkBody("SumBool", xs, s, Len(xs))
clause(xs) == MkBody("Clause", xs, 0, 0)
isClause(b, xs) == MkBody("IsClause", <<b>> \o xs, 0, 1)

--------------------------------------------------------------------------------
(* The constraints it posts, in order, are given by name. *)
allDifferent(xs, pairs) == [MkBody("AllDifferentBinary", xs, 0, 0) EXCEPT !.inner = pairs]
allDifferentAC(xs) == MkBody("AllDifferentAC", xs, 0, 0)
circuit(xs, allDiff) == [MkBody("Circuit", xs, 0, Len(xs)) EXCEPT !.inner = <<allDiff>>]

(* Element2D and Element1DBasic sort what they index by value. *)
LOCAL ByValue(seq, Value(_)) ==
    LET values == {Value(seq[k]) : k \in DOMAIN seq}
    IN Seqs!FlattenSeq([n \in 1..Cardinality(values) |->
                           SelectSeq(seq, LAMBDA e : Value(e) = Ascending(values)[n])])

LOCAL Cells(t) ==
    LET M == Len(t[1])
    IN ByValue([n \in 1..(Len(t) * M) |->
                  LET i == (n - 1) \div M  j == (n - 1) % M IN <<i, j, t[i + 1][j + 1]>>],
               LAMBDA e : e[3])

LOCAL Pairs(t) == ByValue([k \in 1..Len(t) |-> <<k - 1, t[k]>>], LAMBDA e : e[2])

element2D(t, x, y, z) == MkBody("Element2D", <<x, y, z>>, [t |-> t, xyz |-> Cells(t)], 0)
element(t, x, y, z) == MkBody("Element1D", <<x, y, z>>, [t |-> <<t>>, xyz |-> Cells(<<t>>)], 1)
elementBasic(t, y, z) == MkBody("Element1DBasic", <<y, z>>, [t |-> t, kv |-> Pairs(t)], 0)
elementDC(t, y, z) == MkBody("Element1DDC", <<y, z>>, [t |-> t], 0)
elementVar(xs, y, z) == MkBody("Element1DVar", <<y, z>> \o xs, 0, 0)

equalc(x, c) == MkBody("EQc", <<x>>, c, 0)
notEqualc(x, c) == MkBody("NEQc", <<x>>, c, 0)

lexLeq(xs, ys) == MkBody("LexLeq", xs \o ys, 0, LexParts(Len(xs)))
cumulativeTT(starts, dur, req, cap) ==
    MkBody("CumulativeTT", starts, [dur |-> dur, req |-> req, cap |-> cap], 1)

(* bits is 32 in the code. *)
table(xs, rows, bits) == MkBody("TableCT", xs, [rows |-> rows, bits |-> bits], 0)

(* posts: the start of the states qs, a table for each symbol, and what the   *)
(* last state is not.                                                         *)
regular(xs, qs, start, finals, rows, posts) ==
    [MkBody("Regular", xs \o qs, [n |-> Len(xs), start |-> start, finals |-> finals, rows |-> rows], 0)
        EXCEPT !.inner = posts]

--------------------------------------------------------------------------------
(* The domain of the variable made for x + y, x - y and a sum.                *)
zDomPlus(Dx, Dy) == (Min(Dx) + Min(Dy))..(Max(Dx) + Max(Dy))
zDomMinus(Dx, Dy) == (Min(Dx) - Max(Dy))..(Max(Dx) - Min(Dy))

(* a => b: a new Boolean z for 1 - a + b >= 1, through a new variable s for   *)
(* the sum; two constraints, the first posted first.  The second is posted by *)
(* isLargerOrEqual, and cannot fail when nothing waits, as z is new.          *)
impliesSum(s, a, b) == sum(<<from(1, a), b>>, s)
implies(z, s) == IsLessOrEqual(z, minus(s), -1)

--------------------------------------------------------------------------------
(* makeConstraint, by the FlatZinc name.  xs of a reified form ends in its    *)
(* Boolean.                                                                   *)
fz(kind, k, xs) == MkBody(kind, xs, k, 0)
fz_bool_bin(k, x, y) == fz("bool_bin", k, <<x, y>>)
fz_bool_bin_imp(k, x, y, p) == fz("bool_bin_imp", k, <<x, y, p>>)
fz_bool_bin_reif(k, x, y, p) == fz("bool_bin_reif", k, <<x, y, p>>)
fz_int_bin(k, x, y) == fz("int_bin", k, <<x, y>>)
fz_int_bin_imp(k, x, y, p) == fz("int_bin_imp", k, <<x, y, p>>)
fz_int_bin_reif(k, x, y, p) == fz("int_bin_reif", k, <<x, y, p>>)
int_lin(k, c, terms) == fz("int_lin", <<k, c>>, terms)
int_lin_imp(k, c, terms, p) == fz("int_lin_imp", <<k, c>>, terms \o <<p>>)
int_lin_reif(k, c, terms, p) == fz("int_lin_reif", <<k, c>>, terms \o <<p>>)
bool_lin_le(c, terms) == fz("bool_lin", <<"le", c>>, terms)
fz_clause(as, bs) == fz("bool_clause", 0, as \o [n \in DOMAIN bs |-> from(1, bs[n])])
array_int_element(t, y, z) == elementBasic(t, plus(y, -1), z)
================================================================================
