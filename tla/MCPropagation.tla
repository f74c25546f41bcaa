----------------------------- MODULE MCPropagation -----------------------------
(* Small clients of the constraints of constraint.hpp and of those of         *)
(* FlatZinc; the cfg picks some.                                              *)
EXTENDS Factory, Propagation, TLC

CONSTANTS Chosen

LOCAL Bool == 0..1

x == Var("x")  y == Var("y")  z == Var("z")  s == Var("s")  o == Var("o")
a == Var("a")  b == Var("b")  c == Var("c")  d == Var("d")

Low(body) == [body EXCEPT !.prio = CLOW]

(* The parity of the ones: state, symbol, state. *)
OddOnes == <<<<0, 0, 0>>, <<0, 1, 1>>, <<1, 0, 1>>, <<1, 1, 0>>>>

LibraryTable == [
    xLEy |-> lessOrEqual(x, y),
    xLTy |-> less(x, y),
    xNEyLight |-> notEqualLight(x, y, 0),
    xNEy |-> notEqual(x, y, 0),
    xEQy1 |-> equal(x, y, 1),
    xDCy1 |-> equalDC(x, y, 1),
    bIsX1 |-> Low(IsEqual(b, x, 1)),
    aAndBC |-> and(a, b, c),
    aXorBC |-> Low(xOR(a, b, c)),
    views |-> lessOrEqual(times(x, 2), from(6, times(y, -3))),
    mixed |-> notEqual(times(x, 2), plus(y, 1), 0),
    zPlus |-> equal3(z, x, y),
    zPlusB |-> equal3bool(x, y, b),
    zDist |-> equalAbsDiff(z, x, y),
    total |-> sum(<<times(x, 2), minus(y), b>>, s),
    total3 |-> sum(<<x, y, z>>, s),
    two |-> sumBool(<<a, b, c, d>>, 2),
    bInS |-> isMember(b, x, {0, 2}),
    aLE1 |-> IsLessOrEqual(a, x, 1),
    cGE1 |-> IsLessOrEqual(c, minus(x), -1),
    any4 |-> clause(<<a, b, c, d>>),
    dAny |-> isClause(d, <<a, b, c>>),
    allDiff |-> allDifferent(<<x, y, z>>, <<"xNyLight", "xNzLight", "yNzLight">>),
    xNyLight |-> notEqualLight(x, y, 0),
    xNzLight |-> notEqualLight(x, z, 0),
    yNzLight |-> notEqualLight(y, z, 0),
    allDiffAC |-> allDifferentAC(<<x, y, z>>),
    tour |-> circuit(<<x, y, z>>, "allDiff"),
    cell |-> element2D(<<<<0, 2>>, <<2, 1>>, <<3, 0>>>>, x, y, z),
    entry |-> element(<<2, 0, 2>>, o, y, z),
    basic |-> elementBasic(<<2, 0, 2>>, y, z),
    exact |-> elementDC(<<2, 0, 2, 1>>, y, z),
    pick |-> elementVar(<<x, s>>, y, z),
    xyzLEabc |-> lexLeq(<<x, y, z>>, <<a, b, c>>),
    xyzsLEabcd |-> lexLeq(<<x, y, z, s>>, <<a, b, c, d>>),
    xyLEab |-> lexLeq(<<x, y>>, <<a, b>>),
    tasks |-> cumulativeTT(<<x, y, z>>, <<2, 1, 2>>, <<1, 2, 1>>, 2),
    tuples |-> table(<<a, b, c>>, <<<<0, 0, 1>>, <<0, 1, 1>>, <<1, 0, 0>>, <<0, 2, 0>>>>, 32),
    split |-> table(<<x, y, z>>, <<<<0, 1, 0>>, <<1, 1, 2>>, <<2, 0, 1>>, <<2, 2, 0>>, <<0, 0, 1>>>>, 2),
    gap |-> table(<<x, y>>, <<<<0, 0>>, <<1, 1>>>>, 32),
    cut |-> table(<<x, y>>, <<<<2, 0>>, <<2, 2>>, <<1, 0>>, <<0, 1>>>>, 2),
    odd |-> regular(<<a, b>>, <<x, y, z>>, 0, {1}, OddOnes, <<"xIs0", "step1", "step2", "zNot0">>),
    xIs0 |-> equalc(x, 0), zNot0 |-> notEqualc(z, 0),
    step1 |-> table(<<x, a, y>>, OddOnes, 32), step2 |-> table(<<y, b, z>>, OddOnes, 32),
    impS |-> impliesSum(s, a, b),
    impZ |-> implies(c, s)]

FlatZincTable == [
    fzEq |-> fz_bool_bin("eq", a, b), fzLe |-> fz_bool_bin("le", b, c),
    fzLt |-> fz_bool_bin("lt", a, d), fzNot |-> fz_bool_bin("ne", c, d),
    fzAndI |-> fz_bool_bin_imp("and", a, b, c), fzEqI |-> fz_bool_bin_imp("eq", b, c, d),
    fzLeI |-> fz_bool_bin_imp("le", a, c, b), fzLtI |-> fz_bool_bin_imp("lt", d, a, c),
    fzOrI |-> fz_bool_bin_imp("or", a, b, d), fzNeI |-> fz_bool_bin_imp("ne", b, d, a),
    fzAndR |-> fz_bool_bin_reif("and", a, b, d), fzEqR |-> fz_bool_bin_reif("eq", c, d, a),
    fzLeR |-> fz_bool_bin_reif("le", b, c, d), fzLtR |-> fz_bool_bin_reif("lt", a, c, b),
    fzOrR |-> fz_bool_bin_reif("or", b, c, a), fzNeR |-> fz_bool_bin_reif("ne", a, d, c),
    fzIEq |-> fz_int_bin("eq", x, y), fzILe |-> fz_int_bin("le", x, y),
    fzILt |-> fz_int_bin("lt", y, x), fzINe |-> fz_int_bin("ne", x, y),
    fzIEqI |-> fz_int_bin_imp("eq", x, y, a), fzILeI |-> fz_int_bin_imp("le", y, x, b),
    fzIEqR |-> fz_int_bin_reif("eq", x, y, b), fzILeR |-> fz_int_bin_reif("le", x, y, a),
    fzILtR |-> fz_int_bin_reif("lt", y, x, a), fzINeR |-> fz_int_bin_reif("ne", x, y, b),
    fzAbs |-> fz("int_abs", 0, <<x, y>>),
    fzMax |-> fz("int_tern", "max", <<x, y, z>>), fzMin |-> fz("int_tern", "min", <<y, x, z>>),
    fzPlus |-> fz("int_tern", "plus", <<x, y, z>>), fzTimes |-> fz("int_tern", "times", <<x, y, z>>),
    fzLinEq |-> int_lin("eq", 1, <<times(x, 2), times(y, -3)>>),
    fzLinEq1 |-> int_lin("eq", 1, <<x, y, times(z, -1)>>),
    fzLinLe |-> int_lin("le", -1, <<times(x, 2), y, times(z, -1)>>),
    fzLinNe |-> int_lin("ne", 1, <<x, times(y, 2), times(z, -1)>>),
    fzLinEqI |-> int_lin_imp("eq", 2, <<x, times(y, 2), times(z, -1)>>, b),
    fzLinLeI |-> int_lin_imp("le", 1, <<x, times(y, -2)>>, a),
    fzLinNeI |-> int_lin_imp("ne", 2, <<x, y>>, a),
    fzLinEqR |-> int_lin_reif("eq", 2, <<times(x, 2), y>>, b),
    fzLinLeR |-> int_lin_reif("le", 1, <<times(x, 2), times(y, -1)>>, a),
    fzLinNeR |-> int_lin_reif("ne", -1, <<x, times(y, -1)>>, b),
    fzBoolLe |-> bool_lin_le(0, <<times(a, 2), b, times(c, -1), times(d, -1)>>),
    fzAllI |-> fz("array_bool_imp", "and", <<a, b, c, d>>),
    fzAnyI |-> fz("array_bool_imp", "or", <<a, b, c, d>>),
    fzAllR |-> fz("array_bool_reif", "and", <<a, b, c, d>>),
    fzAnyR |-> fz("array_bool_reif", "or", <<d, c, b, a>>),
    fzClause |-> fz_clause(<<a, b>>, <<c, d>>),
    fzB2I |-> fz("bool2int", 0, <<a, x>>),
    fzBoolElt |-> fz("array_bool_element", <<1, 0, 0>>, <<x, b>>),
    fzVarBool |-> fz("array_var_bool_element", 0, <<x, d, a, b, c>>),
    fzVarInt |-> fz("array_var_int_element", 0, <<y, z, x, s>>),
    fzIntElt |-> array_int_element(<<2, 0, 2>>, y, z)]

Table == LibraryTable @@ FlatZincTable

(* doms: the domain of each variable. *)
Client(doms, cons, moves) ==
    [dom |-> doms, cons |-> cons, early |-> {}, obj |-> <<>>, moves |-> moves, levels |-> 0]

Deep(p) == [p EXCEPT !.levels = 1]
First(p) == [p EXCEPT !.early = p.cons]
Seeks(p, v, dir) == [p EXCEPT !.obj = <<v, dir>>]

All(doms) == UNION {{<<n, v>> : v \in doms[n]} : n \in DOMAIN doms}

LOCAL XY == [x |-> 0..2, y |-> 0..2]
LOCAL XYB == [x |-> 0..2, y |-> 0..2, b |-> Bool]
LOCAL XYA == [x |-> 0..2, y |-> 0..2, a |-> Bool, b |-> Bool]
LOCAL X3Y2 == [x |-> 0..2, y |-> 0..1]
LOCAL X3Y2A == X3Y2 @@ [a |-> Bool, b |-> Bool]
LOCAL AX3 == [a |-> Bool, x |-> 0..2]
LOCAL ABC == [a |-> Bool, b |-> Bool, c |-> Bool]
LOCAL ABCD == [a |-> Bool, b |-> Bool, c |-> Bool, d |-> Bool]
LOCAL ABCX == [a |-> Bool, b |-> Bool, c |-> Bool, x |-> 0..2]
LOCAL XYZ == [x |-> 0..2, y |-> 0..2, z |-> 0..2]
LOCAL Bits5 == [x |-> Bool, y |-> {1}, z |-> Bool, a |-> Bool, b |-> Bool, c |-> Bool]
LOCAL Bits4 == [x |-> {0}, y |-> Bool, z |-> Bool, a |-> Bool, b |-> Bool, c |-> {0}]
LOCAL Bits8 == [x |-> Bool, y |-> {0}, z |-> {0}, s |-> Bool, a |-> Bool, b |-> Bool, c |-> Bool, d |-> {0}]
LOCAL Trits4 == [x |-> 0..2, y |-> 1..2, a |-> 0..2, b |-> 0..1]
LOCAL XYZ4 == [x |-> 0..2, y |-> 0..2, z |-> 0..4]

AllPrograms == [
    order |-> Deep(Client(X3Y2 @@ [b |-> Bool], {"xLEy", "xNEyLight", "xEQy1", "bIsX1"}, All(X3Y2))),
    most |-> Seeks(Deep(Client(XY, {"xLTy", "xNEy"}, All(XY))), minus(y), "max"),
    logic |-> Client(ABC @@ [x |-> Bool], {"aAndBC", "aXorBC", "bIsX1"}, All(ABC)),
    affine |-> Client([x |-> 0..3, y |-> -1..2], {"views", "mixed"}, All([x |-> 0..3, y |-> -1..2])),
    plusses |-> Client(XYZ4, {"zPlus", "xLTy"}, All(XY)),
    plusB |-> Client(XYB, {"zPlusB", "xNEy"}, All(XYB)),
    distance |-> First(Client(XYZ, {"zDist"}, All(XYZ))),
    sums |-> Client(XYB @@ [s |-> -2..3], {"total", "xNEyLight"}, All(XY)),
    sums3 |-> Deep(Client([x |-> Bool, y |-> Bool, z |-> 0..2, s |-> 2..2], {"total3"}, All([x |-> Bool, z |-> 0..2]))),
    two |-> Deep(Client(ABCD, {"two"}, All(ABCD))),
    member |-> Client(ABCX, {"bInS", "aLE1", "cGE1"}, All(ABCX)),
    clauses |-> Client(ABCD, {"any4", "aXorBC"}, All(ABC)),
    isClause |-> Deep(First(Client(ABCD, {"dAny"}, All(ABCD)))),
    different |-> Client(XYZ, {"allDiff", "xLEy"}, All(XYZ)),
    matching |-> Deep(Client([x |-> 0..1, y |-> 0..2, z |-> 0..2], {"allDiffAC"}, {<<"x", 0>>, <<"y", 1>>, <<"z", 2>>})),
    tour |-> Client(XYZ, {"tour"}, All(XYZ)),
    cells |-> Client([x |-> 0..3, y |-> -1..1, z |-> 0..3], {"cell"}, All([x |-> 0..2, y |-> 0..1, z |-> 0..3])),
    entry |-> Client([o |-> {0}, y |-> 0..3, z |-> 0..3], {"entry"}, All([y |-> 0..2, z |-> 0..3])),
    basics |-> Deep(Client([y |-> 0..2, z |-> 0..2], {"basic"}, All([y |-> 0..2, z |-> 0..2]))),
    exact |-> Deep(Client([y |-> 0..4, z |-> 0..2], {"exact"}, All([y |-> 0..2, z |-> 0..2]))),
    pick |-> Client([x |-> 0..1, s |-> 1..2, y |-> 0..2, z |-> 0..2], {"pick"}, All([x |-> 0..1, s |-> 1..2, y |-> 0..1, z |-> 0..2])),
    lex3 |-> First(Client(Bits5, {"xyzLEabc"}, All(Bits5))),
    lex3Later |-> Client(Bits4, {"xyzLEabc"}, All(Bits4)),
    lex4 |-> First(Client(Bits8, {"xyzsLEabcd"}, All(Bits8))),
    lex2 |-> First(Client(Trits4, {"xyLEab"}, All(Trits4))),
    tasks |-> Client([x |-> 0..2, y |-> 0..3, z |-> 0..2], {"tasks"}, All([x |-> 0..2, y |-> 0..3, z |-> 0..2])),
    tuples |-> Deep(Client(ABC, {"tuples"}, All(ABC))),
    split |-> Deep(First(Client(XYZ, {"split"}, {<<"x", 0>>, <<"y", 1>>, <<"z", 0>>, <<"x", 2>>}))),
    gap |-> Client(XY, {"gap"}, All(XY)),
    cut |-> Client([x |-> 0..1, y |-> 0..1], {"cut"}, {}),
    odd |-> Client([a |-> Bool, b |-> Bool, x |-> Bool, y |-> Bool, z |-> Bool], {"odd"},
                   All([a |-> Bool, b |-> Bool, y |-> Bool])),
    implied |-> First(Client(ABC @@ [s |-> 0..2], {"impS", "impZ"}, All(ABC))),
    fzBool1 |-> Client(ABCD, {"fzEq", "fzLeI", "fzNeR"}, All(ABCD)),
    fzBool2 |-> Client(ABCD, {"fzLe", "fzEqI", "fzAndR"}, All(ABCD)),
    fzBool3 |-> Client(ABCD, {"fzLt", "fzOrI", "fzEqR"}, All(ABCD)),
    fzBool4 |-> Client(ABCD, {"fzNot", "fzAndI", "fzLtR"}, All(ABCD)),
    fzBool5 |-> Client(ABCD, {"fzLtI", "fzOrR", "fzLeR"}, All(ABCD)),
    fzBool6 |-> Client(ABCD, {"fzNeI", "fzBoolLe"}, All(ABC)),
    fzInt1 |-> Client(X3Y2A, {"fzIEq", "fzILeI", "fzILtR"}, All(X3Y2)),
    fzInt2 |-> Client(X3Y2A, {"fzINe", "fzILeR", "fzIEqI"}, All(X3Y2)),
    fzInt3 |-> Client(XYB, {"fzIEqR", "fzILe"}, All(XYB)),
    fzInt4 |-> Client(XYB, {"fzINeR", "fzILt"}, All(XYB)),
    fzAbs |-> Client([x |-> -2..1, y |-> -1..2], {"fzAbs"}, All([x |-> -2..1, y |-> 0..2])),
    fzTern |-> Client(XYZ, {"fzMax", "fzMin", "fzPlus"}, All(XY)),
    fzTimes |-> Client([x |-> 1..2, y |-> 1..2, z |-> 1..4], {"fzTimes"}, All([x |-> 1..2, y |-> 1..2, z |-> 1..4])),
    fzLin1 |-> Client(XYZ, {"fzLinLe", "fzLinNe"}, All(XYZ)),
    fzLin2 |-> Client(XYZ, {"fzLinEq1", "fzINe"}, All(XYZ)),
    fzDropped |-> Client([x |-> 3..4, y |-> 1..2], {"fzLinEq"}, {}),
    fzLin3 |-> Client(XYZ @@ [b |-> Bool], {"fzLinEqI"}, All(XYZ)),
    fzLin4 |-> Client(XYA, {"fzLinLeI", "fzLinEqR"}, All(XY)),
    fzLin5 |-> Client(XYA, {"fzLinNeI", "fzLinNeR"}, All(XY)),
    fzLin6 |-> Client(XYA, {"fzLinLeR", "fzLinNeR"}, All(XY)),
    fzArr1 |-> Deep(Client(ABCD, {"fzAllI", "fzAnyR"}, All(ABC))),
    fzArr2 |-> Client(ABCD, {"fzAllR", "fzAnyI"}, All(ABCD)),
    fzClause |-> Deep(First(Client(ABCD, {"fzClause"}, All(ABCD)))),
    fzB2I |-> Deep(Client(AX3, {"fzB2I"}, All(AX3))),
    fzElt1 |-> Deep(Client([x |-> 0..3, b |-> Bool], {"fzBoolElt"}, All([x |-> 1..3, b |-> Bool]))),
    fzElt2 |-> Client(ABCD @@ [x |-> 0..3], {"fzVarBool"}, All(ABCD @@ [x |-> 1..3])),
    fzElt3 |-> Client([x |-> 0..1, s |-> 1..2, y |-> 1..2, z |-> 0..2], {"fzVarInt"},
                      All([x |-> 0..1, s |-> 1..2, y |-> 1..2, z |-> 0..2])),
    fzElt4 |-> Client([y |-> 1..3, z |-> 0..3], {"fzIntElt"}, All([y |-> 1..3, z |-> 0..3])),
    holes |-> First(Client([x |-> 1..3, y |-> 0..2], {"xDCy1"}, All([x |-> 1..3, y |-> 0..2])))]

Clients == {AllPrograms[n] : n \in Chosen}

(* A name of its own for each: TLC evaluates these once. *)
MCBody == Table
MCPrograms == Clients
================================================================================
