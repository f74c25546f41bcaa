------------------------------- MODULE MCMDDRelax -------------------------------
(* Instances of MDDRelax: for each constraint of the library, domains and     *)
(* scopes small enough to explore every order of splits and decisions.        *)
EXTENDS MDDRelax

CONSTANTS
    Chosen          \* the names of the programs that a run takes

All == 0 .. N - 1
Binary == [l \in All |-> {0, 1}]
Mixed == [Binary EXCEPT ![1] = {1, 2}]
NoZ == [min |-> 0, max |-> 0]
Same(k) == [v \in Values |-> k]

(* A matrix whose rows order the values in different ways, a triangle with a  *)
(* negative edge.                                                             *)
Matrix == <<[v \in Values |-> v], [v \in Values |-> 2 - v], [v \in Values |-> (v * v) % 3]>>
Triangle == [i \in All |-> [j \in All |-> IF i + j = 3 THEN -1 ELSE IF i + j = 2 THEN 2 ELSE 1]]

Program(name, c, dom, z, others) ==
    [name |-> name, cs |-> c, dom |-> dom, z |-> z, others |-> others]

(* Every constraint alone, two together, and two sums whose last bound is a   *)
(* variable: one where nothing else runs, one where another propagator may.   *)
MCPrograms == {p \in {
    Program("among", <<amongMDD(All, 1, 1, {1})>>, Binary, NoZ, TRUE),
    Program("among2", <<amongMDD2b(All, 1, 1, 1)>>, Binary, NoZ, FALSE),
    Program("upToOne", <<upToOneMDD(All, {1})>>, Binary, NoZ, FALSE),
    Program("allDiff", <<allDiffMDD(All)>>, [Mixed EXCEPT ![2] = {0, 2}], NoZ, TRUE),
    Program("allDiff2", <<allDiffMDD2(All)>>, [Mixed EXCEPT ![2] = {0, 2}], NoZ, FALSE),
    Program("atMost", <<atMostMDD(All, Same(1))>>, Mixed, NoZ, FALSE),
    Program("atMost2", <<atMostMDD2(All, Same(1))>>, Mixed, NoZ, TRUE),
    Program("gcc", <<gccMDD(All, Same(1))>>, Mixed, NoZ, FALSE),
    Program("gcc2", <<gccMDD2(All, [Same(0) EXCEPT ![1] = 1], Same(2))>>, Binary, NoZ, FALSE),
    Program("sum", <<sum(All, <<1, 2, 1>>, 2, 3)>>, Binary, NoZ, FALSE),
    Program("two", <<allDiffMDD({0, 1}), sumOnes(All, 1, 2)>>, Binary, NoZ, FALSE),
    Program("sumZ", <<sumArray(All, <<2, 1, 1>>)>>, Binary, [min |-> 2, max |-> 3], FALSE),
    Program("signed", <<sumSigned(All, <<1, -1, 2>>)>>, Binary, [min |-> 0, max |-> 1], FALSE),
    Program("matrix", <<sumMatrix(All, Matrix)>>, Binary, [min |-> 3, max |-> 3], FALSE),
    Program("seq", <<seqMDD(All, 2, 1, 1, {1})>>, Binary, NoZ, FALSE),
    Program("seq2", <<seqMDD2(All, 2, 1, 1, {1})>>, Binary, NoZ, FALSE),
    Program("precedence", <<precedenceMDD(All, 0, 1)>>, [Binary EXCEPT ![0] = {0, 2}], NoZ, FALSE),
    Program("required", <<requiredPrecedenceMDD(All, 0, 1)>>, [Binary EXCEPT ![1] = Values], NoZ, FALSE),
    Program("goc", <<gocMDD(All, {<<0, 2>>})>>, [Mixed EXCEPT ![1] = Values, ![2] = {1, 2}], NoZ, FALSE),
    Program("goc2", <<gocMDD2(All, {<<0, 2>>, <<1, 2>>})>>, [Binary EXCEPT ![2] = {1, 2}], NoZ, FALSE),
    Program("absDiff", <<absDiffMDD(All)>>, [Binary EXCEPT ![0] = {0, 2}, ![2] = {1, 2}], NoZ, FALSE),
    Program("maxCut", <<maxCutObjectiveMDD(All, Triangle)>>, Binary, [min |-> 1, max |-> 3], FALSE),
    Program("stale", <<sumVeci(All)>>, Binary, [min |-> 0, max |-> 3], TRUE)
    } : p.name \in Chosen}

================================================================================
