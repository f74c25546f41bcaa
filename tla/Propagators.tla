------------------------------ MODULE Propagators ------------------------------
(* The constraints by kind: what one remembers when it is constructed, what   *)
(* posting and propagating it does, and what it means.                        *)
EXTENDS FzArrays, Sequencing, Tables

NewMem(c) ==
    LET b == Body[c]
    IN CASE b.kind = "Sum" -> SumMem(b)
         [] b.kind = "SumBool" -> <<0, 0>>
         [] b.kind = "Clause" -> ClauseMem(Len(b.x))
         [] b.kind = "IsClause" -> IsClauseMem(b)
         [] b.kind \in GlobalKinds -> GlobalMem(b)
         [] b.kind = "LexLeq" -> LexMem
         [] b.kind = "TableCT" -> TableMem(b)
         [] OTHER -> <<>>

NewAux(c) ==
    LET b == Body[c]
    IN CASE b.kind = "Sum" -> SumAux(b)
         [] b.kind = "IsClause" -> IsClauseAux(b)
         [] b.kind = "TableCT" -> TableIndex(b)
         [] OTHER -> <<>>

Post(r, c) ==
    LET b == Body[c]
        i == <<c, 0>>
    IN CASE b.kind \in ArithmeticKinds -> ArithmeticPost(r, i, b)
         [] b.kind \in LogicalKinds -> LogicalPost(r, i, b)
         [] b.kind \in GlobalKinds -> GlobalPost(r, i, b)
         [] b.kind \in SequencingKinds -> SequencingPost(r, i, b)
         [] b.kind \in TableKinds -> TablesPost(r, i, b)
         [] b.kind \in FzBasicKinds -> FzBasicPost(r, i, b)
         [] b.kind \in FzLinearKinds -> FzLinearPost(r, i, b)
         [] b.kind \in FzArrayKinds -> FzArrayPost(r, i, b)

Propagate(r, i) ==
    LET b == Body[i[1]]
    IN CASE b.kind \in ArithmeticKinds -> ArithmeticPropagate(r, i, b)
         [] b.kind \in LogicalKinds -> LogicalPropagate(r, i, b)
         [] b.kind \in GlobalKinds -> GlobalPropagate(r, i, b)
         [] b.kind \in SequencingKinds -> SequencingPropagate(r, i, b)
         [] b.kind \in TableKinds -> TablesPropagate(r, i, b)
         [] b.kind \in FzBasicKinds -> FzBasicPropagate(r, i, b)
         [] b.kind \in FzLinearKinds -> FzLinearPropagate(r, i, b)
         [] b.kind \in FzArrayKinds -> FzArrayPropagate(r, i, b)

(* Whether an assertion of its post() ends the program. *)
Aborts(r, c) == Body[c].kind = "Element1DDC" /\ Element1DDCAborts(r, Body[c])

(* What each constraint means: the reference the propagators are held to.     *)
Satisfies(a, c) ==
    LET b == Body[c]
    IN CASE b.kind \in ArithmeticKinds -> ArithmeticHolds(a, b)
         [] b.kind \in LogicalKinds -> LogicalHolds(a, b)
         [] b.kind \in GlobalKinds -> GlobalHolds(a, b)
         [] b.kind \in SequencingKinds -> SequencingHolds(a, b)
         [] b.kind \in TableKinds -> TableHolds(a, b)
         [] b.kind \in FzBasicKinds -> FzBasicHolds(a, b)
         [] b.kind \in FzLinearKinds -> FzLinearHolds(a, b)
         [] b.kind \in FzArrayKinds -> FzArrayHolds(a, b)
================================================================================
