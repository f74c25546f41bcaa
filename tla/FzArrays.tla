-------------------------------- MODULE FzArrays --------------------------------
(* The FlatZinc constraints over arrays (fz_constraints/bool_array, int_array,*)
(* bool_misc), laid out as in Arithmetic.tla.  Their arrays are indexed from  *)
(* 1; the domain of an index lies within them.                                *)
EXTENDS FzLinear

FzArrayKinds == {"array_bool_imp", "array_bool_reif", "array_bool_xor", "bool_clause", "bool2int",
                 "array_bool_element", "array_var_bool_element", "array_var_int_element",
                 "array_int_maximum", "array_int_minimum"}

LOCAL Front(b) == SubSeq(b.x, 1, Len(b.x) - 1)
LOCAL Last(b) == b.x[Len(b.x)]
LOCAL Cell(b, n) == b.x[n + 2]      \* of <<index, value>> \o array

FzArrayHolds(a, b) ==
    LET x(n) == At(a, b.x[n])
        ones == Ones(a, Front(b))
        related == IF b.k = "and" THEN ones = Len(b.x) - 1 ELSE ones > 0
        rest == {x(n) : n \in 2..Len(b.x)}
    IN CASE b.kind = "array_bool_imp" -> At(a, Last(b)) = 1 => related
         [] b.kind = "array_bool_reif" -> At(a, Last(b)) = 1 <=> related
         [] b.kind = "array_bool_xor" -> Ones(a, b.x) % 2 = 1
         [] b.kind = "bool_clause" -> Ones(a, b.x) > 0
         [] b.kind = "bool2int" -> x(1) = x(2)
         [] b.kind = "array_bool_element" -> x(1) \in DOMAIN b.k /\ b.k[x(1)] = x(2)
         [] b.kind \in {"array_var_bool_element", "array_var_int_element"} ->
               x(1) \in 1..(Len(b.x) - 2) /\ x(x(1) + 2) = x(2)
         [] b.kind = "array_int_maximum" -> x(1) = Max(rest)
         [] b.kind = "array_int_minimum" -> x(1) = Min(rest)

--------------------------------------------------------------------------------
SomeIs(r, xs, w) == \E n \in DOMAIN xs : Is(r, xs[n], w)
AllAre(r, xs, w) == \A n \in DOMAIN xs : Is(r, xs[n], w)
OpenOnes(r, xs) == {n \in DOMAIN xs : ~Bound(r, xs[n])}

(* Mutant: two unbound variables count as one. *)
LastTakes_two(r, xs, w) ==
    LET open == OpenOnes(r, xs)
    IN IF ~SomeIs(r, xs, w) /\ open # {} THEN Assign(r, xs[Max(open)], w) ELSE r

(* The last unbound variable takes the value that all the others lack.        *)
LastTakes(r, xs, w) ==
    LET open == OpenOnes(r, xs)
    IN IF ~SomeIs(r, xs, w) /\ Cardinality(open) = 1 THEN Assign(r, xs[Max(open)], w) ELSE r

array_bool_and(r, xs) == Rel(AllAre(r, xs, 1), SomeIs(r, xs, 0),
                             AssignAll(r, xs, 1), LastTakes(r, xs, 0))
array_bool_or(r, xs) == Rel(SomeIs(r, xs, 1), AllAre(r, xs, 0),
                            LastTakes(r, xs, 1), AssignAll(r, xs, 0))

ArrayBoolPropagate(r, i, b) ==
    LET Here(s) == IF b.k = "and" THEN array_bool_and(s, Front(b)) ELSE array_bool_or(s, Front(b))
    IN IF b.kind = "array_bool_imp" THEN Implied(r, i, Last(b), Here)
       ELSE Reified(r, i, Last(b), TRUE, Here)

array_bool_xor(r, xs) ==
    LET open == OpenOnes(r, xs)
        trues == Cardinality({n \in DOMAIN xs : Is(r, xs[n], 1)})
    IN IF Cardinality(open) = 1 THEN Assign(r, xs[Max(open)], 1 - (trues % 2)) ELSE r

(* The literals of a clause; a negated one is the view 1 - x.                 *)
bool_clause(r, i, xs) ==
    IF SomeIs(r, xs, 1) THEN SetActive(r, i, FALSE)
    ELSE IF OpenOnes(r, xs) = {} THEN Fail(r) ELSE LastTakes(r, xs, 1)

bool2int(r, i, x, y) ==
    LET known == Larger(Lo(r, x), Lo(r, y)) > 0 \/ Smaller(Hi(r, x), Hi(r, y)) < 1
        s == eqPropagate(r, x, y)
    IN IF known THEN SetActive(s, i, FALSE) ELSE s

--------------------------------------------------------------------------------
(* y within what the array entries reach, then the indices without support.   *)
array_bool_element(r, b) ==
    LET x == b.x[1]  y == b.x[2]
        reached == {b.k[n] : n \in Dom(r, x)}
        s == UpdateBounds(r, y, Min(reached), Max(reached))
    IN RemoveEach(s, x, {n \in Dom(s, x) : b.k[n] \notin Dom(s, y)})

Reached(r, b) == LET D == Dom(r, b.x[1])
                 IN <<Min({Lo(r, Cell(b, n)) : n \in D}), Max({Hi(r, Cell(b, n)) : n \in D})>>

array_var_bool_element(r, b) ==
    LET x == b.x[1]  y == b.x[2]
        m == Reached(r, b)
        s == Within(r, y, m)
    IN IF Bound(s, x) THEN Within(s, Cell(b, Lo(s, x)), m)
       ELSE IF Bound(s, y)
       THEN RemoveEach(s, x, {n \in Dom(s, x) : Lo(s, y) \notin Dom(s, Cell(b, n))})
       ELSE s

array_var_int_element(r, i, b) ==
    LET x == b.x[1]  y == b.x[2]
        s == Within(r, y, Reached(r, b))
        t == Within(s, Cell(b, Lo(s, x)), Limits(s, y))
    IN IF s.failed THEN s
       ELSE IF ~Bound(s, x) THEN RemoveEach(s, x, {n \in Dom(s, x) : Apart(s, Cell(b, n), y)})
       ELSE IF Bound(s, y) THEN SetActive(t, i, FALSE) ELSE t

(* The bounds of m come from the maxima alone (from the minima for minimum).  *)
ArrayExtremum(r, b) ==
    LET m == b.x[1]
        xs == Tail(b.x)
        ends == {IF b.kind = "array_int_maximum" THEN Hi(r, xs[n]) ELSE Lo(r, xs[n]) : n \in DOMAIN xs}
        s == UpdateBounds(r, m, Min(ends), Max(ends))
    IN Seqs!FoldLeft(LAMBDA t, v : IF b.kind = "array_int_maximum" THEN RemoveAbove(t, v, Hi(s, m))
                                   ELSE RemoveBelow(t, v, Lo(s, m)), s, xs)

--------------------------------------------------------------------------------
FzArrayPropagate(r, i, b) ==
    CASE b.kind \in {"array_bool_imp", "array_bool_reif"} -> ArrayBoolPropagate(r, i, b)
      [] b.kind = "array_bool_xor" -> array_bool_xor(r, b.x)
      [] b.kind = "bool_clause" -> bool_clause(r, i, b.x)
      [] b.kind = "bool2int" -> bool2int(r, i, b.x[1], b.x[2])
      [] b.kind = "array_bool_element" -> array_bool_element(r, b)
      [] b.kind = "array_var_bool_element" -> array_var_bool_element(r, b)
      [] b.kind = "array_var_int_element" -> array_var_int_element(r, i, b)
      [] b.kind \in {"array_int_maximum", "array_int_minimum"} -> ArrayExtremum(r, b)

(* bool_clause only listens: it runs when one of its literals is bound.       *)
FzArrayPost(r, i, b) ==
    LET x == b.x[1]  y == b.x[2]
        n == Len(b.x)
        s == CASE b.kind = "bool2int" -> UpdateBounds(r, y, 0, 1)
               [] b.kind = "array_bool_element" -> UpdateBounds(r, x, 1, Len(b.k) + 1)
               [] b.kind \in {"array_var_bool_element", "array_var_int_element"} ->
                     UpdateBounds(r, x, 1, n - 1)
               [] OTHER -> r
        cells == SubSeq(b.x, 3, n)
        t == CASE b.kind = "array_bool_element" -> Listen(Listen(s, x, "onDom", i), y, "onBind", i)
               [] b.kind = "array_var_bool_element" -> Listen(ListenAll(s, cells, "onBind", i), x, "onBind", i)
               [] b.kind = "array_var_int_element" ->
                     Listen(Listen(ListenAll(s, cells, "onBounds", i), x, "onDom", i), y, "onBounds", i)
               [] b.kind \in {"array_int_maximum", "array_int_minimum"} -> ListenAll(s, b.x, "onBounds", i)
               [] OTHER -> ListenAll(s, b.x, "onBind", i)
    IN IF t.failed \/ b.kind = "bool_clause" THEN t ELSE FzArrayPropagate(t, i, b)
================================================================================
