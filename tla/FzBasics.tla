-------------------------------- MODULE FzBasics --------------------------------
(* The FlatZinc constraints over two or three variables (fz_constraints/      *)
(* bool_bin, int_bin, int_tern), laid out as in Arithmetic.tla.  b.k names    *)
(* the relation, b.x holds its arguments and last the Boolean of the          *)
(* half-reified (imp) and reified (reif) forms.                               *)
EXTENDS Globals

FzBasicKinds == {"bool_bin", "bool_bin_imp", "bool_bin_reif", "int_bin", "int_bin_imp",
                 "int_bin_reif", "int_abs", "int_tern"}

LOCAL Related(k, u, v) ==
    CASE k = "eq" -> u = v [] k = "ne" -> u # v [] k = "le" -> u <= v [] k = "lt" -> u < v
      [] k = "and" -> u = 1 /\ v = 1 [] k = "or" -> u = 1 \/ v = 1

LOCAL SignOf(n) == IF n < 0 THEN -1 ELSE 1
LOCAL AbsOf(n) == SignOf(n) * n

(* Division as C does it, towards zero. *)
quotient(n, d) == SignOf(n) * SignOf(d) * (AbsOf(n) \div AbsOf(d))

FzBasicHolds(a, b) ==
    LET u == At(a, b.x[1])  v == At(a, b.x[2])  w == At(a, b.x[3])
    IN CASE b.kind \in {"bool_bin", "int_bin"} -> Related(b.k, u, v)
         [] b.kind \in {"bool_bin_imp", "int_bin_imp"} -> w = 1 => Related(b.k, u, v)
         [] b.kind \in {"bool_bin_reif", "int_bin_reif"} -> w = 1 <=> Related(b.k, u, v)
         [] b.kind = "int_abs" -> v = AbsOf(u)
         [] b.kind = "int_tern" ->
               CASE b.k = "max" -> w = Larger(u, v)
                 [] b.k = "min" -> w = Smaller(u, v)
                 [] b.k = "plus" -> w = u + v
                 [] b.k = "times" -> w = u * v
                 [] b.k = "div" -> v # 0 /\ w = quotient(u, v)

--------------------------------------------------------------------------------
(* How x and y are related when their bounds settle it.                       *)
Same(r, x, y) == Bound(r, x) /\ Bound(r, y) /\ Lo(r, x) = Lo(r, y)
Apart(r, x, y) == Hi(r, x) < Lo(r, y) \/ Hi(r, y) < Lo(r, x)
Misses(r, x, y) == Bound(r, x) /\ Lo(r, x) \notin Dom(r, y)

eqPropagate(r, x, y) ==
    LET lo == Larger(Lo(r, x), Lo(r, y))
        hi == Smaller(Hi(r, x), Hi(r, y))
    IN UpdateBounds(UpdateBounds(r, y, lo, hi), x, lo, hi)

nePropagate(r, x, y) ==
    LET s == IF Bound(r, x) THEN Remove(r, y, Lo(r, x)) ELSE r
    IN IF Bound(r, y) THEN Remove(s, x, Lo(r, y)) ELSE s

lePropagate(r, x, y) == RemoveBelow(RemoveAbove(r, x, Hi(r, y)), y, Lo(r, x))
ltPropagate(r, x, y) == RemoveBelow(RemoveAbove(r, x, Hi(r, y) - 1), y, Lo(r, x) + 1)

(* If one of two Booleans is w the other becomes v.                           *)
OtherTakes(r, x, y, w, v) == IF Is(r, x, w) THEN Assign(r, y, v)
                             ELSE IF Is(r, y, w) THEN Assign(r, x, v) ELSE r

(* A relation: what proves and refutes it, and the states in which it or its  *)
(* negation has narrowed its arguments.                                       *)
Rel(proved, refuted, then, else) ==
    [proved |-> proved, refuted |-> refuted, then |-> then, else |-> else]

andRel(r, x, y) == Rel(IsTrue(r, x) /\ IsTrue(r, y), Apart(r, x, y),
                       AssignAll(r, <<x, y>>, 1), OtherTakes(r, x, y, 1, 0))
orRel(r, x, y) == Rel(IsTrue(r, x) \/ IsTrue(r, y), IsFalse(r, x) /\ IsFalse(r, y),
                      OtherTakes(r, x, y, 0, 1), AssignAll(r, <<x, y>>, 0))
eqRel(r, x, y) == Rel(Same(r, x, y), Apart(r, x, y), eqPropagate(r, x, y), nePropagate(r, x, y))
neRel(r, x, y) == Rel(Apart(r, x, y) \/ Misses(r, x, y) \/ Misses(r, y, x), Same(r, x, y),
                      nePropagate(r, x, y), eqPropagate(r, x, y))
leRel(r, x, y) == Rel(Hi(r, x) <= Lo(r, y), Hi(r, y) < Lo(r, x),
                      lePropagate(r, x, y), ltPropagate(r, y, x))
ltRel(r, x, y) == Rel(Hi(r, x) < Lo(r, y), Hi(r, y) <= Lo(r, x),
                      ltPropagate(r, x, y), lePropagate(r, y, x))

Relation(r, k, x, y) ==
    CASE k = "and" -> andRel(r, x, y) [] k = "or" -> orRel(r, x, y)
      [] k = "eq" -> eqRel(r, x, y) [] k = "ne" -> neRel(r, x, y)
      [] k = "le" -> leRel(r, x, y) [] k = "lt" -> ltRel(r, x, y)

--------------------------------------------------------------------------------
(* The shape of a half-reified constraint: a relation that is refuted makes p *)
(* false, then p decides.                                                     *)
Implied(r, i, p, Here(_)) ==
    LET s == IF Here(r).refuted THEN Assign(r, p, 0) ELSE r
    IN IF ~Bound(s, p) THEN s
       ELSE IF IsTrue(s, p) THEN Here(s).then ELSE SetActive(s, i, FALSE)

(* And of a reified one; off: it switches itself off when the relation has    *)
(* decided p.                                                                 *)
Reified(r, i, p, off, Here(_)) ==
    LET e == Here(r)
        s == IF e.proved THEN Assign(r, p, 1) ELSE IF e.refuted THEN Assign(r, p, 0) ELSE r
        t == IF off /\ (e.proved \/ e.refuted) THEN SetActive(s, i, FALSE) ELSE s
    IN IF t.failed \/ ~Bound(t, p) THEN t
       ELSE IF IsTrue(t, p) THEN Here(t).then ELSE Here(t).else

(* Plain relations: the integer ones but eq switch themselves off.            *)
bool_bin(r, b) == Relation(r, b.k, b.x[1], b.x[2]).then

int_bin(r, i, b) ==
    LET s == Relation(r, b.k, b.x[1], b.x[2]).then
    IN IF b.k # "eq" /\ Relation(s, b.k, b.x[1], b.x[2]).proved THEN SetActive(s, i, FALSE) ELSE s

(* bool_eq_imp stops where it refutes.                                        *)
bool_bin_imp(r, i, b) ==
    LET Here(s) == Relation(s, b.k, b.x[1], b.x[2])
    IN IF b.k = "eq" /\ Here(r).refuted THEN Assign(r, b.x[3], 0) ELSE Implied(r, i, b.x[3], Here)

int_bin_imp(r, i, b) ==
    LET Here(s) == Relation(s, b.k, b.x[1], b.x[2]) IN Implied(r, i, b.x[3], Here)

bool_bin_reif(r, i, b) ==
    LET Here(s) == Relation(s, b.k, b.x[1], b.x[2]) IN Reified(r, i, b.x[3], FALSE, Here)

int_bin_reif(r, i, b) ==
    LET Here(s) == Relation(s, b.k, b.x[1], b.x[2]) IN Reified(r, i, b.x[3], TRUE, Here)

--------------------------------------------------------------------------------
int_abs(r, x, y) ==
    LET far == Larger(AbsOf(Lo(r, x)), AbsOf(Hi(r, x)))
        near == IF Lo(r, x) >= 0 THEN Lo(r, x) ELSE IF Hi(r, x) <= 0 THEN -Hi(r, x) ELSE 0
        lo == Larger(Lo(r, y), near)
        hi == Smaller(Hi(r, y), far)
    IN UpdateBounds(UpdateBounds(r, y, lo, hi), x,
                    Larger(Lo(r, x), IF Lo(r, x) >= 0 THEN lo ELSE -hi),
                    Smaller(Hi(r, x), IF Lo(r, x) < 0 /\ Hi(r, x) <= 0 THEN -lo ELSE hi))

(* int_tern: the bounds of products and, of the quotients by one bound of the *)
(* divisor, with 0 among them when neither of its bounds is 0.                *)
calMulMinMax(u, v) == LET P == {u[1] * v[1], u[2] * v[1], u[1] * v[2], u[2] * v[2]}
                      IN <<Min(P), Max(P)>>

calDivMinMax(u, v) ==
    LET d == IF v[2] # 0 THEN v[2] ELSE v[1]
        Q == {quotient(u[1], d), quotient(u[2], d)} \cup (IF v[1] # 0 /\ v[2] # 0 THEN {0} ELSE {})
    IN <<Min(Q), Max(Q)>>

Limits(r, v) == <<Lo(r, v), Hi(r, v)>>
Within(r, v, m) == UpdateBounds(r, v, m[1], m[2])

int_tern(r, k, x, y, z) ==
    LET u == Limits(r, x)  v == Limits(r, y)  w == Limits(r, z)
        WithinQuotient(s, q, n, d) == IF d = <<0, 0>> THEN s ELSE Within(s, q, calDivMinMax(n, d))
    IN CASE k = "max" ->
              LET s == UpdateBounds(r, z, Larger(u[1], v[1]), Larger(u[2], v[2]))
              IN RemoveAbove(RemoveAbove(s, x, w[2]), y, w[2])
         [] k = "min" ->
              LET s == UpdateBounds(r, z, Smaller(u[1], v[1]), Smaller(u[2], v[2]))
              IN RemoveBelow(RemoveBelow(s, x, w[1]), y, w[1])
         [] k = "plus" ->
              LET s == UpdateBounds(r, z, u[1] + v[1], u[2] + v[2])
              IN UpdateBounds(UpdateBounds(s, x, w[1] - v[2], w[2] - v[1]),
                              y, w[1] - u[2], w[2] - u[1])
         [] k = "times" ->
              LET s == Within(r, z, calMulMinMax(u, v))
              IN WithinQuotient(WithinQuotient(s, x, w, v), y, w, u)
         [] k = "div" ->
              LET s == Within(WithinQuotient(r, z, u, v), x, calMulMinMax(w, v))
              IN WithinQuotient(s, y, u, w)

--------------------------------------------------------------------------------
FzBasicPropagate(r, i, b) ==
    CASE b.kind = "bool_bin" -> bool_bin(r, b)
      [] b.kind = "int_bin" -> int_bin(r, i, b)
      [] b.kind = "bool_bin_imp" -> bool_bin_imp(r, i, b)
      [] b.kind = "int_bin_imp" -> int_bin_imp(r, i, b)
      [] b.kind = "bool_bin_reif" -> bool_bin_reif(r, i, b)
      [] b.kind = "int_bin_reif" -> int_bin_reif(r, i, b)
      [] b.kind = "int_abs" -> int_abs(r, b.x[1], b.x[2])
      [] b.kind = "int_tern" -> int_tern(r, b.k, b.x[1], b.x[2], b.x[3])

FzBasicPost(r, i, b) ==
    LET args == SubSeq(b.x, 1, 2)
        s == CASE b.kind = "int_abs" -> RemoveBelow(r, b.x[2], 0)
               [] b.kind = "int_tern" /\ b.k = "div" -> Remove(r, b.x[2], 0)
               [] OTHER -> r
        t == CASE b.kind \in {"bool_bin", "bool_bin_imp", "bool_bin_reif"} ->
                     ListenAll(s, b.x, "onBind", i)
               [] b.kind = "int_tern" -> ListenAll(s, b.x, "onBounds", i)
               [] OTHER -> ListenAll(ListenAll(s, args, "onBounds", i),
                                     SubSeq(b.x, 3, Len(b.x)), "onBind", i)
    IN IF t.failed THEN t ELSE FzBasicPropagate(t, i, b)
================================================================================
