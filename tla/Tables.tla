---------------------------------- MODULE Tables ----------------------------------
(* The table constraint (table.cpp) with its sparse bit set (bitset.cpp), the *)
(* automata unfolded into tables (regular.cpp) and the two constraints these  *)
(* post on one variable, laid out as in Arithmetic.tla.                       *)
EXTENDS Arithmetic

TableKinds == {"TableCT", "Regular", "EQc", "NEQc"}

(* b.k of a table = [rows, bits], the tuples and the bits of a word; of an    *)
(* automaton = [n, start, finals, rows], over b.x: n symbols and n + 1 states.*)
TableHolds(a, b) ==
    LET x(n) == At(a, b.x[n])
    IN CASE b.kind = "TableCT" -> \E row \in DOMAIN b.k.rows : \A n \in DOMAIN b.x : x(n) = b.k.rows[row][n]
         [] b.kind = "Regular" ->
                /\ x(b.k.n + 1) = b.k.start /\ x(2 * b.k.n + 1) \in b.k.finals
                /\ \A k \in 1..b.k.n : \E row \in DOMAIN b.k.rows :
                       b.k.rows[row] = <<x(b.k.n + k), x(k), x(b.k.n + k + 1)>>
         [] b.kind = "EQc" -> x(1) = b.k
         [] b.kind = "NEQc" -> x(1) # b.k

--------------------------------------------------------------------------------
(* SparseBitSet: words are sets of the rows they have a bit for; the first    *)
(* limit + 1 entries of index are the words that are not empty.  words and    *)
(* limit are trailed, index is not.  A table posted after others have gone    *)
(* has an index of its own.                                                   *)
LOCAL Words(b) == (Len(b.k.rows) + b.k.bits - 1) \div b.k.bits

TableMem(b) == [words |-> [w \in 0..(Words(b) - 1) |->
                              {row \in 0..(Len(b.k.rows) - 1) : row \div b.k.bits = w}],
                limit |-> Words(b) - 1, size |-> <<>>, support |-> <<>>]
TableIndex(b) == [w \in 0..(Words(b) - 1) |-> w]

LOCAL Rows(r, c) == UNION {r.mem[c].words[r.aux[c][k]] : k \in 0..r.mem[c].limit}

(* Keep the rows of S in the word at place k, which leaves the others when    *)
(* nothing is left in it.                                                     *)
LOCAL KeepInWord(r, c, k, S) ==
    LET m == r.mem[c]
        at == r.aux[c][k]
        left == m.words[at] \cap S
        s == Remember(r, c, [m EXCEPT !.words[at] = left,
                                      !.limit = IF left = {} THEN @ - 1 ELSE @])
    IN IF left = {} THEN Note(s, c, Swapped(r.aux[c], k, m.limit)) ELSE s

(* The bit of the row is cleared in whatever word stands at the place of its own. *)
clearBit(r, c, b, row) ==
    LET k == row \div b.k.bits
        bit == (r.aux[c][k] * b.k.bits) + (row % b.k.bits)
    IN IF k <= r.mem[c].limit THEN KeepInWord(r, c, k, r.mem[c].words[r.aux[c][k]] \ {bit}) ELSE r

(* Mutant: the last word in use is left out. *)
intersectWithMask_short(r, c, mask) ==
    Seqs!FoldLeft(LAMBDA s, k : KeepInWord(s, c, k, mask), r, Seqs!Reverse(Upto(0, r.mem[c].limit - 1)))

intersectWithMask(r, c, mask) ==
    Seqs!FoldLeft(LAMBDA s, k : KeepInWord(s, c, k, mask), r, Seqs!Reverse(Upto(0, r.mem[c].limit)))

--------------------------------------------------------------------------------
(* TableCT.  mem = [words, limit, size: the sizes the domains had when they   *)
(* were last looked at, support: the rows of each value when it was posted].  *)
(* The residues only say where to look first.                                 *)

(* The entry of a variable is that of its first column.                       *)
LOCAL Column(b, n) == Min({m \in DOMAIN b.x : b.x[m] = b.x[n]})

LOCAL Size(r, b, n) == Cardinality(Dom(r, b.x[n]))

LOCAL Supports(r, c, b, n, v) == r.mem[c].support[Column(b, n)][v]

(* A word emptied by one variable is the end of it.                           *)
updateTable(r, c, b, changed) ==
    Seqs!FoldLeft(LAMBDA s, n : IF n \notin changed \/ s.mem[c].limit = -1 THEN s
                                ELSE intersectWithMask(s, c, UNION {Supports(s, c, b, n, v) : v \in Dom(s, b.x[n])}),
                  r, Upto(1, Len(b.x)))

filterDomains(r, c, b, open) ==
    Seqs!FoldLeft(
        LAMBDA s, n :
            LET lost == {v \in Dom(s, b.x[n]) : Rows(s, c) \cap Supports(s, c, b, n, v) = {}}
                t == RemoveEach(s, b.x[n], lost)
            IN IF n \notin open \/ s.failed THEN s
               ELSE Remember(t, c, [t.mem[c] EXCEPT !.size[Column(b, n)] = Size(t, b, n)]),
        r, Upto(1, Len(b.x)))

TablePropagate(r, i, b) ==
    LET c == i[1]
        N == DOMAIN b.x
        changed == {n \in N : n = Column(b, n) /\ Size(r, b, n) # r.mem[c].size[n]}
        s == Remember(r, c, [r.mem[c] EXCEPT !.size = [n \in N |-> Size(r, b, n)]])
        t == updateTable(s, c, b, changed)
    IN IF t.mem[c].limit = -1 THEN Fail(t)
       ELSE filterDomains(t, c, b, {n \in N : Size(r, b, n) > 1})

(* A value in a hole of the domain is given the rows that do not have it.     *)
LOCAL SupportsAtPost(r, b) ==
    LET rows == 0..(Len(b.k.rows) - 1)
        has(n, v) == {row \in rows : b.k.rows[row + 1][n] = v}
    IN [n \in DOMAIN b.x |-> [v \in Lo(r, b.x[n])..Hi(r, b.x[n]) |->
            IF v \in Dom(r, b.x[n]) THEN has(n, v) ELSE rows \ has(n, v)]]

(* Rows outside the bounds are cleared, once for each variable they are       *)
(* outside of, before the first propagation.                                  *)
TablePost(r, i, b) ==
    LET c == i[1]
        s == Remember(r, c, [r.mem[c] EXCEPT
                 !.size = [n \in DOMAIN b.x |-> Size(r, b, n)],
                 !.support = SupportsAtPost(r, b)])
        outside(row, n) == b.k.rows[row + 1][Column(b, n)] \notin Lo(r, b.x[n])..Hi(r, b.x[n])
        cleared == Seqs!FoldLeft(
            LAMBDA q, row : Seqs!FoldLeft(LAMBDA t, n : IF outside(row, n) THEN clearBit(t, c, b, row) ELSE t,
                                          q, Upto(1, Len(b.x))),
            s, Upto(0, Len(b.k.rows) - 1))
    IN ListenAll(TablePropagate(cleared, i, b), b.x, "onDom", i)

--------------------------------------------------------------------------------
TablesPost(r, i, b) ==
    CASE b.kind = "TableCT" -> TablePost(r, i, b)
      [] b.kind = "Regular" -> r           \* b.inner does all of it
      [] b.kind = "EQc" -> Assign(r, b.x[1], b.k)
      [] b.kind = "NEQc" -> Remove(r, b.x[1], b.k)

TablesPropagate(r, i, b) == IF b.kind = "TableCT" THEN TablePropagate(r, i, b) ELSE r
================================================================================
