------------------------------ MODULE Interval ------------------------------
(***************************************************************************)
(* Interval analysis (struct Interval of nanojit/LIR.h, Interval::of of    *)
(* LIR.cpp): bounds of what an int instruction is worth, from its operands *)
(* to a depth of lim.  Loads of bytes and half-words, which have the       *)
(* bounds of their width, and remainders are left out.                     *)
(***************************************************************************)
EXTENDS LirValues, FiniteSetsExt

Overflow == [over |-> TRUE, lo |-> 0, hi |-> 0]
Bounds(lo, hi) ==
  IF lo < MinOf(IntWidth) \/ MaxOf(IntWidth) < hi
    THEN Overflow ELSE [over |-> FALSE, lo |-> lo, hi |-> hi]
WorstNonOverflow == Bounds(MinOf(IntWidth), MaxOf(IntWidth))

IsSane(x) == ~x.over => x.lo <= x.hi

Both(x, y, r) == IF x.over \/ y.over THEN Overflow ELSE r
AddBounds(x, y) == Both(x, y, Bounds(x.lo + y.lo, x.hi + y.hi))
SubBounds(x, y) == Both(x, y, Bounds(x.lo - y.hi, x.hi - y.lo))

\* Faulty variant: the least product is that of the least factors.
MulBoundsInOrder(x, y) == Both(x, y, Bounds(x.lo * y.lo, x.hi * y.hi))

MulBounds(x, y) ==
  LET products == {x.lo * y.lo, x.lo * y.hi, x.hi * y.lo, x.hi * y.hi}
  IN  Both(x, y, Bounds(Min(products), Max(products)))
Hull(x, y) ==
  Both(x, y, Bounds(Min({x.lo, y.lo}), Max({x.hi, y.hi})))

\* Shifted right by y bits, of which the low ones count, with zeros shifted in.
RshuBounds(x, y) ==
  LET n == y % IntWidth
  IN  IF ~x.over /\ (x.lo >= 0 \/ n > 0) THEN Bounds(0, x.hi \div 2 ^ n)
                                         ELSE WorstNonOverflow
RshBounds(y) ==
  LET n == IntWidth - 1 - (y % IntWidth) IN Bounds(-(2 ^ n), 2 ^ n - 1)

Sums == {"add", "addx"}
Differences == {"sub", "subx"}
Products == {"mul", "mulx"}

\* Interval::of, of instruction j of the sequence s to depth l, where of gives
\* the bounds of the instructions before it.
BoundsOf(s, of, j, l) ==
  LET x == s[j]
      bound(n, d) == of[x.args[n]][d]
      imm(n) == s[x.args[n]].k = "imm"
      const(n) == s[x.args[n]].v
  IN CASE x.k = "imm" -> Bounds(x.v, x.v)
       [] x.k \in Sums /\ l > 0 -> AddBounds(bound(1, l - 1), bound(2, l - 1))
       [] x.k \in Differences /\ l > 0 ->
            SubBounds(bound(1, l - 1), bound(2, l - 1))
       [] x.k = "neg" /\ l > 0 -> SubBounds(Bounds(0, 0), bound(1, l - 1))
       [] x.k \in Products /\ l > 0 -> MulBounds(bound(1, l), bound(2, l))
       [] x.k = "cmov" /\ l > 0 -> Hull(bound(2, l - 1), bound(3, l - 1))
       [] x.k \in Sums \cup Differences \cup Products \cup {"neg", "cmov"}
            /\ l = 0 -> Overflow
       [] x.k = "and" /\ imm(2) /\ const(2) > 0 -> Bounds(0, const(2))
       [] x.k = "rshu" /\ imm(2) /\ l > 0 ->
            RshuBounds(bound(1, l - 1), const(2))
       [] x.k = "rsh" /\ imm(2) -> RshBounds(const(2))
       [] x.k \in Compares -> Bounds(0, 1)
       [] OTHER -> WorstNonOverflow

IntervalOf(s, i, lim) ==
  LET of[j \in DOMAIN s] == [l \in Nat |-> BoundsOf(s, of, j, l)]
  IN  of[i][lim]

=============================================================================
