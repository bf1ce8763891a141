----------------------------- MODULE LirValues ------------------------------
(***************************************************************************)
(* What the instructions of LIR compute: integers of two widths that wrap  *)
(* around, and doubles as far as filters tell them apart: whole numbers,   *)
(* the two zeros, and a value that is not a number.                        *)
(***************************************************************************)
EXTENDS Integers, Sequences

CONSTANTS
  IntWidth,   \* 32, even
  QuadWidth   \* 64

ASSUME WidthAssumption ==
  /\ IntWidth \in Nat /\ IntWidth >= 4 /\ IntWidth % 2 = 0
  /\ QuadWidth \in Nat /\ QuadWidth > IntWidth

Width(ty) == IF ty = "I" THEN IntWidth ELSE QuadWidth
MinOf(w) == -(2 ^ (w - 1))
MaxOf(w) == 2 ^ (w - 1) - 1
InWidth(n, w) == MinOf(w) <= n /\ n <= MaxOf(w)

Unsigned(n, w) == n % 2 ^ w
Wrap(n, w) == IF Unsigned(n, w) > MaxOf(w) THEN Unsigned(n, w) - 2 ^ w
                                           ELSE Unsigned(n, w)
Truth(b) == IF b THEN 1 ELSE 0

-----------------------------------------------------------------------------
(* Doubles.                                                                *)

NaN == [nan |-> TRUE, n |-> 0, neg |-> FALSE]
Num(n) == [nan |-> FALSE, n |-> n, neg |-> n < 0]
NegZero == [nan |-> FALSE, n |-> 0, neg |-> TRUE]

\* A result n whose sign, if it is zero, is neg.
Signed(n, neg) == IF n = 0 /\ neg THEN NegZero ELSE Num(n)
Real2(a, b, r) == IF a.nan \/ b.nan THEN NaN ELSE r

Negd(a) == Real2(a, a, Signed(-a.n, ~a.neg))
Addd(a, b) == Real2(a, b, Signed(a.n + b.n, a.neg /\ b.neg))
Subd(a, b) == Addd(a, Negd(b))
Muld(a, b) == Real2(a, b, Signed(a.n * b.n, a.neg # b.neg))
Absd(a) == IF a.neg THEN Negd(a) ELSE a

\* What an instruction of type ty may be worth.
Values(ty) ==
  IF ty = "D"
    THEN {a \in [nan : BOOLEAN, n : Int, neg : BOOLEAN] :
            a = (IF a.nan THEN NaN ELSE Signed(a.n, a.neg))}
    ELSE MinOf(Width(ty)) .. MaxOf(Width(ty))

\* Equal as numbers: the zeros are, and here a NaN is itself.
SameNumber(a, b) == a.nan = b.nan /\ a.n = b.n

-----------------------------------------------------------------------------
(* Instructions, by kind and by the type of the operand they are named for.*)

Equalities == {"eq"}
Orders == {"lt", "gt", "le", "ge"}
UnsignedOrders == {"ltu", "gtu", "leu", "geu"}
Compares == Equalities \cup Orders \cup UnsignedOrders
Shifts == {"lsh", "rsh", "rshu"}
Conversions == {"i2q", "ui2uq", "q2i", "i2d", "ui2d", "q2d", "d2i"}

Ordered(k, a, b) ==
  CASE k = "eq" -> a = b
    [] k \in {"lt", "ltu"} -> a < b  [] k \in {"gt", "gtu"} -> a > b
    [] k \in {"le", "leu"} -> a <= b [] k \in {"ge", "geu"} -> a >= b

CompareInts(k, w, a, b) ==
  Truth(IF k \in UnsignedOrders
          THEN Ordered(k, Unsigned(a, w), Unsigned(b, w)) ELSE Ordered(k, a, b))
CompareDoubles(k, a, b) == Truth(~a.nan /\ ~b.nan /\ Ordered(k, a.n, b.n))

\* Shift counts use as many bits as there are bits to count.
Shift(k, w, a, by) ==
  LET n == by % w IN
    CASE k = "lsh" -> Wrap(a * 2 ^ n, w)
      [] k = "rsh" -> a \div 2 ^ n
      [] k = "rshu" -> Wrap(Unsigned(a, w) \div 2 ^ n, w)

\* The low w bits of a and b, one by one, through an operation on bits.
BitOf(n, i) == (n \div 2 ^ i) % 2
OnBits(k, p, q) ==
  CASE k = "and" -> p * q [] k = "or" -> p + q - p * q [] k = "xor" -> (p + q) % 2
Bits(k, w, a, b) ==
  LET low[n \in 0..w] ==
        IF n = 0 THEN 0
                 ELSE low[n - 1] + 2 ^ (n - 1) * OnBits(k, BitOf(a, n - 1), BitOf(b, n - 1))
  IN  low[w]

Arith(k, w, a, b) ==
  CASE k = "add" -> Wrap(a + b, w)
    [] k = "sub" -> Wrap(a - b, w)
    [] k = "mul" -> Wrap(a * b, w)
    [] k \in {"and", "or", "xor"} -> Wrap(Bits(k, w, a, b), w)

\* Two operands; a quad is shifted by an int.
Compute2(k, ty, a, b) ==
  CASE ty = "D" /\ k \in Compares -> CompareDoubles(k, a, b)
    [] ty # "D" /\ k \in Compares -> CompareInts(k, Width(ty), a, b)
    [] k \in Shifts -> Shift(k, Width(ty), a, b)
    [] ty = "D" /\ k = "add" -> Addd(a, b)
    [] ty = "D" /\ k = "sub" -> Subd(a, b)
    [] ty = "D" /\ k = "mul" -> Muld(a, b)
    [] OTHER -> Arith(k, Width(ty), a, b)

Compute1(k, ty, a) ==
  CASE k = "neg" -> IF ty = "D" THEN Negd(a) ELSE Wrap(-a, Width(ty))
    [] k = "not" -> -a - 1
    [] k = "abs" -> Absd(a)
    [] k = "i2q" -> a
    [] k = "ui2uq" -> Unsigned(a, IntWidth)
    [] k = "q2i" -> Wrap(a, IntWidth)
    [] k \in {"i2d", "q2d"} -> Num(a)
    [] k = "ui2d" -> Num(Unsigned(a, IntWidth))
    [] k = "d2i" -> Wrap(a.n, IntWidth)

\* The conversion of a double an int cannot hold is undefined.
Defined1(k, a) == k = "d2i" => ~a.nan /\ InWidth(a.n, IntWidth)

\* The operators there are.  Conversions say themselves what they convert.
IsOperator(k, ty) ==
  CASE k \in Equalities \cup Orders \cup Conversions
             \cup {"add", "sub", "mul", "neg", "cmov", "imm", "param"} ->
         ty \in {"I", "Q", "D"}
    [] k \in UnsignedOrders \cup Shifts \cup {"and", "or", "xor", "not"} -> ty \in {"I", "Q"}
    [] k = "abs" -> ty = "D"
    [] k \in {"addx", "subx", "mulx"} -> ty = "I"
    [] k = "ld" -> ty = "Q"
    [] k \in {"x", "j", "xt", "xf", "jt", "jf"} -> ty = "V"
    [] OTHER -> FALSE

RetType(k, ty) ==
  CASE k \in Compares \cup {"q2i", "d2i"} -> "I"
    [] k \in {"i2q", "ui2uq"} -> "Q"
    [] k \in {"i2d", "ui2d", "q2d"} -> "D"
    [] OTHER -> ty

=============================================================================
