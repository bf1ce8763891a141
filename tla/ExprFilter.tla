----------------------------- MODULE ExprFilter -----------------------------
(***************************************************************************)
(* The peephole stage of the writer pipeline (class ExprFilter of nanojit/ *)
(* LIR.cpp): constant folding and algebra, each request answered with an   *)
(* instruction written before or with one or two new ones; the interval    *)
(* analysis of LIR.cpp over what is written; and the types every stage     *)
(* must keep to, as ValidateWriter checks them.                            *)
(*                                                                         *)
(* An instruction is known by its place in ins.  Beside the filter the     *)
(* module keeps what every instruction is worth in every environment, an   *)
(* environment being a choice of values for the parameters.  Ints, quads   *)
(* and doubles are modelled, floats and vectors are not: ExprFilter treats *)
(* floats as it treats doubles.                                            *)
(***************************************************************************)
EXTENDS Interval

CONSTANTS
  Family,       \* which values a front end works with
  Pool(_),      \* what is written when it starts to ask
  Envs(_),      \* the environments: parameter -> value
  Requests(_),  \* what it asks for: [k, ty] of operators
  Offsets,      \* displacements of loads
  SmallOffsets, \* those of them that are isS8
  PointerBits,  \* what the operand of an instruction reads as, taken for a quad
  MaxRequests,  \* bound on the requests
  MaxLim        \* the largest depth intervals are computed to

VARIABLES
  fam, ins,
  val,      \* history: the value of each instruction in each environment
  asked     \* the last request: what it should be worth, and the answer

vars == <<fam, ins, val, asked>>

Imm(v, ty) == [k |-> "imm", ty |-> ty, args |-> <<>>, v |-> v]
Op(k, ty, args) == [k |-> k, ty |-> ty, args |-> args, v |-> 0]

Arg(s, i, n) == s[i].args[n]
Is(s, i, k, ty) == s[i].k = k /\ s[i].ty = ty
IsImm(s, i) == s[i].k = "imm"
IsImmI(s, i) == Is(s, i, "imm", "I")
IsCmp(s, i) == s[i].k \in Compares
TypeOf(s, i) == RetType(s[i].k, s[i].ty)

\* The answers: an instruction of s, a new one, a new constant.
Old(s, i) == [ins |-> s, ret |-> i]
New(s, x) == [ins |-> Append(s, x), ret |-> Len(s) + 1]
InsImm(s, v, ty) == New(s, Imm(v, ty))

-----------------------------------------------------------------------------
(* One operand.                                                            *)

Ins1(s, k, ty, a) ==
  CASE IsImm(s, a) /\ k # "abs" ->
         InsImm(s, Compute1(k, ty, s[a].v), RetType(k, ty))
    [] k = "neg" /\ s[a].k = "sub" ->
         New(s, Op("sub", ty, <<Arg(s, a, 2), Arg(s, a, 1)>>))
    [] k \in {"neg", "not"} /\ s[a].k = k -> Old(s, Arg(s, a, 1))
    [] k = "abs" /\ s[a].k = "abs" -> Old(s, a)
    [] k = "d2i" /\ s[a].k = "i2d" -> Old(s, Arg(s, a, 1))
    \* immQ() is asked of the conversion, not of what it converts.
    [] k = "d2i" /\ s[a].k = "q2d" -> InsImm(s, PointerBits, "I")
    [] OTHER -> New(s, Op(k, ty, <<a>>))

-----------------------------------------------------------------------------
(* Two operands.                                                           *)

FoldEqual(s, k, a) ==
  CASE k \in {"xor", "sub", "ltu", "gtu", "gt", "lt"} -> InsImm(s, 0, "I")
    [] k \in {"le", "leu", "ge", "geu"} -> InsImm(s, 1, "I")
    [] k \in {"or", "and"} -> Old(s, a)
FoldsEqual == (Compares \ {"eq"}) \cup {"xor", "sub", "or", "and"}

\* Sums, differences and products of constants are not folded if they
\* overflow; products of quads are, and differences of quads from 0, which the
\* test for overflow takes for safe.
FoldsConstants(k, ty, x, y) ==
  \/ k \in Compares \cup Shifts \cup {"and", "or", "xor"}
  \/ ty = "D"
  \/ k = "mul" /\ ty = "Q"
  \/ k = "add" /\ InWidth(x + y, Width(ty))
  \/ k = "sub" /\ (InWidth(x - y, Width(ty)) \/ (ty = "Q" /\ x = 0))
  \/ k = "mul" /\ InWidth(x * y, Width(ty))

Commutes == {"eq", "add", "mul", "and", "or", "xor"}

\* invertCmpOpcode
InvertCmp ==
  [lt |-> "gt", gt |-> "lt", le |-> "ge", ge |-> "le",
   ltu |-> "gtu", gtu |-> "ltu", leu |-> "geu", geu |-> "leu"]

\* Faulty variant: the operands change sides and the order stays as it was.
SwappedOnly(s, k, a, b) ==
  IF IsImm(s, a) /\ ~IsImm(s, b) /\ k \in Commutes \cup Compares
    THEN [k |-> k, a |-> b, b |-> a] ELSE [k |-> k, a |-> a, b |-> b]

\* A constant goes to the right if the operator allows it.
Swapped(s, k, a, b) ==
  IF ~IsImm(s, a) \/ IsImm(s, b) THEN [k |-> k, a |-> a, b |-> b]
  ELSE IF k \in Commutes THEN [k |-> k, a |-> b, b |-> a]
  ELSE IF k \in Compares THEN [k |-> InvertCmp[k], a |-> b, b |-> a]
  ELSE [k |-> k, a |-> a, b |-> b]

IsAddOfImm(s, a) == Is(s, a, "add", "I") /\ IsImmI(s, Arg(s, a, 2))

\* add(add(x, c1), c2) is add(x, c1+c2), sub(add(x, c1), c2) is add(x, c1-c2).
Merged(s, k, a, b) ==
  IF k \notin {"add", "sub"} \/ ~IsAddOfImm(s, a)
    THEN [s |-> s, k |-> k, a |-> a, b |-> b]
    ELSE LET c1 == s[Arg(s, a, 2)].v
             c == IF k = "add" THEN c1 + s[b].v ELSE c1 - s[b].v
             r == InsImm(s, Wrap(c, IntWidth), "I")
         IN  [s |-> r.ins, k |-> "add", a |-> Arg(s, a, 1), b |-> r.ret]

Half == IntWidth \div 2
IsS16(n) == -(2 ^ (Half - 1)) <= n /\ n < 2 ^ (Half - 1)

InsIsS16(s, i) ==
  LET is16[j \in DOMAIN s] ==
        IF s[j].k = "cmov" THEN is16[Arg(s, j, 2)] /\ is16[Arg(s, j, 3)]
                           ELSE IsCmp(s, j) \/ (IsImmI(s, j) /\ IsS16(s[j].v))
  IN  is16[i]

\* rsh(lsh(x, 16), 16) is x if x has 16 bits.
SignExtends(s, k, ty, a, b) ==
  /\ k = "rsh" /\ ty = "I" /\ s[b].v = Half
  /\ Is(s, a, "lsh", "I") /\ IsImmI(s, Arg(s, a, 2)) /\ s[Arg(s, a, 2)].v = Half
  /\ InsIsS16(s, Arg(s, a, 1))

IsOrOfNonzero(s, a) ==
  /\ Is(s, a, "or", "I") /\ IsImmI(s, Arg(s, a, 2)) /\ s[Arg(s, a, 2)].v # 0

\* Faulty variant: the zero of the operand's type answers a comparison.
FoldZeroUntyped(s, k, ty, a, b) ==
  CASE k \in Shifts \cup {"add", "or", "xor", "sub"} -> Old(s, a)
    [] k \in {"and", "mul", "ltu"} -> Old(s, b)
    [] OTHER -> New(s, Op(k, ty, <<a, b>>))

FoldZero(s, k, ty, a, b) ==
  CASE k \in Shifts \cup {"add", "or", "xor", "sub"} -> Old(s, a)
    [] k \in {"and", "mul"} -> Old(s, b)
    [] k = "ltu" -> IF ty = "I" THEN Old(s, b) ELSE InsImm(s, 0, "I")
    [] k = "geu" -> InsImm(s, 1, "I")
    [] k = "eq" /\ ty = "I" /\ IsOrOfNonzero(s, a) -> InsImm(s, 0, "I")
    [] OTHER -> New(s, Op(k, ty, <<a, b>>))

FoldMinusOne(s, k, ty, a, b) ==
  CASE k = "or" -> Old(s, b)
    [] k = "and" -> Old(s, a)
    [] k = "gtu" -> InsImm(s, 0, "I")
    [] k = "leu" -> InsImm(s, 1, "I")
    [] OTHER -> New(s, Op(k, ty, <<a, b>>))

FoldOne(s, k, ty, a, b) ==
  CASE IsCmp(s, a) /\ k = "or" -> Old(s, b)
    [] IsCmp(s, a) /\ k = "and" -> Old(s, a)
    [] IsCmp(s, a) /\ k = "gtu" -> InsImm(s, 0, "I")
    [] ~IsCmp(s, a) /\ k = "mul" -> Old(s, a)
    [] OTHER -> New(s, Op(k, ty, <<a, b>>))

FoldBy(c, s, k, ty, a, b) ==
  CASE c = 0 -> FoldZero(s, k, ty, a, b)
    [] c = -1 -> FoldMinusOne(s, k, ty, a, b)
    [] c = 1 -> FoldOne(s, k, ty, a, b)
    [] OTHER -> New(s, Op(k, ty, <<a, b>>))

FoldRhs(s, k, ty, a, b) ==
  IF ~IsImm(s, b) \/ s[b].ty = "D" THEN New(s, Op(k, ty, <<a, b>>))
  ELSE IF SignExtends(s, k, ty, a, b) THEN Old(s, Arg(s, a, 1))
  ELSE IF ty # "I" THEN FoldBy(s[b].v, s, k, ty, a, b)
  ELSE LET m == Merged(s, k, a, b)
       IN  FoldBy(m.s[m.b].v, m.s, m.k, ty, m.a, m.b)

Ins2(s, k, ty, a, b) ==
  IF a = b /\ ty = "I" /\ k \in FoldsEqual THEN FoldEqual(s, k, a)
  ELSE IF /\ IsImm(s, a) /\ IsImm(s, b)
          /\ FoldsConstants(k, ty, s[a].v, s[b].v)
    THEN InsImm(s, Compute2(k, ty, s[a].v, s[b].v), RetType(k, ty))
  ELSE LET t == Swapped(s, k, a, b) IN FoldRhs(s, t.k, ty, t.a, t.b)

-----------------------------------------------------------------------------
(* The rest of the interface.                                              *)

\* cmov: one value whatever the condition, a constant condition, a choice
\* between two values by their equality.
Ins3(s, ty, c, a, b) ==
  CASE a = b -> Old(s, a)
    [] a # b /\ IsImmI(s, c) -> Old(s, IF s[c].v # 0 THEN a ELSE b)
    [] a # b /\ Is(s, c, "eq", "I") /\ {Arg(s, c, 1), Arg(s, c, 2)} = {a, b} ->
         Old(s, b)
    [] OTHER -> New(s, Op("cmov", ty, <<c, a, b>>))

IsEqToZero(s, c) ==
  /\ Is(s, c, "eq", "I") /\ IsCmp(s, Arg(s, c, 1))
  /\ IsImmI(s, Arg(s, c, 2)) /\ s[Arg(s, c, 2)].v = 0

\* xt(eq(cmp, 0)) is xf(cmp), as often as it applies.
Stripped(s, c) ==
  LET strip[i \in DOMAIN s] ==
        IF IsEqToZero(s, i)
          THEN [strip[Arg(s, i, 1)] EXCEPT !.odd = ~@]
          ELSE [c |-> i, odd |-> FALSE]
  IN  strip[c]

InvertCond == [xt |-> "xf", xf |-> "xt", jt |-> "jf", jf |-> "jt"]
OnTrue(k) == k \in {"xt", "jt"}

\* A guard or jump on a condition; 0 stands for no instruction.
Conditional(s, k, always, c) ==
  IF IsImmI(s, c)
    THEN IF OnTrue(k) = (s[c].v = 0) THEN Old(s, 0) ELSE New(s, Op(always, "V", <<>>))
    ELSE LET t == Stripped(s, c)
         IN  New(s, Op(IF t.odd THEN InvertCond[k] ELSE k, "V", <<t.c>>))

InsGuard(s, k, c) == Conditional(s, k, "x", c)
InsBranch(s, k, c) == Conditional(s, k, "j", c)

\* Arithmetic that exits or jumps on overflow.
Exact(k, x, y) ==
  CASE k = "addx" -> x + y [] k = "subx" -> x - y [] k = "mulx" -> x * y

SimplifyOverflowArith(s, k, a, b) ==
  LET fits == /\ IsImmI(s, a) /\ IsImmI(s, b)
              /\ InWidth(Exact(k, s[a].v, s[b].v), IntWidth)
      swap == IsImmI(s, a) /\ ~IsImmI(s, b) /\ k # "subx"
      l == IF swap THEN b ELSE a
      r == IF swap THEN a ELSE b
      by(c) == IsImmI(s, r) /\ s[r].v = c
  IN  CASE fits -> InsImm(s, Exact(k, s[a].v, s[b].v), "I")
        [] ~fits /\ by(0) /\ k # "mulx" -> Old(s, l)
        [] ~fits /\ by(0) /\ k = "mulx" -> Old(s, r)
        [] ~fits /\ by(1) /\ k = "mulx" -> Old(s, l)
        [] OTHER -> New(s, Op(k, "I", <<l, r>>))

\* A load from a constant address, unless the displacement is small.
Ld(base, d) == [k |-> "ld", ty |-> "Q", args |-> <<base>>, v |-> d]
InsLoad(s, base, d) ==
  IF Is(s, base, "imm", "Q") /\ d \notin SmallOffsets
    THEN LET r == InsImm(s, Wrap(s[base].v + d, QuadWidth), "Q")
         IN  New(r.ins, Ld(r.ret, 0))
    ELSE New(s, Ld(base, d))

\* insEqI_0, and insChoose for machines with and without conditional moves.
InsEqI0(s, a) ==
  LET z == InsImm(s, 0, "I") IN Ins2(z.ins, "eq", "I", a, z.ret)

InsChoose(s, c, t, f, useCmov) ==
  LET q == IF IsCmp(s, c) THEN [r |-> Old(s, c), t |-> t, f |-> f]
                          ELSE [r |-> InsEqI0(s, c), t |-> f, f |-> t]
      n == Ins1(q.r.ins, "neg", "I", q.r.ret)
      x == Ins2(n.ins, "and", "I", q.t, n.ret)
      m == Ins1(x.ins, "not", "I", n.ret)
      y == Ins2(m.ins, "and", "I", q.f, m.ret)
  IN  IF useCmov THEN Ins3(q.r.ins, "I", q.r.ret, q.t, q.f)
                 ELSE Ins2(y.ins, "or", "I", x.ret, y.ret)

-----------------------------------------------------------------------------
(* What instructions are worth, and where guards exit.                     *)

Env == Envs(fam)

Value(vals, x, e) ==
  LET arg(n) == vals[x.args[n]][e] IN
    CASE x.k = "imm" -> x.v
      [] x.k = "param" -> e[x.v]
      [] x.k = "ld" -> Wrap(arg(1) + x.v, QuadWidth)   \* where it loads from
      [] x.k = "cmov" -> IF arg(1) # 0 THEN arg(2) ELSE arg(3)
      [] x.k \in {"addx", "subx", "mulx"} ->
           Wrap(Exact(x.k, arg(1), arg(2)), IntWidth)
      [] x.ty = "V" -> 0
      [] x.ty # "V" /\ Len(x.args) = 1 /\ x.k # "ld" -> Compute1(x.k, x.ty, arg(1))
      [] x.k \notin {"addx", "subx", "mulx"} /\ Len(x.args) = 2 ->
           Compute2(x.k, x.ty, arg(1), arg(2))

Exits(vals, x, e) ==
  LET arg(n) == vals[x.args[n]][e] IN
    CASE x.k \in {"x", "j"} -> TRUE
      [] x.k \in {"xt", "jt"} -> arg(1) # 0
      [] x.k \in {"xf", "jf"} -> arg(1) = 0
      [] x.k \in {"addx", "subx", "mulx"} ->
           ~InWidth(Exact(x.k, arg(1), arg(2)), IntWidth)
      [] OTHER -> FALSE

\* The values of the instructions of s, the first of which are known.
ValuesFrom(known, s) ==
  LET vals[i \in DOMAIN s] ==
        IF i \in DOMAIN known THEN known[i]
                              ELSE [e \in Env |-> Value(vals, s[i], e)]
  IN  vals

DefinedFor(x, e) == Len(x.args) = 1 => Defined1(x.k, val[x.args[1]][e])

\* The front end asks for x and is answered with r.
Answer(x, r) ==
  LET defined == {e \in Env : DefinedFor(x, e)}
  IN  /\ ins' = r.ins
      /\ val' = ValuesFrom(val, r.ins)
      /\ asked' = [x |-> x, ret |-> r.ret, new |-> r.ret > Len(ins),
                   want |-> [e \in defined |-> Value(val, x, e)],
                   exits |-> {e \in Env : Exits(val, x, e)},
                   n |-> asked.n + 1]
      /\ UNCHANGED fam

-----------------------------------------------------------------------------
(* Types, as ValidateWriter checks them.                                   *)

\* What each operator takes.
Formals(k, ty) ==
  CASE k \in Conversions -> <<IF k \in {"q2i", "q2d"} THEN "Q"
                              ELSE IF k = "d2i" THEN "D" ELSE "I">>
    [] k \in {"neg", "not", "abs"} -> <<ty>>
    [] k \in Shifts -> <<ty, "I">>
    [] k = "cmov" -> <<"I", ty, ty>>
    [] k = "ld" -> <<"Q">>
    [] k \in {"xt", "xf", "jt", "jf"} -> <<"I">>
    [] k \in {"x", "j", "imm", "param"} -> <<>>
    [] OTHER -> <<ty, ty>>

TypeCheckArgs(s, x) ==
  /\ Len(x.args) = Len(Formals(x.k, x.ty))
  /\ \A n \in DOMAIN x.args : TypeOf(s, x.args[n]) = Formals(x.k, x.ty)[n]

\* Conditions of guards and jumps are comparisons, or constants if they are
\* conditions of conditional moves.
CheckIsACond(s, x) ==
  /\ x.k \in {"xt", "xf", "jt", "jf"} => IsCmp(s, x.args[1])
  /\ x.k = "cmov" => IsCmp(s, x.args[1]) \/ IsImmI(s, x.args[1])

\* There is such an operator, and constants are of their type.
WellFormed(x) ==
  /\ IsOperator(x.k, x.ty)
  /\ x.k = "imm" => x.v \in Values(x.ty)
  /\ x.k = "ld" => x.v \in Int

\* Code as it should be: instructions whose operands were written before them.
WellTyped(s) ==
  /\ s \in Seq({s[i] : i \in DOMAIN s})
  /\ \A i \in DOMAIN s : /\ s[i].args \in Seq(1 .. i - 1)
                         /\ WellFormed(s[i])
                         /\ TypeCheckArgs(s, s[i])
                         /\ CheckIsACond(s, s[i])

ASSUME PoolAssumption ==
  \A f \in Family :
    /\ WellTyped(Pool(f))
    /\ \A i \in DOMAIN Pool(f), e \in Envs(f) :
         Pool(f)[i].k = "param" => e[Pool(f)[i].v] \in Values(Pool(f)[i].ty)

ASSUME RequestAssumption ==
  /\ \A f \in Family : \A q \in Requests(f) :
       q.k = "choose" \/ IsOperator(q.k, q.ty)
  /\ Offsets \subseteq Int /\ PointerBits \in Values("I")

ASSUME LimAssumption == MaxLim \in Nat

-----------------------------------------------------------------------------
(* The requests of a front end.                                            *)

Unary == Conversions \cup {"neg", "not", "abs"}
Binary == Compares \cup Shifts \cup {"add", "sub", "mul", "and", "or", "xor"}

MayAsk == asked.n < MaxRequests

\* Whatever is asked after the first request uses what that one wrote: anything
\* else could have been asked at first, of an instruction or another constant.
Fresh(args) ==
  asked.n > 0 => asked.new /\ asked.ret \in args /\ ~IsImm(ins, asked.ret)
Operands(ty) == {i \in DOMAIN ins : TypeOf(ins, i) = ty}
Conds == {i \in DOMAIN ins : IsCmp(ins, i) \/ IsImmI(ins, i)}

Ask1 ==
  \E q \in Requests(fam) :
    /\ q.k \in Unary
    /\ \E a \in Operands(Formals(q.k, q.ty)[1]) :
         Fresh({a}) /\ Answer(Op(q.k, q.ty, <<a>>), Ins1(ins, q.k, q.ty, a))

Ask2 ==
  \E q \in Requests(fam) :
    /\ q.k \in Binary
    /\ \E a \in Operands(Formals(q.k, q.ty)[1]),
          b \in Operands(Formals(q.k, q.ty)[2]) :
         /\ Fresh({a, b})
         /\ Answer(Op(q.k, q.ty, <<a, b>>), Ins2(ins, q.k, q.ty, a, b))

AskCmov ==
  \E q \in Requests(fam) : \E c \in Conds, a, b \in Operands(q.ty) :
    /\ q.k = "cmov" /\ Fresh({c, a, b})
    /\ Answer(Op("cmov", q.ty, <<c, a, b>>), Ins3(ins, q.ty, c, a, b))

AskGuard ==
  \E q \in Requests(fam) : \E c \in Conds :
    /\ q.k \in {"xt", "xf"} /\ Fresh({c})
    /\ Answer(Op(q.k, "V", <<c>>), InsGuard(ins, q.k, c))

AskBranch ==
  \E q \in Requests(fam) : \E c \in Conds :
    /\ q.k \in {"jt", "jf"} /\ Fresh({c})
    /\ Answer(Op(q.k, "V", <<c>>), InsBranch(ins, q.k, c))

AskOverflowing ==
  \E q \in Requests(fam) : \E a, b \in Operands("I") :
    /\ q.k \in {"addx", "subx", "mulx"} /\ Fresh({a, b})
    /\ Answer(Op(q.k, "I", <<a, b>>), SimplifyOverflowArith(ins, q.k, a, b))

AskLoad ==
  \E base \in Operands("Q") : \E d \in Offsets :
    /\ Fresh({base})
    /\ Answer(Ld(base, d), InsLoad(ins, base, d))

\* insChoose is asked for what a conditional move would be worth.
AskChoose ==
  \E q \in Requests(fam) : \E c \in Conds, a, b \in Operands("I") :
  \E useCmov \in BOOLEAN :
    /\ q.k = "choose" /\ Fresh({c, a, b})
    /\ IsImmI(ins, c) => ins[c].v \in {0, 1}
    /\ Answer(Op("cmov", "I", <<c, a, b>>), InsChoose(ins, c, a, b, useCmov))

Ask == Ask1 \/ Ask2 \/ AskCmov \/ AskGuard \/ AskBranch \/ AskOverflowing
       \/ AskLoad \/ AskChoose

NoRequest == [x |-> Op("x", "V", <<>>), ret |-> 0, new |-> FALSE,
              want |-> << >>, exits |-> {}, n |-> 0]

Init ==
  /\ fam \in Family
  /\ ins = Pool(fam)
  /\ val = ValuesFrom(<<>>, ins)
  /\ asked = NoRequest

Next == MayAsk /\ Ask
Spec == Init /\ [][Next]_vars

-----------------------------------------------------------------------------
Same(ty, a, b) == IF ty = "D" THEN SameNumber(a, b) ELSE a = b

\* ExprFilter, insChoose: whatever way a request is simplified, in every
\* environment the answer is worth what was asked for, and exits or jumps
\* where it should.  Doubles are compared as numbers: -(x-x) becomes x-x,
\* which has the other zero.
AnswerExact ==
  asked.n > 0 =>
    LET x == asked.x IN
      /\ x.ty # "V" => \A e \in DOMAIN asked.want :
           Same(RetType(x.k, x.ty), val[asked.ret][e], asked.want[e])
      /\ asked.exits = {e \in Env : /\ asked.new
                                    /\ Exits(val, ins[asked.ret], e)}

\* ValidateWriter after ExprFilter: what is written takes operands of the
\* types it should, conditions where conditions are wanted, and the answer has
\* the type of what was asked for.
AnswerWellTyped ==
  /\ \A i \in DOMAIN ins : /\ TypeCheckArgs(ins, ins[i])
                           /\ CheckIsACond(ins, ins[i])
  /\ asked.n > 0 /\ asked.x.ty # "V" =>
       TypeOf(ins, asked.ret) = RetType(asked.x.k, asked.x.ty)

\* Interval::of gives bounds of what an instruction is worth, whatever the
\* depth.
IntervalHolds ==
  LET x(l) == IntervalOf(ins, asked.ret, l)
  IN  asked.new /\ asked.x.ty = "I" /\ RetType(asked.x.k, "I") = "I" =>
        \A l \in 0..MaxLim :
          /\ IsSane(x(l))
          /\ ~x(l).over => \A e \in Env : /\ x(l).lo <= val[asked.ret][e]
                                         /\ val[asked.ret][e] <= x(l).hi

\* An unsigned shift to the right by a constant of at least one bit.  Of any of
\* these Interval::of takes the upper bound shifted, which is not the greatest
\* value if what is shifted can be negative.
ShiftsAway(s, i) ==
  /\ Is(s, i, "rshu", "I") /\ IsImm(s, Arg(s, i, 2))
  /\ s[Arg(s, i, 2)].v % IntWidth > 0

\* The same, where none of those is of what may be negative.
IntervalSound ==
  (\A i \in DOMAIN ins :
     ShiftsAway(ins, i) => IntervalOf(ins, Arg(ins, i, 1), MaxLim).lo >= 0)
  => IntervalHolds

=============================================================================
