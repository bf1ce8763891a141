----------------------------- MODULE NativeMIPS -----------------------------
(* The MIPS back end (nanojit/NativeMIPS.cpp) as scripts, with an FPU.     *)
(* The frame is never so large that an access to it needs AT.              *)
EXTENDS Script

GP == {"V0", "A0", "A2", "S0", "T9"}
FPR == {"F0", "F12", "F14"}

\* AT, RA, the multiplier's HI and LO and the condition FCC are not managed.  RA is
\* what a jump to another piece of code goes by.
Machine ==
  [managed |-> GP \cup FPR, fpr |-> FPR,
   order |-> <<"V0", "A0", "A2", "S0", "T9", "F0", "F12", "F14">>,
   saved |-> {"S0"}, savedParam |-> "S0", classes |-> {GP, FPR}, fp |-> "FP",
   remat |-> {"immi", "alloc"}, bases |-> {}, tempKinds |-> {}, tempRegs |-> {},
   stack |-> {}, restoreTrash |-> {}, breakTrash |-> {"RA"},
   fixed |-> {<<"FP", 120>>, <<"RAslot", 121>>, <<"FPslot", 122>>},
   entry |-> {<<"SP", 119>>, <<"RA", 121>>, <<"FP", 122>>}]

asm_li32(r, i) == <<Op(r, i, {<<r, 150>>}), Op(r, 150, {})>>
asm_li(r, i) == <<Either(<<asm_li32(r, i), <<Op(r, i, {})>>>>)>>

\* Halves of a double: none, both the same or each its own in AT.
asm_li_d(r, i) ==
  LET half(h, at) == Op(r, h, {<<r, 101>>, <<"AT", at>>})
      low(at) == <<Op(r, 101, {<<"AT", at>>})>> \o asm_li("AT", at)
  IN <<Either(<<<<Op(r, i, {})>>, <<half(i, 103)>> \o low(103),
               <<half(i, 104)>> \o asm_li("AT", 104) \o low(103)>>)>>

\* An access at base b in rb, with a displacement of 16 bits or with one in AT.
asm_ldst(loc, i, reads, rb, b) ==
  <<Either(<<<<Op(loc, i, reads \cup {<<rb, b>>})>>,
             <<Op(loc, i, reads \cup {<<"AT", 152>>}),
               Op("AT", 152, {<<"AT", 153>>, <<rb, b>>}), Op("AT", 153, {})>>>>)>>

\* LDXC1, SDXC1: the displacement is in AT.
asm_ldst64(loc, i, reads, rb, b) ==
  <<Either(<<asm_ldst(loc, i, reads, rb, b),
             <<Op(loc, i, reads \cup {<<"AT", 152>>, <<rb, b>>})>> \o asm_li("AT", 152)>>)>>

\* To slot loc of value i, or to memory.  Halves that are the same and not zero are
\* left out: see the hazards.
asm_store_imm64(loc, i, rb, b) ==
  LET zero == <<Op(loc, i, {<<rb, b>>})>>
      half(at) == <<Op(loc, i, {<<rb, b>>, <<"AT", at>>})>> \o asm_li("AT", at)
  IN <<Either(<<zero, zero \o half(103), half(103) \o half(104)>>)>>

-----------------------------------------------------------------------------
(* Loads and stores.                                                       *)

asm_load32(i, b) ==
  <<Prep("rres", i, GP), Base("rbase", b, GP, {})>> \o asm_ldst("rres", i, {}, "rbase", b)

asm_store32(v, b) ==
  <<Base2("rt", v, GP, "rbase", b, GP)>> \o asm_ldst("none", 0, {<<"rt", v>>}, "rbase", b)

\* op is "ldd" or "ldf2d".  A result that is in memory only is stored from a
\* temporary.
asm_load64(op, i, b) ==
  <<Find("rn", b, GP, {}),
    If(InReg(i), <<Result("dd", i, FPR, {})>>,
                 <<Mem("m", i), Temp("dd", FPR, {}), Op("m", i, {<<"dd", i>>})>>)>>
  \o (IF op = "ldd" THEN asm_ldst64("dd", i, {}, "rn", b)
      ELSE <<Op("dd", i, {<<"dd", 101>>})>> \o asm_ldst("dd", 101, {}, "rn", b))
  \o <<Free(i)>>

asm_store64(k, op, v, b) ==
  IF op = "std"
    THEN <<Find("rbase", b, GP, {})>> \o
         IF k[v] = "immd" THEN asm_store_imm64("none", 0, "rbase", b)
         ELSE <<Find("fr", v, FPR, {})>> \o asm_ldst64("none", 0, {<<"fr", v>>}, "rbase", b)
    ELSE <<Find("fr", v, FPR, {}), Base("rbase", b, GP, {}), Temp("ft", FPR, {"fr"})>>
           \o asm_ldst("none", 0, {<<"ft", 101>>}, "rbase", b)
           \o <<Op("ft", 101, {<<"fr", v>>})>>

-----------------------------------------------------------------------------
(* Constants, parameters, conversions.                                     *)

asm_immi(i) == <<Prep("rr", i, GP)>> \o asm_li("rr", i)

asm_immd(i) ==
  <<If(InReg(i), <<Prep("rr", i, FPR)>> \o asm_li_d("rr", i),
       <<Mem("m", i), Free(i)>> \o asm_store_imm64("m", i, "FP", 120))>>

\* The caller has put the parameter in r, or in its frame.
asm_param(i, r) == <<Prep("rr", i, {r}), Op(r, i, {})>>
asm_param_stack(i) == <<Prep("rr", i, GP), Op("rr", i, {<<"args", i>>, <<"FP", 120>>})>>

asm_i2d(i, a) ==
  <<Prep("fr", i, FPR), Find("v", a, GP, {}), Op("fr", i, {<<"fr", 101>>}),
    Op("fr", 101, {<<"v", a>>})>>

\* 2^32 is added where the operand is negative as a signed integer.
asm_ui2d(i, a) ==
  <<Prep("fr", i, FPR), Find("v", a, GP, {}), Temp("ft", FPR, {"fr"}),
    Op("fr", i, {<<"fr", 101>>, <<"ft", 103>>}), Op("ft", 103, {<<"AT", 104>>}),
    Op("AT", 104, {}), Op("fr", 101, {<<"ft", a>>}), Reads({<<"v", a>>}),
    Op("ft", a, {<<"v", a>>})>>

\* The operand is truncated where it is; left out is one that is used again.
asm_d2i(i, a) ==
  <<Exclude(InReg(a)), Prep("rr", i, GP), Find("sr", a, FPR, {}),
    Op("rr", i, {<<"sr", 101>>}), Op("sr", 101, {<<"sr", a>>})>>

-----------------------------------------------------------------------------
(* Arithmetic.                                                             *)

\* An operand in no register is put in the register of the result.
OwnReg(a) == <<InRegOr("ra", a, "rr"), Unless(InReg(a), <<Specific(a, "rr")>>)>>

asm_neg_not(i, a) ==
  <<Prep("rr", i, GP)>> \o OwnReg(a) \o <<Op("rr", i, {<<"ra", a>>})>>

asm_neg_abs(i, a) ==
  <<Prep("rr", i, FPR), Find("sr", a, FPR, {}), Op("rr", i, {<<"sr", a>>})>>

asm_fop(i, a, b) ==
  <<Prep("rr", i, FPR), Find("ra", a, FPR, {}),
    IF a = b THEN Let("rb", "ra") ELSE Find("rb", b, FPR, {"ra"}),
    Op("rr", i, {<<"ra", a>>, <<"rb", b>>})>>

\* Where the first operand is overwritten it is kept in t: x is the register that
\* still has it.
Kept(a) == <<If(Same("rr", "ra"), <<Let("x", "t")>>, <<Let("x", "ra")>>)>>
Keep(a) == When(Same("rr", "ra"), <<Op("t", a, {<<"ra", a>>})>>)

\* With a constant.  Overflow is 105, in AT.
asm_arith_imm(op, i, a) ==
  LET result == Op("rr", i, {<<"ra", a>>})
      signs == <<Op("AT", 107, {<<"rr", i>>, <<"x", a>>}), result, Keep(a)>>
      mask(y, v) == Op("AT", 106, {<<"AT", 107>>, <<y, v>>})
      inverted(y, v) == <<mask("t", 108), Op("t", 108, {<<y, v>>})>>
  IN <<Prep("rr", i, GP)>> \o OwnReg(a) \o
     IF op = "alu" THEN <<result>>
     ELSE <<Temp("t", GP, {"rr", "ra"})>> \o Kept(a) \o <<Op("AT", 105, {<<"AT", 106>>}),
            IF op = "add" THEN Either(<<inverted("rr", i), <<mask("rr", i)>>>>)
                          ELSE Either(<<inverted("x", a), <<mask("x", a)>>>>)>> \o signs

asm_arith(op, i, a, b) ==
  LET result == Op("rr", i, {<<"ra", a>>, <<"rb", b>>})
      temp == <<Temp("t", GP, {"rr", "ra", "rb"})>> \o Kept(a)
      masked == <<Op("AT", 105, {<<"AT", 106>>}), Op("AT", 106, {<<"AT", 107>>, <<"t", 108>>})>>
  IN <<Prep("rr", i, GP)>> \o OwnReg(a) \o
     <<IF a = b THEN Let("rb", "ra") ELSE Find("rb", b, GP, {"rr", "ra"})>> \o
     CASE op = "alu" -> <<result>>
       [] op = "add" /\ a # b ->
            temp \o masked \o
            <<Op("t", 108, {<<"rr", i>>, <<"rb", b>>}), Op("AT", 107, {<<"rr", i>>, <<"x", a>>}),
              result, Keep(a)>>
       [] op = "add" /\ a = b ->
            <<Let("x", "ra"), When(Same("rr", "ra"), temp), Op("AT", 105, {<<"AT", 107>>}),
              Op("AT", 107, {<<"rr", i>>, <<"x", a>>}), result, Keep(a)>>
       [] op = "sub" /\ a # b ->
            temp \o masked \o
            <<Op("t", 108, {<<"rr", i>>, <<"x", a>>}), result,
              Op("AT", 107, {<<"ra", a>>, <<"rb", b>>}), Keep(a)>>
       [] op = "sub" /\ a = b -> <<Op("AT", 105, {}), result>>
       [] op = "mul" ->
            temp \o
            <<Op("AT", 105, {<<"AT", 106>>, <<"t", 108>>}), Op("AT", 106, {<<"HI", 109>>}),
              Op("t", 108, {<<"rr", i>>}), Op("rr", i, {<<"LO", 110>>}),
              Op("LO", 110, {<<"ra", a>>, <<"rb", b>>}), Op("HI", 109, {<<"ra", a>>, <<"rb", b>>})>>

-----------------------------------------------------------------------------
(* Comparisons and branches.                                               *)

Operands(allow, a, b) ==
  <<Find("ca", a, allow, {}), IF a = b THEN Let("cb", "ca") ELSE Find("cb", b, allow, {"ca"})>>

\* Token c in register cr, or in FCC.
asm_cmp(allow, cr, a, b, c) ==
  LET reads == {<<"ca", a>>, <<"cb", b>>}
  IN Operands(allow, a, b) \o
     IF allow = FPR THEN <<Op("FCC", c, reads)>>
     ELSE <<Either(<<<<Op(cr, c, reads)>>, <<Op(cr, c, {<<cr, 107>>}), Op(cr, 107, reads)>>>>)>>

asm_cond(i, a, b) == <<Prep("r", i, GP)>> \o asm_cmp(GP, "r", a, b, i)

asm_condd(i, a, b) ==
  <<Prep("r", i, GP), Op("r", i, {<<"r", 101>>, <<"FCC", 102>>}), Op("r", 101, {})>>
    \o asm_cmp(FPR, "r", a, b, 102)

\* The delay slot: the first part of the target's address, in RA or, when it is
\* patched, in AT.
asm_branchtarget == Either(<<<<>>, <<Trash({"RA"})>>, <<Trash({"AT"})>>>>)

asm_bxx(allow, a, b) ==
  LET reads == {<<"ca", a>>, <<"cb", b>>}
      by(cc) == <<Protect(<<asm_branchtarget, Reads({<<cc, 102>>})>>), Op(cc, 102, reads)>>
  IN IF allow = FPR THEN by("FCC")
     ELSE <<Either(<<<<Protect(<<asm_branchtarget, Reads(reads)>>)>>, by("AT")>>)>>

asm_branch(allow, a, b) == Operands(allow, a, b) \o asm_bxx(allow, a, b)

asm_branch_ov == <<Protect(<<asm_branchtarget, Reads({<<"AT", 105>>})>>)>>

\* Left out is a condition of the other class than the values: see the hazards.
asm_cmov(allow, i, a, b, t, f) ==
  LET cc == IF allow = FPR THEN "FCC" ELSE "AT"
      move(rt) == Op("rd", i, {<<rt, t>>, <<"rf", f>>, <<cc, 102>>})
  IN <<Result("rd", i, allow, {}), InRegOr("rt", t, "rd"), InRegOr("rf", f, "rd"),
       IF t = f THEN Let("rf", "rf")
                ELSE When(Same("rt", "rf"), <<Find("rf", f, allow, {"rd"})>>),
       If(Same("rd", "rf"), <<move("rt")>>,
          <<If(Same("rd", "rt"), <<move("rd")>>, <<move("rd"), Op("rd", t, {<<"rt", t>>})>>)>>),
       Free(i),
       If(Same("rt", "rd"), <<Take(t, "rd")>>, <<When(Same("rf", "rd"), <<Take(f, "rd")>>)>>)>>
     \o asm_cmp(allow, "AT", a, b, 102)

-----------------------------------------------------------------------------
(* Calls, entry and exit.                                                  *)

asm_regarg(k, p, r) ==
  LET load == <<Mem("m", p), Op(r, p, IF k[p] = "alloc" THEN {<<"FP", 120>>} ELSE {<<"m", p>>})>>
  IN IF k[p] = "immi" THEN asm_li(r, p)
     ELSE <<If(IsExtant(p),
               <<If(InReg(p), <<InRegOr("rp", p, "rp"), Op(r, p, {<<"rp", p>>})>>, load)>>,
               <<Specific(p, r)>>)>>

\* A double is moved word by word.
asm_stkarg(k, p) ==
  LET word == <<Reads({<<"AT", p>>}),
                Op("AT", p, IF k[p] = "alloc" THEN {<<"FP", 120>>} ELSE {<<"m", p>>})>>
  IN <<If(InReg(p), <<InRegOr("rr", p, "rr"), Reads({<<"rr", p>>})>>,
                    <<Mem("m", p)>> \o IF k[p] \in FpKinds THEN word \o word ELSE word)>>

\* Doubles are in FPU registers as long as there is nothing else before them.
asm_arg_64(k, p, word, alone) ==
  CASE word = 0 -> <<Specific(p, "F12")>>
    [] word = 2 /\ alone -> <<Specific(p, "F14")>>
    [] word = 2 /\ ~alone -> <<Specific(p, "F14"), Op("A2", p, {<<"F14", p>>})>>
    [] OTHER -> asm_stkarg(k, p)

IntArg(word) == <<"A0", "A1", "A2", "A3">>[word + 1]

asm_call(k, i, r, addr, args) ==
  LET after == Words(k, args)
      dbl(n) == k[args[n]] \in FpKinds
      word(n) == IF dbl(n) THEN after[n] - 2 ELSE after[n] - 1
      alone == dbl(1)
      arg(n) == CASE dbl(n) -> asm_arg_64(k, args[n], word(n), alone)
                  [] ~dbl(n) /\ word(n) < 4 -> asm_regarg(k, args[n], IntArg(word(n)))
                  [] OTHER -> asm_stkarg(k, args[n])
      place(n) == CASE ~dbl(n) -> IntArg(word(n)) [] dbl(n) /\ word(n) = 0 -> "F12"
                    [] dbl(n) /\ word(n) # 0 -> IF alone THEN "F14" ELSE "A2"
      reads == {<<place(n), args[n]>> : n \in {m \in DOMAIN args : word(m) < 4}}
      target == IF addr = 0 THEN 103 ELSE addr
  IN (IF i = 0 THEN <<>> ELSE <<Prep("rr", i, {r})>>)
     \o <<EvictScratchExcept({}), IF i = 0 THEN Reads({}) ELSE Op(r, i, {}),
          Trash((GP \ {"S0"}) \cup FPR \cup {"AT", "RA", "HI", "LO", "FCC"}),
          Reads(reads \cup {<<"T9", target>>})>>
     \o (IF addr = 0 THEN asm_li("T9", target) ELSE asm_regarg(k, addr, "T9"))
     \o FlattenSeq([n \in DOMAIN args |-> arg(n)])

\* SP is 119 for the caller, 120 when FP is set; a jump to other code would lose RA.
genPrologue ==
  <<Either(<<<<Op("SP", 123, {<<"SP", 120>>})>>,
             <<Op("SP", 123, {<<"SP", 120>>, <<"AT", 154>>})>> \o asm_li("AT", 154)>>),
    Op("FP", 120, {<<"SP", 120>>}), Op("FPslot", 122, {<<"FP", 122>>, <<"SP", 120>>}),
    Protect(<<Op("RAslot", 121, {<<"RA", 121>>, <<"SP", 120>>}),
              Op("SP", 120, {<<"SP", 119>>})>>)>>

genEpilogue ==
  <<Protect(<<Reads({<<"RA", 121>>, <<"FP", 122>>, <<"SP", 119>>}),
              Op("SP", 119, {<<"SP", 120>>}), Reads({<<"RA", 121>>}),
              Op("RA", 121, {<<"RAslot", 121>>, <<"SP", 120>>})>>),
    Op("FP", 122, {<<"FPslot", 122>>, <<"SP", 120>>}), Op("SP", 120, {<<"FP", 120>>})>>

asm_ret(v, r) ==
  <<Unreached, Reads({<<r, v>>})>> \o genEpilogue \o <<Release, AssignSaved, Specific(v, r)>>

\* A jump to known code; far ones are by way of RA.
asm_j == Either(<<<<>>, <<Reads({<<"RA", 155>>})>> \o asm_li("RA", 155)>>)

\* Where the target is not compiled: to the epilogue, with the guard in V0.
nFragExit ==
  <<Reads({<<"V0", 131>>})>> \o genEpilogue \o
  <<Protect(<<Op("V0", 131, {<<"V0", 150>>}), asm_j, Op("V0", 150, {})>>),
    Op("SP", 120, {<<"FP", 120>>})>>

asm_xcc(allow, a, b) == Exit(nFragExit) \o asm_branch(allow, a, b)

-----------------------------------------------------------------------------
(* Assembler::gen, as for the other back ends.                             *)

DefInt(k, i) ==
  LET Gs == OfKind(k, i - 1, GpKinds)
      Ds == OfKind(k, i - 1, FpKinds)
      Pairs == Gs \X Gs
  IN {asm_load32(i, a) : a \in Gs} \cup {asm_neg_not(i, a) : a \in Gs}
     \cup {asm_arith_imm("alu", i, a) : a \in Gs}
     \cup {asm_branch_ov \o asm_arith_imm(op, i, a) : op \in {"add", "sub"}, a \in Gs}
     \cup {asm_arith("alu", i, p[1], p[2]) : p \in Pairs}
     \cup {asm_branch_ov \o asm_arith(op, i, p[1], p[2]) :
             op \in {"add", "sub", "mul"}, p \in Pairs}
     \cup {asm_cond(i, p[1], p[2]) : p \in Pairs}
     \cup {asm_condd(i, p[1], p[2]) : p \in Ds \X Ds}
     \cup {asm_d2i(i, a) : a \in Ds}
     \cup {asm_cmov(GP, i, 1, p[1], p[1], p[2]) : p \in Pairs}
     \cup {asm_call(k, i, "V0", 0, <<a>>) : a \in Gs}
     \cup {asm_call(k, i, "V0", a, <<1>>) : a \in Gs}
     \cup {asm_param(i, "A0") : x \in {i} \cap {1}}

DefDbl(k, i) ==
  LET Gs == OfKind(k, i - 1, GpKinds)
      Ds == OfKind(k, i - 1, FpKinds)
  IN {asm_load64(op, i, a) : op \in {"ldd", "ldf2d"}, a \in Gs}
     \cup {asm_neg_abs(i, a) : a \in Ds}
     \cup {asm_fop(i, p[1], p[2]) : p \in Ds \X Ds}
     \cup {asm_i2d(i, a) : a \in Gs} \cup {asm_ui2d(i, a) : a \in Gs}
     \cup {asm_cmov(FPR, i, p[1], p[2], p[1], p[2]) : p \in Ds \X Ds}
     \cup {asm_call(k, i, "F0", 0, <<p[2], p[1]>>) : p \in Ds \X Gs}

Defs(k, i) ==
  CASE k[i] = "int" -> DefInt(k, i)
    [] k[i] = "dbl" -> DefDbl(k, i)
    [] k[i] = "immi" -> {asm_immi(i)}
    [] k[i] = "immd" -> {asm_immd(i)}
    [] k[i] = "saved" -> {asm_param(i, "S0")}
    [] k[i] = "arg" -> {asm_param_stack(i)}

Uses(k, n) ==
  LET Gs == OfKind(k, n, GpKinds)
      Ds == OfKind(k, n, FpKinds)
  IN {asm_store32(p[1], p[2]) : p \in Gs \X Gs}
     \cup {asm_store64(k, op, p[1], p[2]) : op \in {"std", "std2f"}, p \in Ds \X Gs}
     \cup {asm_branch(GP, p[1], p[2]) : p \in Gs \X Gs}
     \cup {asm_branch(FPR, p[1], p[2]) : p \in Ds \X Ds}
     \cup {asm_xcc(GP, a, a) : a \in Gs}
     \cup {asm_ret(v, "V0") : v \in Gs} \cup {asm_ret(v, "F0") : v \in Ds}
     \cup {asm_call(k, 0, "V0", 0, <<p[1], p[1], p[2]>>) : p \in Ds \X (Gs \cup Ds)}

=============================================================================
