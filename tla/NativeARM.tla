----------------------------- MODULE NativeARM -----------------------------
(***************************************************************************)
(* The ARM back end (nanojit/NativeARM.cpp) as scripts, with VFP.  Each    *)
(* floating-point value has a quad register of its own: single ones and    *)
(* what SFPR stands for are in the low half of the bank.                   *)
(***************************************************************************)
EXTENDS Script

GP == {"R0", "R1", "R4", "LR"}
FPR == {"Q0", "Q1", "Q8"}
SFPR == {"Q0", "Q1"}

\* IP and the flags, CC and FPSCR, are not managed.
Machine ==
  [managed |-> GP \cup FPR, fpr |-> FPR,
   order |-> <<"R0", "R1", "R4", "LR", "Q0", "Q1", "Q8">>,
   saved |-> {"R4"}, savedParam |-> "R4", classes |-> {GP, FPR}, fp |-> "FP",
   remat |-> {"immi", "alloc", "lea"}, bases |-> GP, tempKinds |-> {}, tempRegs |-> {},
   stack |-> {}, restoreTrash |-> {"IP"}, breakTrash |-> {},
   fixed |-> {<<"FP", 120>>, <<"SP", 123>>, <<"LRslot", 121>>, <<"FPslot", 122>>},
   entry |-> {<<"SP", 119>>, <<"LR", 121>>, <<"FP", 122>>}]

asm_ld_imm(r, i) == <<Op(r, i, {})>>

\* asm_sub_imm, asm_and_imm, asm_orr_imm and asm_eor_imm are the same.  Overflow is
\* 105, in the flags.
asm_add_imm(rd, i, rn, a, stat) ==
  LET set(reads) == <<Op(rd, i, reads)>> \o (IF stat THEN <<Op("CC", 105, reads)>> ELSE <<>>)
  IN <<Either(<<set({<<rn, a>>}),
               set({<<rn, a>>, <<"IP", 153>>}) \o asm_ld_imm("IP", 153)>>)>>

\* An access at base b in rb, with a displacement that fits or with the address in IP.
Access(loc, i, reads, rb, b) ==
  <<Either(<<<<Op(loc, i, reads \cup {<<rb, b>>})>>,
             <<Op(loc, i, reads \cup {<<"IP", 152>>})>>
               \o asm_add_imm("IP", 152, rb, b, FALSE)>>)>>

\* asm_str.
asm_str(i, reads) == Access("none", 0, reads, "SP", 123)

-----------------------------------------------------------------------------
(* Loads and stores.                                                       *)

asm_load32(i, b) ==
  <<Result("rt", i, GP, {}), InRegOr("rn", b, "rt")>> \o Access("rt", i, {}, "rn", b)
    \o <<Free(i), Take(b, "rt")>>

asm_store32(v, b) ==
  <<Base2("ra", v, GP, "rb", b, GP)>> \o Access("none", 0, {<<"ra", v>>}, "rb", b)

\* op is "ldd" or "ldf2d".  A result that is in memory only goes through Q0.
asm_load64(op, i, b) ==
  <<Find("rn", b, GP, {}),
    If(InReg(i), <<Result("dd", i, FPR, {"Q0"})>>,
       <<Mem("m", i), EvictActive("Q0"), Let("dd", "Q0")>>
         \o Access("m", i, {<<"dd", i>>}, "FP", 120))>>
  \o (IF op = "ldd" THEN Access("dd", i, {}, "rn", b)
      ELSE <<EvictActive("Q0"), Op("dd", i, {<<"Q0", 101>>})>> \o Access("Q0", 101, {}, "rn", b))
  \o <<Free(i)>>

asm_load128(i, b) ==
  <<Find("rn", b, GP, {}), Result("qd", i, FPR, {}), Op("qd", i, {<<"IP", 101>>})>>
    \o asm_add_imm("IP", 101, "rn", b, FALSE) \o <<Free(i)>>

asm_store64(op, v, b) ==
  <<Find("rn", b, GP, {}), Find("dd", v, FPR, {})>> \o
  IF op = "std" THEN Access("none", 0, {<<"dd", v>>}, "rn", b)
  ELSE <<Temp("tmp", SFPR, {})>> \o Access("none", 0, {<<"tmp", 101>>}, "rn", b)
         \o <<Op("tmp", 101, {<<"dd", v>>})>>

asm_store128(v, b) ==
  <<Find("rn", b, GP, {}), Find("qd", v, FPR, {}), Reads({<<"qd", v>>, <<"IP", 101>>})>>
    \o asm_add_imm("IP", 101, "rn", b, FALSE)

-----------------------------------------------------------------------------
(* Constants, parameters, conversions.                                     *)

asm_immi(i) == <<Result("rd", i, GP, {})>> \o asm_ld_imm("rd", i) \o <<Free(i)>>

\* From the instruction stream, or word by word to the slot.
asm_immd(i) ==
  <<If(InReg(i), <<Result("dd", i, FPR, {}), Protect(<<Op("dd", i, {})>>)>>,
       <<Mem("m", i), Op("m", i, {<<"m", 101>>, <<"IP", 102>>})>> \o asm_ld_imm("IP", 102)
         \o <<Op("m", 101, {<<"IP", 101>>})>> \o asm_ld_imm("IP", 101)),
    Free(i)>>

asm_immf(i) ==
  <<If(InReg(i), <<Result("dd", i, SFPR, {}), Protect(<<Op("dd", i, {})>>)>>,
       <<Mem("m", i), Op("m", i, {<<"IP", 101>>})>> \o asm_ld_imm("IP", 101)),
    Free(i)>>

\* Four words to the slot, one after the other by way of IP.
Words4(i) ==
  LET word(n, v) == <<Op("m", v, {<<"m", n>>, <<"IP", n>>})>> \o asm_ld_imm("IP", n)
  IN <<Mem("m", i)>> \o word(101, i) \o word(102, 101) \o word(103, 102)
       \o <<Op("m", 103, {<<"IP", 104>>})>> \o asm_ld_imm("IP", 104)

\* The one in the instruction stream by way of IP.
asm_immf4(i) ==
  <<If(InReg(i), <<Result("dd", i, FPR, {}), Op("dd", i, {<<"IP", 101>>}),
                   Protect(<<Op("IP", 101, {})>>)>>, Words4(i)),
    Free(i)>>

\* The caller has put the parameter in r, or in its frame.
asm_param(i, r) == <<Result("rr", i, {r}, {}), Op(r, i, {}), Free(i)>>
asm_param_stack(i) ==
  <<Result("r", i, GP, {}), Op("r", i, {<<"args", i>>, <<"FP", 120>>}), Free(i)>>

\* asm_ui2d is the same; asm_i2f and asm_ui2f take the operand before the temporary.
asm_i2d(i, a) ==
  <<Result("dd", i, FPR, {}), Temp("tmp", SFPR, {"dd"}), Find("rt", a, GP, {}),
    Op("dd", i, {<<"tmp", a>>}), Op("tmp", a, {<<"rt", a>>}), Free(i)>>

asm_i2f(i, a) ==
  <<Result("dd", i, SFPR, {}), Find("rt", a, GP, {}), Temp("tmp", SFPR, {"dd"}),
    Op("dd", i, {<<"tmp", a>>}), Op("tmp", a, {<<"rt", a>>}), Free(i)>>

\* A result in a register is not stored in its slot: left out is one that has both,
\* see the hazards.
asm_d2i(i, a) ==
  <<When(InReg(i), <<Exclude(InAr(i))>>), Temp("tmp", SFPR, {}),
    If(InReg(i), <<InRegOr("rt", i, "rt"), Op("rt", i, {<<"tmp", 101>>})>>,
                 <<Mem("m", i)>> \o Access("m", i, {<<"tmp", 101>>}, "FP", 120)),
    Find("dm", a, FPR, {"tmp"}), Op("tmp", 101, {<<"dm", a>>}), Free(i)>>

asm_f2i(i, a) ==
  <<Result("rt", i, GP, {}), Find("dd", a, SFPR, {}), Temp("tmp", SFPR, {"dd"}),
    Op("rt", i, {<<"tmp", 101>>}), Op("tmp", 101, {<<"dd", a>>}), Free(i)>>

\* asm_f2d, asm_d2f, asm_f2f4 and, of float4 values, asm_f4comp.
Convert(to, i, from, a) ==
  <<Result("rd", i, to, {}), Find("rs", a, from, {}), Op("rd", i, {<<"rs", a>>}), Free(i)>>
asm_f2d(i, a) == Convert(FPR, i, SFPR, a)
asm_d2f(i, a) == Convert(SFPR, i, FPR, a)
asm_f2f4(i, a) == Convert(FPR, i, SFPR, a)

\* LIR_f4x to LIR_f4w; LIR_swzf4 copies the components one after the other.
asm_f4comp(swizzle, i, a) ==
  IF ~swizzle THEN Convert(SFPR, i, SFPR, a)
  ELSE <<Result("rd", i, SFPR, {}), Find("rs", a, SFPR, {"rd"}),
         Op("rd", i, {<<"rd", 101>>, <<"rs", a>>}), Op("rd", 101, {<<"rd", 102>>, <<"rs", a>>}),
         Op("rd", 102, {<<"rd", 103>>, <<"rs", a>>}), Op("rd", 103, {<<"rs", a>>}), Free(i)>>

asm_ffff2f4(i, a, b, c, d) ==
  LET component(x, v, reads) == <<Find("r", x, SFPR, {"qd"}), Op("qd", v, {<<"r", x>>} \cup reads)>>
      after(n) == {<<"qd", n>>}
  IN <<Result("qd", i, SFPR, {})>> \o component(a, i, after(101)) \o component(b, 101, after(102))
       \o component(c, 102, after(103)) \o component(d, 103, {}) \o <<Free(i)>>

-----------------------------------------------------------------------------
(* Arithmetic.  An operand in no register is put in that of the result.    *)

Reuse(ra, a, rb, b, r) ==
  If(Same(ra, r), <<Take(a, r)>>, <<When(Same(rb, r), <<Take(b, r)>>)>>)

asm_neg_not(i, a) ==
  <<Result("rr", i, GP, {}), InRegOr("ra", a, "rr"),
    Either(<<<<Op("rr", i, {<<"ra", a>>})>>, <<Trash({"CC"}), Op("rr", i, {<<"ra", a>>})>>>>),
    Free(i), Take(a, "rr")>>

asm_neg_abs(i, a) ==
  <<Result("dd", i, FPR, {}), InRegOr("dm", a, "dd"), Op("dd", i, {<<"dm", a>>}), Free(i),
    Take(a, "dd")>>

asm_fop(i, a, b) ==
  <<Result("dd", i, FPR, {}), InRegOr("dn", a, "dd"), InRegOr("dm", b, "dd")>>
    \o (IF a = b THEN <<>> ELSE <<When(Same("dn", "dm"), <<Find("dm", b, FPR, {"dd"})>>)>>)
    \o <<Op("dd", i, {<<"dn", a>>, <<"dm", b>>}), Free(i), Reuse("dn", a, "dm", b, "dd")>>

\* LIR_divf4, of quad registers in the low half: an operand in the other half is
\* moved to the register of the result, or to another one.
asm_divf4(i, a, b) ==
  LET High(x, r, then) == When(InReg(x), <<Unless(OneOf(r, SFPR), then)>>)
      Moved(r, x) == When(Same(r, "dd"), <<Specific(x, "dd")>>)
  IN <<Result("dd", i, SFPR, {}), InRegOr("dn", a, "dd"), InRegOr("dm", b, "dd"),
       High(a, "dn", <<If(InReg(b), <<Let("dn", "dd")>>, <<Find("dn", a, SFPR, {"dd"})>>)>>)>>
     \o (IF a = b THEN <<Let("dm", "dn")>>
         ELSE <<High(b, "dm", <<If(Same("dn", "dd"), <<Find("dm", b, SFPR, {"dd", "dn"})>>,
                                                    <<Let("dm", "dd")>>)>>),
                When(Same("dn", "dm"), <<Find("dm", b, SFPR, {"dd"})>>)>>)
     \o <<Op("dd", i, {<<"dn", a>>, <<"dm", b>>}), Free(i),
          If(Same("dn", "dd"), <<Moved("dn", a)>>, <<Moved("dm", b)>>)>>

asm_arith_imm(ov, i, a) ==
  <<Result("rd", i, GP, {}), InRegOr("rn", a, "rd")>> \o asm_add_imm("rd", i, "rn", a, ov)
    \o <<Free(i), Take(a, "rd")>>

\* op is "alu", "shift", "mul" or, when overflow is asked for, "ov", "mulov".  Before
\* ARMv6 the result and the first factor have different registers.
asm_arith(op, i, a, b) ==
  LET reads == {<<"rn", a>>, <<"rm", b>>}
      apart == When(Same("rd", "rn"),
                    <<Find("rn", a, GP, {"rd", "rm"})>> \o IF a = b THEN <<Let("rm", "rn")>> ELSE <<>>)
  IN <<Result("rd", i, GP, {}), InRegOr("rn", a, "rd"), InRegOr("rm", b, "rd")>>
     \o (IF a = b THEN <<>> ELSE <<When(Same("rn", "rm"), <<Find("rn", a, GP, {"rd"})>>)>>)
     \o (IF op \in {"mul", "mulov"} THEN <<Either(<<<<>>, <<apart>>>>)>> ELSE <<>>)
     \o (CASE op \in {"alu", "mul"} -> <<Op("rd", i, reads)>>
           [] op = "ov" -> <<Op("rd", i, reads), Op("CC", 105, reads)>>
           [] op = "shift" -> <<Op("rd", i, {<<"rn", a>>, <<"IP", 101>>}), Op("IP", 101, {<<"rm", b>>})>>
           [] op = "mulov" -> <<Op("CC", 105, {<<"IP", 106>>, <<"rd", i>>}), Op("rd", i, reads),
                                Op("IP", 106, reads)>>)
     \o <<Free(i), Reuse("rn", a, "rm", b, "rd")>>

-----------------------------------------------------------------------------
(* Comparisons and branches.                                               *)

asm_cmpi(r, a, c) ==
  <<Either(<<<<Op("CC", c, {<<r, a>>})>>,
             <<Protect(<<Op("CC", c, {<<r, a>>, <<"IP", 107>>})>> \o asm_ld_imm("IP", 107))>>>>)>>

asm_cmpd(a, b, c) ==
  <<Find2("ra", a, FPR, "rb", b, FPR), Op("CC", c, {<<"FPSCR", 107>>}),
    Op("FPSCR", 107, {<<"ra", a>>, <<"rb", b>>})>>

\* Both halves of the result of VCEQ are in tmp, then one of them.
asm_cmpf4(a, b, c) ==
  <<Op("CC", c, {<<"FPSCR", 107>>}), Temp("tmp", FPR, {}), Op("FPSCR", 107, {<<"tmp", 108>>}),
    Op("tmp", 108, {<<"tmp", 109>>}), Op("tmp", 109, {<<"tmp", 110>>}),
    Find2Except("ra", a, "rb", b, FPR, {"tmp"}), Op("tmp", 110, {<<"ra", a>>, <<"rb", b>>})>>

\* op is "imm", "int", "d" or "f4"; token c in the flags.
asm_cmp(op, a, b, c) ==
  CASE op = "imm" -> <<Find("r", a, GP, {})>> \o asm_cmpi("r", a, c)
    [] op = "int" -> <<Find2("ra", a, GP, "rb", b, GP), Op("CC", c, {<<"ra", a>>, <<"rb", b>>})>>
    [] op = "d" -> asm_cmpd(a, b, c)
    [] op = "f4" -> asm_cmpf4(a, b, c)

asm_cond(op, i, a, b) ==
  <<Result("rd", i, GP, {}), Op("rd", i, {<<"CC", 102>>}), Free(i)>> \o asm_cmp(op, a, b, 102)
asm_condd(i, a, b) ==
  <<Result("rd", i, GP, {}), Op("rd", i, {<<"CC", 102>>}), Free(i)>> \o asm_cmpd(a, b, 102)
asm_condf4(i, a, b) ==
  <<Result("rd", i, GP, {}), Op("rd", i, {<<"CC", 102>>}), Free(i)>> \o asm_cmpf4(a, b, 102)

asm_branch(op, a, b) == <<Reads({<<"CC", 102>>})>> \o asm_cmp(op, a, b, 102)
asm_branch_ov == <<Reads({<<"CC", 105>>})>>

asm_cmov(regs, op, i, a, b, t, f) ==
  LET move(r, v, was) == Unless(Same("rd", r), <<Op("rd", v, {<<r, was>>, <<"CC", 102>>})>>)
  IN <<Result("rd", i, regs, {}), InRegOr("rt", t, "rd"), InRegOr("rf", f, "rd")>>
     \o (IF t = f THEN <<>> ELSE <<When(Same("rt", "rf"), <<Find("rf", f, regs, {"rd"})>>)>>)
     \o <<If(Same("rd", "rf"),
             <<Op("rd", i, {<<"rd", f>>, <<"rt", t>>, <<"CC", 102>>})>>,
             <<Op("rd", i, {<<"rf", f>>, <<"rd", t>>, <<"CC", 102>>}), move("rt", t, t)>>),
          Free(i), Reuse("rt", t, "rf", f, "rd")>>
     \o asm_cmp(op, a, b, 102)

-----------------------------------------------------------------------------
(* Calls, entry and exit.                                                  *)

asm_regarg(k, p, r) ==
  IF k[p] = "immi" THEN asm_ld_imm(r, p)
  ELSE <<If(InReg(p), <<InRegOr("rp", p, "rp"), Op(r, p, {<<"rp", p>>})>>, <<Take(p, r)>>)>>

asm_stkarg(k, p) ==
  IF k[p] \in GpKinds THEN <<Find("rt", p, GP, {})>> \o asm_str(p, {<<"rt", p>>})
  ELSE <<Find("dt", p, FPR, {})>> \o asm_str(p, {<<"dt", p>>})

\* A double in two registers of the other kind.
asm_arg_float(p, ra, rb) ==
  <<Find("dm", p, FPR, {}), Op(ra, p, {<<"dm", p>>}), Op(rb, p, {<<"dm", p>>})>>

ArgReg(word) == <<"R0", "R1", "R2", "R3">>[word + 1]

\* The arguments of a call where floating-point values are passed in general
\* registers, and where they are not (hard).
asm_arg(k, hard, args) ==
  LET after == Words(k, args)
      dbl(n) == k[args[n]] \in FpKinds
      word(n) == after[n] - (IF dbl(n) THEN 2 ELSE 1)
      at == ArgLocs(k, args, <<"R0", "R1", "R2", "R3">>, <<"Q0", "Q1">>)
      soft(n) == CASE word(n) > 3 -> {}
                   [] word(n) <= 3 /\ dbl(n) -> {ArgReg(word(n)), ArgReg(word(n) + 1)}
                   [] OTHER -> {ArgReg(word(n))}
      place(n) == IF hard THEN {at[n][1]} ELSE soft(n)
      script(n) ==
        CASE place(n) = {} -> asm_stkarg(k, args[n])
          [] place(n) # {} /\ dbl(n) /\ hard -> <<Specific(args[n], at[n][1])>>
          [] place(n) # {} /\ dbl(n) /\ ~hard ->
               asm_arg_float(args[n], ArgReg(word(n)), ArgReg(word(n) + 1))
          [] OTHER -> asm_regarg(k, args[n], CHOOSE r \in place(n) : TRUE)
  IN [reads |-> UNION {place(n) \X {args[n]} : n \in DOMAIN args},
      script |-> FlattenSeq([n \in DOMAIN args |-> script(n)])]

BranchWithLink(reads) ==
  <<Either(<<<<Reads(reads)>>,
            <<Protect(<<Reads(reads \cup {<<"IP", 103>>})>> \o asm_ld_imm("IP", 103))>>>>)>>

\* BLX, or BX by way of IP.
BLX(addr, reads) ==
  <<Either(<<<<Reads(reads \cup {<<"LR", addr>>})>>,
            <<Protect(<<Reads(reads \cup {<<"IP", addr>>}), Trash({"LR"}),
                        Op("IP", addr, {<<"LR", addr>>})>>)>>>>)>>

\* The result, if any (i # 0), is in R0, in Q0 or, of two words, in R0 and R1.
CallResult(k, i, hard) ==
  LET words == i # 0 /\ k[i] \in FpKinds /\ ~hard
      r == IF k[i] \in FpKinds THEN "Q0" ELSE "R0"
      pair == {<<"R0", 101>>, <<"R1", 102>>}
  IN (CASE i = 0 -> <<EvictScratchExcept({})>>
        [] i # 0 /\ ~words -> <<Result("rr", i, {r}, {}), Free(i), EvictScratchExcept({}), Op(r, i, {})>>
        [] i # 0 /\ words ->
             <<When(InReg(i), <<Result("dd", i, FPR, {})>>), EvictScratchExcept({"dd"}),
               If(InReg(i), <<Op("dd", i, pair), Free(i)>>,
                  <<Mem("m", i), Free(i), Op("m", i, {<<"R0", 101>>, <<"m", 102>>}),
                    Op("m", 102, {<<"R1", 102>>})>>),
               Op("R0", 101, {}), Op("R1", 102, {})>>)
     \o <<Trash({"R0", "R1", "R2", "R3", "LR", "IP", "CC", "FPSCR"} \cup FPR)>>

asm_call(k, i, hard, addr, args) ==
  LET arg == asm_arg(k, hard, args)
  IN CallResult(k, i, hard)
     \o (IF addr = 0 THEN BranchWithLink(arg.reads)
                     ELSE BLX(addr, arg.reads) \o asm_regarg(k, addr, "LR"))
     \o arg.script

genPrologue ==
  asm_add_imm("SP", 123, "SP", 120, FALSE) \o
  <<Op("FP", 120, {<<"SP", 120>>}), Op("SP", 120, {<<"SP", 119>>}),
    Op("FPslot", 122, {<<"FP", 122>>, <<"SP", 119>>}),
    Op("LRslot", 121, {<<"LR", 121>>, <<"SP", 119>>})>>

\* What is returned, v, is in IP and not in R0: the exits may be patched.
genEpilogue(v) ==
  <<Reads({<<"R0", v>>, <<"FP", 122>>, <<"SP", 119>>}), Op("SP", 119, {<<"SP", 120>>}),
    Op("FP", 122, {<<"FPslot", 122>>, <<"SP", 120>>}), Reads({<<"LRslot", 121>>, <<"SP", 120>>}),
    Op("R0", v, {<<"IP", v>>})>>

\* A double is in Q0 (hard), or in R0 and R1.
asm_ret(k, v, hard) ==
  LET frame == <<Op("SP", 120, {<<"FP", 120>>}), Release, AssignSaved>>
      dbl == k[v] \in FpKinds
  IN <<Unreached>> \o
     CASE dbl /\ hard -> <<Reads({<<"Q0", v>>})>> \o SubSeq(genEpilogue(v), 2, 4) \o
                         <<Trash({"R0"})>> \o frame \o <<Specific(v, "Q0")>>
       [] dbl /\ ~hard -> <<Reads({<<"R1", v>>})>> \o genEpilogue(v) \o
                          <<Op("IP", v, {<<"R0", v>>})>> \o frame \o asm_arg_float(v, "R0", "R1")
       [] ~dbl -> genEpilogue(v) \o <<Op("IP", v, {<<"R0", v>>})>> \o frame \o <<Specific(v, "R0")>>

\* Where the target is not compiled: to the epilogue, with the guard in IP.
nFragExit == genEpilogue(131) \o asm_ld_imm("IP", 131) \o <<Op("SP", 120, {<<"FP", 120>>})>>

asm_xcc(op, a, b) == Exit(nFragExit) \o asm_branch(op, a, b)

\* Assembler::gen, LIR_jtbl: the index is in a register when the jump is made.
asm_jtbl(v) ==
  <<Unreached, Release, Find("indexreg", v, GP, {}), Temp("tmp", GP, {"indexreg"}),
    Reads({<<"tmp", 101>>, <<"indexreg", v>>})>> \o asm_ld_imm("tmp", 101)

-----------------------------------------------------------------------------
(* Assembler::gen, as for the other back ends.                             *)

DefInt(k, i) ==
  LET Gs == OfKind(k, i - 1, GpKinds)
      Ds == OfKind(k, i - 1, FpKinds)
      Pairs == Gs \X Gs
  IN {asm_load32(i, a) : a \in Gs} \cup {asm_neg_not(i, a) : a \in Gs}
     \cup {asm_arith_imm(FALSE, i, a) : a \in Gs}
     \cup {asm_branch_ov \o asm_arith_imm(TRUE, i, a) : a \in Gs}
     \cup {asm_arith(op, i, p[1], p[2]) : op \in {"alu", "shift", "mul"}, p \in Pairs}
     \cup {asm_branch_ov \o asm_arith(op, i, p[1], p[2]) : op \in {"ov", "mulov"}, p \in Pairs}
     \cup {asm_cond(op, i, p[1], p[2]) : op \in {"imm", "int"}, p \in Pairs}
     \cup {asm_condd(i, p[1], p[2]) : p \in Ds \X Ds}
     \cup {asm_condf4(i, p[1], p[2]) : p \in Ds \X Ds}
     \cup {asm_d2i(i, a) : a \in Ds} \cup {asm_f2i(i, a) : a \in Ds}
     \cup {asm_cmov(GP, "int", i, p[1], 1, p[1], p[2]) : p \in Pairs}
     \cup {asm_call(k, i, FALSE, 0, <<a>>) : a \in Gs}
     \cup {asm_call(k, i, FALSE, a, <<1>>) : a \in Gs}
     \cup {asm_param(i, "R0") : x \in {i} \cap {1}}

DefDbl(k, i) ==
  LET Gs == OfKind(k, i - 1, GpKinds)
      Ds == OfKind(k, i - 1, FpKinds)
      Pairs == Ds \X Ds
  IN {asm_load64(op, i, a) : op \in {"ldd", "ldf2d"}, a \in Gs} \cup {asm_load128(i, a) : a \in Gs}
     \cup {asm_neg_abs(i, a) : a \in Ds} \cup {asm_i2d(i, a) : a \in Gs} \cup {asm_i2f(i, a) : a \in Gs}
     \cup {asm_f2d(i, a) : a \in Ds} \cup {asm_d2f(i, a) : a \in Ds} \cup {asm_f2f4(i, a) : a \in Ds}
     \cup {asm_f4comp(swz, i, a) : swz \in BOOLEAN, a \in Ds}
     \cup {asm_ffff2f4(i, p[1], p[2], p[1], p[2]) : p \in Pairs}
     \cup {asm_fop(i, p[1], p[2]) : p \in Pairs} \cup {asm_divf4(i, p[1], p[2]) : p \in Pairs}
     \cup {asm_cmov(FPR, "d", i, p[1], p[2], p[1], p[2]) : p \in Pairs}
     \cup {asm_call(k, i, hard, 0, <<p[2], p[1]>>) : hard \in BOOLEAN, p \in Ds \X Gs}

Defs(k, i) ==
  CASE k[i] = "int" -> DefInt(k, i)
    [] k[i] = "dbl" -> DefDbl(k, i)
    [] k[i] = "immi" -> {asm_immi(i)}
    [] k[i] = "lea" -> {asm_arith_imm(FALSE, i, 1)}
    [] k[i] = "immd" -> {asm_immd(i), asm_immf(i), asm_immf4(i)}
    [] k[i] = "saved" -> {asm_param(i, "R4")}
    [] k[i] = "arg" -> {asm_param_stack(i)}

Uses(k, n) ==
  LET Gs == OfKind(k, n, GpKinds)
      Ds == OfKind(k, n, FpKinds)
  IN {asm_store32(p[1], p[2]) : p \in Gs \X Gs}
     \cup {asm_store64(op, p[1], p[2]) : op \in {"std", "std2f"}, p \in Ds \X Gs}
     \cup {asm_store128(p[1], p[2]) : p \in Ds \X Gs}
     \cup {asm_branch(op, p[1], p[2]) : op \in {"imm", "int"}, p \in Gs \X Gs}
     \cup {asm_branch(op, p[1], p[2]) : op \in {"d", "f4"}, p \in Ds \X Ds}
     \cup {asm_xcc("int", a, a) : a \in Gs} \cup {asm_jtbl(v) : v \in Gs}
     \cup {asm_ret(k, v, FALSE) : v \in Gs} \cup {asm_ret(k, v, hard) : v \in Ds, hard \in BOOLEAN}
     \cup {asm_call(k, 0, FALSE, 0, <<p[1], p[1], p[2]>>) : p \in Ds \X (Gs \cup Ds)}
     \cup {asm_call(k, 0, TRUE, 0, <<a, a>>) : a \in Ds}

=============================================================================
