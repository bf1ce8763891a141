--------------------------- MODULE NativeThumb2 ---------------------------
(***************************************************************************)
(* The Thumb2 back end (nanojit/NativeThumb2.cpp) as scripts.  It began as *)
(* a copy of the ARM one: what is still the same, but for encodings and    *)
(* ranges of displacements, is taken from NativeARM (A!...); the rest is   *)
(* written down here.                                                      *)
(***************************************************************************)
EXTENDS Script

A == INSTANCE NativeARM

GP == A!GP
FPR == A!FPR

Machine == A!Machine

-----------------------------------------------------------------------------
(* The same as for ARM.                                                    *)

asm_ld_imm(r, i) == A!asm_ld_imm(r, i)
asm_add_imm(rd, i, rn, a, stat) == A!asm_add_imm(rd, i, rn, a, stat)
asm_str(i, reads) == A!asm_str(i, reads)
asm_load32(i, b) == A!asm_load32(i, b)
asm_store32(v, b) == A!asm_store32(v, b)
asm_load64(op, i, b) == A!asm_load64(op, i, b)
asm_load128(i, b) == A!asm_load128(i, b)
asm_store64(op, v, b) == A!asm_store64(op, v, b)
asm_store128(v, b) == A!asm_store128(v, b)
asm_immi(i) == A!asm_immi(i)
asm_immd(i) == A!asm_immd(i)
asm_immf(i) == A!asm_immf(i)
asm_param(i, r) == A!asm_param(i, r)
asm_param_stack(i) == A!asm_param_stack(i)
asm_i2d(i, a) == A!asm_i2d(i, a)
asm_i2f(i, a) == A!asm_i2f(i, a)
asm_d2i(i, a) == A!asm_d2i(i, a)
asm_f2i(i, a) == A!asm_f2i(i, a)
asm_f2d(i, a) == A!asm_f2d(i, a)
asm_d2f(i, a) == A!asm_d2f(i, a)
asm_f2f4(i, a) == A!asm_f2f4(i, a)
asm_f4comp(swizzle, i, a) == A!asm_f4comp(swizzle, i, a)
asm_ffff2f4(i, a, b, c, d) == A!asm_ffff2f4(i, a, b, c, d)
asm_neg_not(i, a) == A!asm_neg_not(i, a)
asm_neg_abs(i, a) == A!asm_neg_abs(i, a)
asm_fop(i, a, b) == A!asm_fop(i, a, b)
asm_divf4(i, a, b) == A!asm_divf4(i, a, b)
asm_arith_imm(ov, i, a) == A!asm_arith_imm(ov, i, a)
asm_cmpd(a, b, c) == A!asm_cmpd(a, b, c)
asm_cmpf4(a, b, c) == A!asm_cmpf4(a, b, c)
asm_condd(i, a, b) == A!asm_condd(i, a, b)
asm_condf4(i, a, b) == A!asm_condf4(i, a, b)
asm_branch_ov == A!asm_branch_ov
asm_regarg(k, p, r) == A!asm_regarg(k, p, r)
asm_stkarg(k, p) == A!asm_stkarg(k, p)
asm_arg_float(p, ra, rb) == A!asm_arg_float(p, ra, rb)
BranchWithLink(reads) == A!BranchWithLink(reads)
genPrologue == A!genPrologue
genEpilogue(v) == A!genEpilogue(v)
asm_ret(k, v, hard) == A!asm_ret(k, v, hard)
nFragExit == A!nFragExit
asm_jtbl(v) == A!asm_jtbl(v)

-----------------------------------------------------------------------------
(* Constants, arithmetic and comparisons.                                  *)

\* The address of the one in the instruction stream is computed in IP.
asm_immf4(i) ==
  <<If(InReg(i), <<Result("dd", i, FPR, {}), Op("dd", i, {<<"IP", 101>>}), Op("IP", 101, {})>>,
                 A!Words4(i)),
    Free(i)>>

\* A product may go to the register of a factor.
asm_arith(op, i, a, b) ==
  LET reads == {<<"rn", a>>, <<"rm", b>>}
  IN <<Result("rd", i, GP, {}), InRegOr("rn", a, "rd"), InRegOr("rm", b, "rd")>>
     \o (IF a = b THEN <<>> ELSE <<When(Same("rn", "rm"), <<Find("rn", a, GP, {"rd"})>>)>>)
     \o (CASE op = "alu" -> <<Op("rd", i, reads)>>
           [] op = "ov" -> <<Op("rd", i, reads), Op("CC", 105, reads)>>
           [] op = "shift" -> <<Op("rd", i, {<<"rn", a>>, <<"IP", 101>>}), Op("IP", 101, {<<"rm", b>>})>>
           [] op = "mulov" -> <<Op("CC", 105, {<<"IP", 106>>, <<"rd", i>>}), Op("rd", i, reads),
                                Op("IP", 106, reads)>>)
     \o <<Free(i), A!Reuse("rn", a, "rm", b, "rd")>>

asm_cmpi(r, a, c) ==
  <<Either(<<<<Op("CC", c, {<<r, a>>})>>,
             <<Op("CC", c, {<<r, a>>, <<"IP", 107>>})>> \o asm_ld_imm("IP", 107)>>)>>

asm_cmp(op, a, b, c) ==
  CASE op = "imm" -> <<Find("r", a, GP, {})>> \o asm_cmpi("r", a, c)
    [] op = "int" -> <<Find2("ra", a, GP, "rb", b, GP), Op("CC", c, {<<"ra", a>>, <<"rb", b>>})>>
    [] op = "d" -> asm_cmpd(a, b, c)
    [] op = "f4" -> asm_cmpf4(a, b, c)

asm_cond(op, i, a, b) ==
  <<Result("rd", i, GP, {}), Op("rd", i, {<<"CC", 102>>}), Free(i)>> \o asm_cmp(op, a, b, 102)

asm_branch(op, a, b) == <<Reads({<<"CC", 102>>})>> \o asm_cmp(op, a, b, 102)

\* A copy that is jumped over, after the other one.
asm_cmov(regs, op, i, a, b, t, f) ==
  <<Result("rd", i, regs, {}), InRegOr("rt", t, "rd"), InRegOr("rf", f, "rd")>>
  \o (IF t = f THEN <<>> ELSE <<When(Same("rt", "rf"), <<Find("rf", f, regs, {"rd"})>>)>>)
  \o <<If(Same("rd", "rt"),
          <<Op("rd", i, {<<"rf", f>>, <<"rd", t>>, <<"CC", 102>>})>>,
          <<If(Same("rd", "rf"), <<Op("rd", i, {<<"rt", t>>, <<"rd", f>>, <<"CC", 102>>})>>,
               <<Op("rd", i, {<<"rf", f>>, <<"rd", t>>, <<"CC", 102>>}), Op("rd", t, {<<"rt", t>>})>>)>>),
       Free(i), A!Reuse("rt", t, "rf", f, "rd")>>
  \o asm_cmp(op, a, b, 102)

\* IP is where to come back to.
asm_brsavpc(flag) ==
  LET savepc == <<Op("IP", 126, {<<"IP", 125>>}), Op("IP", 125, {})>>
      test == <<Reads({<<"CC", 102>>}), Op("CC", 102, {<<"r", flag>>})>>
  IN <<Find("r", flag, GP, {}), Either(<<test \o savepc, savepc \o test>>)>>

-----------------------------------------------------------------------------
(* Calls and exits.                                                        *)

\* What is in a register is copied to that of the argument.
asm_arg_hard(p, r) ==
  If(InReg(p), <<InRegOr("rp", p, "rp"), Op(r, p, {<<"rp", p>>})>>, <<Take(p, r)>>)

asm_arg(k, hard, args) ==
  LET soft == A!asm_arg(k, FALSE, args)
      at == ArgLocs(k, args, <<"R0", "R1", "R2", "R3">>, <<"Q0", "Q1">>)
      script(n) == IF k[args[n]] \in FpKinds THEN <<asm_arg_hard(args[n], at[n][1])>>
                                             ELSE asm_regarg(k, args[n], at[n][1])
  IN IF ~hard THEN soft
     ELSE [reads |-> {at[n] : n \in DOMAIN args}, script |-> FlattenSeq([n \in DOMAIN args |-> script(n)])]

BLXr(addr, reads) == <<Reads(reads \cup {<<"LR", addr>>})>>

asm_call(k, i, hard, addr, args) ==
  LET arg == asm_arg(k, hard, args)
  IN A!CallResult(k, i, hard)
     \o (IF addr = 0 THEN BranchWithLink(arg.reads)
                     ELSE BLXr(addr, arg.reads) \o asm_regarg(k, addr, "LR"))
     \o arg.script

asm_xcc(op, a, b) == Exit(nFragExit) \o asm_branch(op, a, b)

-----------------------------------------------------------------------------
(* Assembler::gen, as for the other back ends.                             *)

DefInt(k, i) ==
  LET Gs == OfKind(k, i - 1, GpKinds)
      Ds == OfKind(k, i - 1, FpKinds)
      Pairs == Gs \X Gs
  IN {asm_load32(i, a) : a \in Gs} \cup {asm_neg_not(i, a) : a \in Gs}
     \cup {asm_arith_imm(FALSE, i, a) : a \in Gs}
     \cup {asm_branch_ov \o asm_arith_imm(TRUE, i, a) : a \in Gs}
     \cup {asm_arith(op, i, p[1], p[2]) : op \in {"alu", "shift"}, p \in Pairs}
     \cup {asm_branch_ov \o asm_arith(op, i, p[1], p[2]) : op \in {"ov", "mulov"}, p \in Pairs}
     \cup {asm_cond(op, i, p[1], p[2]) : op \in {"imm", "int"}, p \in Pairs}
     \cup {asm_condd(i, p[1], p[2]) : p \in Ds \X Ds} \cup {asm_condf4(i, p[1], p[2]) : p \in Ds \X Ds}
     \cup {asm_d2i(i, a) : a \in Ds} \cup {asm_f2i(i, a) : a \in Ds}
     \cup {asm_cmov(GP, "int", i, p[1], 1, p[1], p[2]) : p \in Pairs}
     \cup {asm_call(k, i, FALSE, 0, <<a>>) : a \in Gs} \cup {asm_call(k, i, FALSE, a, <<1>>) : a \in Gs}
     \cup {asm_param(i, "R0") : x \in {i} \cap {1}}

DefDbl(k, i) ==
  LET Gs == OfKind(k, i - 1, GpKinds)
      Ds == OfKind(k, i - 1, FpKinds)
      Pairs == Ds \X Ds
  IN {asm_load64(op, i, a) : op \in {"ldd", "ldf2d"}, a \in Gs} \cup {asm_load128(i, a) : a \in Gs}
     \cup {asm_neg_abs(i, a) : a \in Ds} \cup {asm_i2d(i, a) : a \in Gs} \cup {asm_i2f(i, a) : a \in Gs}
     \cup {asm_f2d(i, a) : a \in Ds} \cup {asm_d2f(i, a) : a \in Ds} \cup {asm_f2f4(i, a) : a \in Ds}
     \cup {asm_f4comp(swz, i, a) : swz \in BOOLEAN, a \in Ds}
     \cup {asm_ffff2f4(i, p[1], p[2], p[1], p[2]) : p \in Pairs}
     \cup {asm_fop(i, p[1], p[2]) : p \in Pairs} \cup {asm_divf4(i, p[1], p[2]) : p \in Pairs}
     \cup {asm_cmov(FPR, "d", i, p[1], p[2], p[1], p[2]) : p \in Pairs}
     \cup {asm_call(k, i, hard, 0, <<p[2], p[1]>>) : hard \in BOOLEAN, p \in Ds \X Gs}

Defs(k, i) ==
  CASE k[i] = "int" -> DefInt(k, i)
    [] k[i] = "dbl" -> DefDbl(k, i)
    [] k[i] = "immi" -> {asm_immi(i)}
    [] k[i] = "lea" -> {asm_arith_imm(FALSE, i, 1)}
    [] k[i] = "immd" -> {asm_immd(i), asm_immf(i), asm_immf4(i)}
    [] k[i] = "saved" -> {asm_param(i, "R4")}
    [] k[i] = "arg" -> {asm_param_stack(i)}

Uses(k, n) ==
  LET Gs == OfKind(k, n, GpKinds)
      Ds == OfKind(k, n, FpKinds)
  IN {asm_store32(p[1], p[2]) : p \in Gs \X Gs}
     \cup {asm_store64(op, p[1], p[2]) : op \in {"std", "std2f"}, p \in Ds \X Gs}
     \cup {asm_store128(p[1], p[2]) : p \in Ds \X Gs}
     \cup {asm_branch(op, p[1], p[2]) : op \in {"imm", "int"}, p \in Gs \X Gs}
     \cup {asm_branch(op, p[1], p[2]) : op \in {"d", "f4"}, p \in Ds \X Ds}
     \cup {asm_brsavpc(a) : a \in Gs} \cup {asm_xcc("int", a, a) : a \in Gs} \cup {asm_jtbl(v) : v \in Gs}
     \cup {asm_ret(k, v, FALSE) : v \in Gs} \cup {asm_ret(k, v, hard) : v \in Ds, hard \in BOOLEAN}
     \cup {asm_call(k, 0, FALSE, 0, <<p[1], p[1], p[2]>>) : p \in Ds \X (Gs \cup Ds)}
     \cup {asm_call(k, 0, TRUE, 0, <<a, a>>) : a \in Ds}

=============================================================================
