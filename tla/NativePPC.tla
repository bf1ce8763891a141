----------------------------- MODULE NativePPC -----------------------------
(* The 32-bit PowerPC back end (nanojit/NativePPC.cpp) as scripts.         *)
EXTENDS Script

GP == {"R3", "R4", "R11", "R14"}
FPR == {"F1", "F2"}

\* R0, F0, R2 and CTR are not managed.
Machine ==
  [managed |-> GP \cup FPR, fpr |-> FPR,
   order |-> <<"R3", "R4", "R11", "R14", "F1", "F2">>, saved |-> {"R14"}, savedParam |-> "R14",
   classes |-> {GP, FPR}, fp |-> "FP", remat |-> {"immi", "alloc"}, bases |-> {},
   tempKinds |-> {}, tempRegs |-> {},
   stack |-> {}, restoreTrash |-> {"R2", "CTR"}, breakTrash |-> {"R2", "CTR"},
   fixed |-> {<<"FP", 120>>, <<"LRslot", 121>>, <<"CRslot", 122>>},
   entry |-> {<<"SP", 120>>, <<"LR", 121>>, <<"FP", 122>>}]

\* asm_li: LI or LIS; or asm_li32, LIS and ORI.
asm_li32(r, i) == <<Op(r, i, {<<r, 150>>}), Op(r, 150, {})>>
asm_li(r, i) == <<Either(<<asm_li32(r, i), <<Op(r, i, {})>>>>)>>

\* An access at a displacement of 16 bits, or at one in R0.
Indexed(loc, i, reads) ==
  <<Either(<<<<Op(loc, i, reads)>>,
             <<Op(loc, i, reads \cup {<<"R0", 151>>})>> \o asm_li("R0", 151)>>)>>

asm_load32(i, b) ==
  <<Prep("rr", i, GP), Base("ra", b, GP, {}),
    Either(<<<<Op("rr", i, {<<"rr", 101>>})>> \o Indexed("rr", 101, {<<"ra", b>>}),
             Indexed("rr", i, {<<"ra", b>>})>>)>>

asm_store32(v, b) ==
  <<Find("rs", v, GP, {}),
    IF v = b THEN Let("ra", "rs") ELSE Base("ra", b, GP, {"rs"})>>
    \o Indexed("none", 0, {<<"rs", v>>, <<"ra", b>>})

asm_load64(i, b) ==
  <<Prep("rr", i, FPR), Base("ra", b, GP, {})>> \o Indexed("rr", i, {<<"ra", b>>})

asm_store64(v, b) ==
  <<Base("ra", b, GP, {}), Find("rs", v, FPR, {})>>
    \o Indexed("none", 0, {<<"rs", v>>, <<"ra", b>>})

\* CMP to token c of CR0; imm: b is a constant that fits.
asm_cmp(allow, imm, a, b, c) ==
  <<Find("ca", a, allow, {})>> \o
    IF imm THEN <<Op("CR0", c, {<<"ca", a>>})>>
    ELSE <<IF a = b THEN Let("cb", "ca") ELSE Find("cb", b, allow, {"ca"})>> \o
           IF allow = GP THEN <<Op("CR0", c, {<<"ca", a>>, <<"cb", b>>})>>
           ELSE <<Op("CR0", c, {<<"CR0", 152>>}),
                  Op("CR0", 152, {<<"ca", a>>, <<"cb", b>>})>>

\* EXTRWI and MFCR; CROR for the comparisons that include equality.
asm_cond(allow, imm, i, a, b) ==
  <<Prep("r", i, GP), Op("r", i, {<<"r", 101>>}), Op("r", 101, {<<"CR0", 102>>}),
    Either(<<<<Op("CR0", 102, {<<"CR0", 103>>})>> \o asm_cmp(allow, imm, a, b, 103),
             asm_cmp(allow, imm, a, b, 102)>>)>>

asm_branch_near(c) == Protect(<<Reads({<<"CR0", c>>})>>)

asm_branch_far(c) ==
  Protect(<<Reads({<<"CR0", c>>, <<"CTR", 153>>}), Op("CTR", 153, {<<"R0", 153>>})>>
            \o asm_li32("R0", 153))

asm_branch(allow, imm, a, b) ==
  <<Either(<<<<asm_branch_near(102)>>, <<asm_branch_far(102)>>>>)>>
    \o asm_cmp(allow, imm, a, b, 102)

\* Overflow is 105, in XER.
asm_branch_ov ==
  <<Protect(<<Reads({<<"CTR", 153>>}), Op("CTR", 153, {<<"R0", 153>>})>>
              \o asm_li32("R0", 153)
              \o <<Reads({<<"CR0", 104>>}),
                   Either(<<<<Trash({"XER"}), Op("CR0", 104, {<<"XER", 105>>})>>,
                            <<Op("XER", 0, {<<"R0", 106>>}),
                              Op("R0", 106, {<<"R0", 105>>}),
                              Op("CR0", 104, {<<"R0", 105>>}),
                              Op("R0", 105, {<<"XER", 105>>})>>>>)>>)>>

genPrologue ==
  <<Either(<<<<Op("SP", 123, {<<"SP", 120>>})>>,
             <<Op("SP", 123, {<<"SP", 120>>, <<"R0", 154>>})>>
               \o asm_li("R0", 154)>>),
    Op("FP", 120, {<<"SP", 120>>}),
    Op("CRslot", 122, {<<"FP", 122>>, <<"SP", 120>>}),
    Op("LRslot", 121, {<<"R0", 121>>, <<"SP", 120>>}),
    Op("R0", 121, {<<"LR", 121>>})>>

\* An integer result v is in R12 for a while; a double is v = 0.
genEpilogue(v) ==
  <<Reads({<<"LR", 121>>, <<"FP", 122>>, <<"SP", 120>>}),
    Op("LR", 121, {<<"R0", 121>>}),
    Op("R0", 121, {<<"LRslot", 121>>, <<"SP", 120>>}),
    Op("FP", 122, {<<"CRslot", 122>>, <<"SP", 120>>}),
    Op("SP", 120, {<<"FP", 120>>}),
    IF v = 0 THEN Trash({"R3"}) ELSE Op("R3", v, {<<"R12", v>>})>>

asm_ret(v, r) ==
  <<Unreached, Reads({<<r, v>>})>> \o
  (IF r = "R3" THEN genEpilogue(v) \o <<Op("R12", v, {<<"R3", v>>})>>
              ELSE genEpilogue(0) \o <<Trash({"R12"})>>)
  \o <<Release, AssignSaved, Specific(v, r)>>

\* Where the target is not compiled: to the epilogue, with the guard in R12.
nFragExit ==
  <<Reads({<<"R3", 131>>})>> \o genEpilogue(131)
    \o <<Protect(<<Reads({<<"CTR", 155>>}), Op("CTR", 155, {<<"R2", 155>>})>>
                   \o asm_li32("R2", 155))>>
    \o asm_li("R12", 131)

asm_xcc(allow, imm, a, b) == Exit(nFragExit) \o asm_branch(allow, imm, a, b)

asm_immi(i) == <<Prep("rr", i, GP)>> \o asm_li("rr", i)

\* An operand in no register is put in the register of the result.
OwnReg(a) ==
  <<InRegOr("ra", a, "rr"), Unless(InReg(a), <<Specific(a, "rr")>>)>>

asm_neg_abs(i, a) ==
  <<Prep("rr", i, FPR),
    If(InReg(a), <<Find("ra", a, FPR, {})>>, OwnReg(a)),
    Op("rr", i, {<<"ra", a>>})>>

asm_neg_not(i, a) ==
  <<Prep("rr", i, GP)>> \o OwnReg(a) \o <<Op("rr", i, {<<"ra", a>>})>>

\* The caller, and not an instruction, has put the parameter in r.
asm_param(i, r) == <<Prep("rr", i, {r}), Op(r, i, {})>>

asm_regarg(k, p, r) ==
  LET load == <<Mem("m", p),
                IF k[p] = "alloc" THEN Op(r, p, {<<"FP", p>>})
                                  ELSE Op(r, p, {<<"m", p>>})>>
  IN IF k[p] = "immi" THEN asm_li(r, p)
     ELSE <<If(IsExtant(p),
               <<InRegOr("rp", p, "none"),
                 If(InMask(p, IF r \in FPR THEN FPR ELSE GP),
                    <<Op(r, p, {<<"rp", p>>})>>, load)>>,
               <<Specific(p, r)>>)>>

\* br, br_far: far jumps are by way of R2 and CTR.
br(reads) ==
  Either(<<<<Reads(reads)>>,
           <<Protect(<<Reads(reads \cup {<<"CTR", 155>>}),
                       Op("CTR", 155, {<<"R2", 155>>})>>
                       \o asm_li32("R2", 155))>>>>)

\* The result, if there is one (i # 0), is in r; addr is the operand of an
\* indirect call or 0.
asm_call(k, i, r, addr, args) ==
  LET at == ArgLocs(k, args, <<"R3", "R4">>, <<"F1", "F2">>)
      reads == {at[n] : n \in DOMAIN at}
  IN (IF i = 0 THEN <<>> ELSE <<Prep("rr", i, {r})>>)
     \o <<EvictScratchExcept({}), IF i = 0 THEN Reads({}) ELSE Op(r, i, {}),
          Trash({"R0", "R2", "R3", "R4", "R11", "F0", "F1", "F2", "CTR", "CR0",
                 "LR", "XER"})>>
     \o (IF addr = 0 THEN <<br(reads)>>
         ELSE <<Protect(<<Reads(reads \cup {<<"CTR", addr>>}),
                          Op("CTR", addr, {<<"R11", addr>>})>>)>>
                \o asm_regarg(k, addr, "R11"))
     \o FlattenSeq([n \in DOMAIN at |-> asm_regarg(k, at[n][2], at[n][1])])

asm_spill(i, r, m) == <<Op(m, i, {<<r, i>>})>>

\* A product with a small constant is a chain of additions; sums are tokens.
MulSmall(i, a) ==
  LET twice(x) == Op("rr", x, {<<"ra", a>>})
      double(x, y) == Op("rr", x, {<<"rr", y>>})
      plus(x, y) == If(Same("rr", "ra"), <<Op("rr", x, {<<"rr", y>>, <<"R0", a>>})>>,
                                         <<Op("rr", x, {<<"rr", y>>, <<"ra", a>>})>>)
      copy == When(Same("rr", "ra"), <<Op("R0", a, {<<"ra", a>>})>>)
  IN Either(<<<<twice(i)>>,
              <<plus(i, 102), twice(102), copy>>,
              <<double(i, 102), twice(102)>>,
              <<plus(i, 104), double(104, 102), twice(102), copy>>,
              <<double(i, 104), double(104, 102), twice(102)>>,
              <<double(i, 105), plus(105, 104), double(104, 102), twice(102), copy>>,
              <<double(i, 108), double(108, 104), double(104, 102), twice(102)>>>>)

asm_arith_imm(i, a) ==
  <<Prep("rr", i, GP), Find("ra", a, GP, {}),
    Either(<<<<Op("rr", i, {<<"ra", a>>})>>, <<MulSmall(i, a)>>>>)>>

\* op is "alu", "shift" or, when overflow is asked for, "ov".
asm_arith(op, i, a, b) ==
  <<Prep("rr", i, GP), Find("ra", a, GP, {}),
    IF a = b THEN Let("rb", "ra") ELSE Find("rb", b, GP, {"ra"})>> \o
  CASE op = "alu" -> <<Op("rr", i, {<<"ra", a>>, <<"rb", b>>})>>
    [] op = "ov" -> <<Op("rr", i, {<<"ra", a>>, <<"rb", b>>}),
                      Op("XER", 105, {<<"ra", a>>, <<"rb", b>>})>>
    [] op = "shift" -> <<Op("rr", i, {<<"ra", a>>, <<"R0", 101>>}),
                         Op("R0", 101, {<<"rb", b>>})>>

asm_fop(i, a, b) ==
  <<Prep("rr", i, FPR)>> \o OwnReg(a) \o
  <<IF a = b THEN Let("rb", "ra") ELSE Find("rb", b, FPR, {"ra"}),
    Op("rr", i, {<<"ra", a>>, <<"rb", b>>})>>

\* The double is put together in the linkage area, at SP + 16.
asm_i2d(i, a) ==
  <<Prep("r", i, FPR), Find("v", a, GP, {}),
    Op("r", i, {<<"r", 101>>, <<"F0", 102>>}),
    Op("r", 101, {<<"SP16", 103>>, <<"SP20", 104>>}),
    Op("SP20", 104, {<<"R0", 104>>}), Op("R0", 104, {<<"v", a>>}),
    Op("F0", 102, {<<"SP16", 103>>, <<"SP20", 105>>}),
    Op("SP20", 105, {<<"R0", 105>>}), Op("R0", 105, {}),
    Op("SP16", 103, {<<"R0", 103>>}), Op("R0", 103, {})>>

asm_ui2d(i, a) ==
  <<Prep("r", i, FPR), Find("v", a, GP, {}),
    Op("r", i, {<<"r", 101>>, <<"F0", 102>>}),
    Op("F0", 102, {<<"SP16", 103>>, <<"SP20", 105>>}),
    Op("SP20", 105, {<<"R0", 105>>}), Op("R0", 105, {}),
    Op("r", 101, {<<"SP16", 103>>, <<"SP20", a>>}),
    Op("SP20", a, {<<"v", a>>}),
    Op("SP16", 103, {<<"R0", 103>>}), Op("R0", 103, {})>>

asm_d2i(i, a) ==
  <<Prep("rr", i, GP), Find("ra", a, FPR, {}), Op("rr", i, {<<"SP20", 101>>}),
    Op("SP20", 101, {<<"F0", 101>>}), Op("F0", 101, {<<"ra", a>>})>>

asm_immd(i) ==
  <<Prep("r", i, FPR), Op("r", i, {<<"SP8", 101>>, <<"SP12", 102>>}),
    Op("SP12", 102, {<<"R0", 102>>})>> \o asm_li("R0", 102) \o
  <<Op("SP8", 101, {<<"R0", 101>>})>> \o asm_li("R0", 101)

\* regs is the class of the result, allow that of what is compared.
asm_cmov(regs, allow, imm, i, a, b, t, f) ==
  <<Result("rr", i, regs, {}), Find("rf", f, regs, {"rr"}),
    InRegOr("rt", t, "rr"),
    Protect(<<Op("rr", i, {<<"rf", f>>, <<"rr", t>>, <<"CR0", 102>>}),
              Unless(Same("rr", "rt"), <<Op("rr", t, {<<"rt", t>>})>>)>>),
    Free(i), Take(t, "rr")>> \o asm_cmp(allow, imm, a, b, 102)

\* Faulty variant: a jump to other code may come between the instructions.
asm_jtblApart(v) ==
  <<Unreached, Release, Find("indexreg", v, GP, {}),
    Reads({<<"CTR", 101>>}), Op("CTR", 101, {<<"R2", 101>>}),
    Op("R2", 101, {<<"R2", 102>>, <<"R0", 103>>}),
    Op("R0", 103, {<<"indexreg", v>>})>> \o asm_li("R2", 102)

\* Assembler::gen, LIR_jtbl: the index is in a register when the jump is made.
asm_jtbl(v) ==
  <<Unreached, Release, Find("indexreg", v, GP, {}),
    Protect(<<Reads({<<"CTR", 101>>}), Op("CTR", 101, {<<"R2", 101>>}),
              Op("R2", 101, {<<"R2", 102>>, <<"R0", 103>>}),
              Op("R0", 103, {<<"indexreg", v>>})>> \o asm_li("R2", 102))>>

-----------------------------------------------------------------------------
(* Assembler::gen: what may define value i of a program of kinds k, and    *)
(* what may come where values 1..n are defined.                            *)

Fits(k, b) == IF k[b] = "immi" THEN {TRUE, FALSE} ELSE {FALSE}

DefInt(k, i) ==
  LET Gs == OfKind(k, i - 1, GpKinds)
      Ds == OfKind(k, i - 1, FpKinds)
  IN {asm_load32(i, a) : a \in Gs} \cup {asm_neg_not(i, a) : a \in Gs}
     \cup {asm_arith_imm(i, a) : a \in Gs}
     \cup {asm_arith(op, i, p[1], p[2]) : op \in {"alu", "shift"}, p \in Gs \X Gs}
     \cup {asm_branch_ov \o asm_arith("ov", i, p[1], p[2]) : p \in Gs \X Gs}
     \cup UNION {{asm_cond(GP, imm, i, p[1], p[2]) : imm \in Fits(k, p[2])} :
                    p \in Gs \X Gs}
     \cup {asm_cond(FPR, FALSE, i, p[1], p[2]) : p \in Ds \X Ds}
     \cup {asm_d2i(i, a) : a \in Ds}
     \cup {asm_cmov(GP, GP, FALSE, i, a, 1, p[1], p[2]) : a \in Gs, p \in Gs \X Gs}
     \cup {asm_call(k, i, "R3", addr, <<a>>) : addr \in Gs \cup {0}, a \in Gs}
     \cup {asm_param(i, "R4") : x \in {i} \cap {1}}

DefDbl(k, i) ==
  LET Gs == OfKind(k, i - 1, GpKinds)
      Ds == OfKind(k, i - 1, FpKinds)
  IN {asm_load64(i, a) : a \in Gs} \cup {asm_neg_abs(i, a) : a \in Ds}
     \cup {asm_fop(i, p[1], p[2]) : p \in Ds \X Ds}
     \cup {asm_i2d(i, a) : a \in Gs} \cup {asm_ui2d(i, a) : a \in Gs}
     \cup {asm_cmov(FPR, GP, FALSE, i, a, 1, p[1], p[2]) : a \in Gs, p \in Ds \X Ds}
     \cup {asm_call(k, i, "F1", 0, <<p[1], p[2]>>) : p \in Ds \X Gs}

Defs(k, i) ==
  CASE k[i] = "int" -> DefInt(k, i)
    [] k[i] = "dbl" -> DefDbl(k, i)
    [] k[i] = "immi" -> {asm_immi(i)}
    [] k[i] = "immd" -> {asm_immd(i)}
    [] k[i] = "saved" -> {asm_param(i, "R14")}

Uses(k, n) ==
  LET Gs == OfKind(k, n, GpKinds)
      Ds == OfKind(k, n, FpKinds)
  IN {asm_store32(p[1], p[2]) : p \in Gs \X Gs}
     \cup {asm_store64(p[1], p[2]) : p \in Ds \X Gs}
     \cup {asm_branch(GP, FALSE, p[1], p[2]) : p \in Gs \X Gs}
     \cup {asm_branch(FPR, FALSE, p[1], p[2]) : p \in Ds \X Ds}
     \cup {asm_xcc(GP, FALSE, a, a) : a \in Gs}
     \cup {asm_jtbl(v) : v \in Gs}
     \cup {asm_ret(v, "R3") : v \in Gs} \cup {asm_ret(v, "F1") : v \in Ds}
     \cup {asm_call(k, 0, "R3", 0, <<p[1], p[2]>>) : p \in Gs \X Gs}

=============================================================================
