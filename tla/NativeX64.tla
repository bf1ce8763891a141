----------------------------- MODULE NativeX64 -----------------------------
(* The x86-64 back end (nanojit/NativeX64.cpp) as scripts, with the        *)
(* registers of the 64-bit Windows calling convention.                     *)
EXTENDS X86

BaseRegs == {"RAX", "RCX", "RDX"}
GP == BaseRegs \cup {"R12"}
FPR == {"XMM0", "XMM1", "XMM2"}
Scratch == BaseRegs \cup FPR

\* RSP and RBP, the frame pointer, are not managed.  A double constant is put
\* together in a register of GP; none of what asm_restore emits changes the flags.
Machine ==
  [managed |-> GP \cup FPR, fpr |-> FPR,
   order |-> <<"RAX", "RCX", "RDX", "R12", "XMM0", "XMM1", "XMM2">>,
   saved |-> {"R12"}, savedParam |-> "R12",
   classes |-> {GP \cup FPR}, fp |-> "RBP", bases |-> BaseRegs,
   remat |-> {"immi", "immd", "alloc", "lea"},
   tempKinds |-> {"immd"}, tempRegs |-> GP,
   stack |-> {}, restoreTrash |-> {}, breakTrash |-> {},
   fixed |-> {<<"RBP", 120>>, <<"RETslot", 121>>, <<"FPslot", 122>>},
   entry |-> {<<"RSP", 119>>, <<"RETslot", 121>>, <<"RBP", 122>>}]

beginOp1Regs(i, a, allow) ==
  <<Result("rr", i, allow, {}), InRegOr("ra", a, "rr")>>

beginOp2Regs(i, a, b, allow) ==
  IF a = b THEN <<Result("rr", i, allow, {}), InRegOr("ra", a, "rr"), Let("rb", "ra")>>
  ELSE <<Find("rb", b, allow, {}), Result("rr", i, allow, {"rb"}),
         InRegOr("ra", a, "rr")>>

endOpRegs(i, a) == <<Free(i), Take(a, "ra")>>

asm_shift_imm(i, a) ==
  beginOp1Regs(i, a, GP) \o Alu(FALSE, "rr", i, {<<"rr", a>>})
    \o <<Copy("rr", "ra", a)>> \o endOpRegs(i, a)

asm_shift(i, a, b) ==
  (IF a # b THEN <<Specific(b, "RCX")>> \o beginOp1Regs(i, a, GP \ {"RCX"})
            ELSE <<Result("rr", i, {"RCX"}, {}), InRegOr("ra", a, "rr")>>)
  \o Alu(FALSE, "rr", i, {<<"rr", a>>, <<"RCX", b>>})
  \o <<Copy("rr", "ra", a)>> \o endOpRegs(i, a)

\* mul: the product with a constant has its own operand.
asm_arith_imm(mul, ov, i, a) ==
  beginOp1Regs(i, a, GP) \o
  (IF mul THEN Alu(ov, "rr", i, {<<"ra", a>>})
          ELSE Alu(ov, "rr", i, {<<"rr", a>>}) \o <<Copy("rr", "ra", a)>>)
  \o endOpRegs(i, a)

asm_arith_imm_blind(i, a) ==
  beginOp1Regs(i, a, GP) \o Alu(FALSE, "rr", i, {<<"rr", 101>>})
    \o Alu(FALSE, "rr", 101, {<<"rr", a>>}) \o <<Copy("rr", "ra", a)>>
    \o endOpRegs(i, a)

\* The quotient is d, and the remainder m if m is not 0.
Idiv(d, m, a, b) ==
  <<Find("rb", b, GP, {"RAX", "RDX"}), InRegOr("ra", a, "RAX"),
    Trash({"CC"}), IF m = 0 THEN Trash({"RDX"}) ELSE Op("RDX", m, {}),
    Op("RAX", d, {<<"RAX", a>>, <<"RDX", 112>>, <<"rb", b>>})>>
  \o Alu(FALSE, "RDX", 112, {<<"RDX", a>>})
  \o <<Op("RDX", a, {<<"RAX", a>>}), Copy("RAX", "ra", a)>>

asm_div(i, a, b) ==
  <<EvictActive("RDX"), Result("rr", i, {"RAX"}, {})>> \o Idiv(i, 0, a, b)
    \o <<Free(i), Take(a, "RAX")>>

asm_divq(i, a, b) == asm_div(i, a, b)

\* The division div is generated together with its remainder.
asm_div_mod(i, div, a, b) ==
  <<Result("rm", i, {"RDX"}, {}), Result("rr", div, {"RAX"}, {})>>
    \o Idiv(div, i, a, b) \o <<Free(i), Free(div), Take(a, "RAX")>>

asm_divq_modq(i, div, a, b) == asm_div_mod(i, div, a, b)

asm_arith(ov, i, a, b) ==
  beginOp2Regs(i, a, b, GP) \o Alu(ov, "rr", i, {<<"rr", a>>, <<"rb", b>>})
    \o <<Copy("rr", "ra", a)>> \o endOpRegs(i, a)

asm_fop(i, a, b) ==
  beginOp2Regs(i, a, b, FPR)
    \o <<Op("rr", i, {<<"rr", a>>, <<"rb", b>>}), Copy("rr", "ra", a)>>
    \o endOpRegs(i, a)

asm_neg_not(i, a) ==
  beginOp1Regs(i, a, GP) \o Alu(FALSE, "rr", i, {<<"rr", a>>})
    \o <<Copy("rr", "ra", a)>> \o endOpRegs(i, a)

-----------------------------------------------------------------------------
(* Constants: of 32 and of 64 bits, blinded or not, and floating.          *)

LoadImm(r, i, mayClobber, blind) ==
  LET xor == IF mayClobber THEN <<Alu(FALSE, r, i, {})>> ELSE <<>>
      blinded == IF blind
                   THEN <<Alu(FALSE, r, i, {<<r, 101>>}) \o <<Op(r, 101, {})>>,
                          <<Temp("t", GP, {r})>>
                            \o Alu(FALSE, r, i, {<<r, 101>>, <<"t", 102>>})
                            \o <<Op("t", 102, {}), Op(r, 101, {})>>>>
                   ELSE <<>>
  IN <<Either(<<<<Op(r, i, {})>>>> \o xor \o blinded)>>

asm_immq(r, i, mayClobber, blind) == LoadImm(r, i, mayClobber, blind)

asm_immi(i, blind) ==
  <<Result("rr", i, GP, {})>> \o LoadImm("rr", i, TRUE, blind) \o <<Free(i)>>

\* Zero is put together in the register itself.
ByWayOf(i, t, load) ==
  <<Result("rr", i, FPR, {}),
    Either(<<<<Op("rr", i, {})>>,
             <<Temp(t, GP, {}), Op("rr", i, {<<t, 103>>})>> \o load>>), Free(i)>>

asm_immd(i) == ByWayOf(i, "rt", asm_immq("rt", 103, TRUE, TRUE))
asm_immf(i) == ByWayOf(i, "rt", LoadImm("rt", 103, TRUE, TRUE))
asm_immf4(i) == ByWayOf(i, "gp", asm_immq("gp", 103, TRUE, FALSE))

-----------------------------------------------------------------------------
(* Calls.                                                                  *)

\* ext: an integer argument is extended to 64 bits.
asm_regarg(k, ext, p, r) ==
  IF ext /\ k[p] \in {"immi", "tainted"} THEN LoadImm(r, p, TRUE, k[p] = "tainted")
  ELSE (IF ext THEN <<Op(r, p, {<<r, p>>})>> ELSE <<>>) \o <<Specific(p, r)>>

\* A float4 is passed as the address, 104, of its place in memory.
asm_ptrarg(p, r) == <<Mem("m", p), Op(r, 104, {<<"RBP", 120>>, <<"m", p>>})>>

asm_stkarg(k, p) ==
  IF k[p] \in FpKinds
    THEN <<Either(<<<<Find("r", p, FPR, {}), Reads({<<"r", p>>})>>,
                    <<Temp("r", GP, {}), Reads({<<"r", 104>>})>> \o asm_ptrarg(p, "r")>>)>>
    ELSE <<Find("r", p, GP, {}), Reads({<<"r", p>>}), Op("r", p, {<<"r", p>>})>>

\* The first two arguments are in registers, the third is on the stack.
ArgAt(k, args, n) ==
  IF k[args[n]] \in FpKinds THEN <<"XMM0", "XMM1">>[n] ELSE <<"RCX", "RDX">>[n]

asm_call(k, i, r, addr, args) ==
  LET inRegs == DOMAIN args \cap 1..2
      reads == {<<ArgAt(k, args, n), args[n]>> : n \in inRegs}
      result == IF i = 0 THEN <<>> ELSE <<Free(i)>>
      target == IF addr = 0
                  THEN <<Either(<<<<Reads(reads)>>,
                                  <<Reads(reads \cup {<<"RAX", 106>>}),
                                    Op("RAX", 106, {}), Trash({"CC"})>>>>)>> \o result
                  ELSE <<Reads(reads \cup {<<"RAX", addr>>})>> \o result
                         \o asm_regarg(k, FALSE, addr, "RAX")
  IN (IF i = 0 THEN <<EvictScratchExcept({})>>
      ELSE <<Result("rr", i, {r}, {}), EvictScratchExcept({r}), Op(r, i, {})>>)
     \o <<Trash((Scratch \cup {"CC"}) \ (IF i = 0 THEN {} ELSE {r}))>> \o target
     \o FlattenSeq([n \in DOMAIN args |->
          IF n \in inRegs THEN asm_regarg(k, k[args[n]] \notin FpKinds, args[n],
                                          ArgAt(k, args, n))
                          ELSE asm_stkarg(k, args[n])])

-----------------------------------------------------------------------------
(* Conversions.                                                            *)

\* The upper half is filled; it is dropped by reading the lower half only.
asm_ui2uq(i, a) ==
  beginOp1Regs(i, a, GP) \o <<Op("rr", i, {<<"ra", a>>})>> \o endOpRegs(i, a)

asm_q2i(i, a) == asm_ui2uq(i, a)

\* From a register of one class to one of the other, or of the same.
Convert(i, a, from, to) ==
  <<Result("rr", i, to, {}), Find("ra", a, from, {}), Op("rr", i, {<<"ra", a>>}),
    Free(i)>>

asm_dasq(i, a) == Convert(i, a, FPR, GP)
asm_qasd(i, a) == Convert(i, a, GP, FPR)
asm_f2i(i, a) == Convert(i, a, FPR, GP)
asm_d2q(i, a) == Convert(i, a, FPR, GP)
asm_d2i(i, a) == Convert(i, a, FPR, GP)
asm_f2f4(i, a) == Convert(i, a, FPR, FPR)
asm_f4comp(i, a) == Convert(i, a, FPR, FPR)

\* What writes only a part of the register comes after one that clears it.
Cleared(i, a, from) ==
  <<Result("rr", i, FPR, {}), Find("ra", a, from, {}),
    Op("rr", i, {<<"ra", a>>, <<"rr", 101>>}), Op("rr", 101, {}), Free(i)>>

asm_i2d(i, a) == Cleared(i, a, GP)
asm_q2d(i, a) == Cleared(i, a, GP)
asm_i2f(i, a) == Cleared(i, a, GP)
asm_f2d(i, a) == Cleared(i, a, FPR)
asm_d2f(i, a) == Cleared(i, a, FPR)

\* The upper half of the operand is cleared where it is.
asm_ui2d(i, a) ==
  <<Result("rr", i, FPR, {}), Find("ra", a, GP, {}),
    Op("rr", i, {<<"ra", a>>, <<"rr", 101>>}), Op("rr", 101, {}),
    Op("ra", a, {<<"ra", a>>}), Free(i)>>

asm_ui2f(i, a) == asm_ui2d(i, a)

asm_ffff2f4(i, x, y, z, w) ==
  <<Result("rr", i, FPR, {}), Temp("rt", FPR, {"rr"}),
    Op("rr", i, {<<"rr", 102>>, <<"rt", 101>>}),
    Find("rw", w, FPR, {"rt", "rr"}), Op("rt", 101, {<<"rt", 103>>, <<"rw", w>>}),
    Find("ry", y, FPR, {"rt", "rr"}), Op("rt", 103, {<<"ry", y>>}),
    Find("rz", z, FPR, {"rr"}), Op("rr", 102, {<<"rr", x>>, <<"rz", z>>}),
    Free(i), InRegOr("rx", x, "rr"),
    If(InReg(x), <<Find("rx", x, FPR, {})>>, <<Take(x, "rr")>>),
    Copy("rr", "rx", x)>>

asm_neg_abs(i, a) ==
  beginOp1Regs(i, a, FPR) \o
  <<Either(<<<<Op("rr", i, {<<"rr", a>>})>>,
             <<Temp("rt", FPR, {"ra", "rr"}), Temp("gt", GP, {}),
               Op("rr", i, {<<"rr", a>>, <<"rt", 101>>}), Op("rt", 101, {<<"gt", 102>>})>>
               \o LoadImm("gt", 102, TRUE, FALSE)>>),
    Copy("rr", "ra", a)>> \o endOpRegs(i, a)

-----------------------------------------------------------------------------
(* Comparisons, token c in CC, and what depends on them.                   *)

asm_cmpi_imm(a, c) == <<Find("ca", a, GP, {}), Op("CC", c, {<<"ca", a>>})>>

asm_cmpi(imm, a, b, c) ==
  IF imm THEN asm_cmpi_imm(a, c)
  ELSE <<Find2("ca", a, GP, "cb", b, GP), Op("CC", c, {<<"ca", a>>, <<"cb", b>>})>>

\* a < b and a <= b are compared the other way round.
asm_cmpd(a, b, c) ==
  <<Either(<<<<Find2("ca", a, FPR, "cb", b, FPR)>>, <<Find2("cb", b, FPR, "ca", a, FPR)>>>>),
    Op("CC", c, {<<"ca", a>>, <<"cb", b>>})>>

asm_cmpf4(a, b, c) ==
  <<Temp("gt", GP, {}), Op("CC", c, {<<"gt", 107>>}), Temp("rt", FPR, {}),
    Op("gt", 107, {<<"rt", 108>>}),
    Find2Except("ca", a, "cb", b, FPR, {"rt"}),
    Op("rt", 108, {<<"rt", a>>, <<"cb", b>>}), Copy("rt", "ca", a)>>

asm_cond(imm, i, a, b) ==
  <<Result("r", i, GP, {}), Op("r", i, {<<"r", 101>>}), Op("r", 101, {<<"CC", 102>>}),
    Free(i)>> \o asm_cmpi(imm, a, b, 102)

\* Equality is put together of two flags, in a register that has two bytes.
asm_condd(i, a, b) ==
  <<Either(<<<<Result("r", i, BaseRegs, {}), Op("r", i, {<<"r", 101>>})>>
               \o Alu(FALSE, "r", 101, {<<"r", 103>>})
               \o <<Op("r", 103, {<<"r", 104>>, <<"CC", 102>>}), Op("r", 104, {<<"CC", 102>>})>>,
             <<Result("r", i, GP, {}), Op("r", i, {<<"r", 101>>}),
               Op("r", 101, {<<"CC", 102>>})>>>>),
    Free(i)>> \o asm_cmpd(a, b, 102)

asm_condf4(i, a, b) ==
  <<Result("r", i, GP, {}), Op("r", i, {<<"r", 101>>}), Op("r", 101, {<<"CC", 102>>}),
    Free(i)>> \o asm_cmpf4(a, b, 102)

\* asm_branchi_S8, asm_branchi_S32, asm_branchd_helper: near or by way of a jump
\* that is skipped, they read the flags.
asm_branch_helper(c) == Protect(<<Reads({<<"CC", c>>})>>)

asm_branch(compare) == <<asm_branch_helper(102)>> \o compare

asm_branch_ov == <<asm_branch_helper(105)>>

\* A conditional move, or for FPR a copy that is jumped over.
asm_cmov(regs, i, t, f, compare) ==
  <<Result("rr", i, regs, {}), Find("rf", f, regs, {"rr"}), InRegOr("rt", t, "rr"),
    Op("rr", i, {<<"rf", f>>, <<"rr", t>>, <<"CC", 102>>}), Copy("rr", "rt", t),
    Free(i), Take(t, "rr")>> \o compare

\* The displacement pc is saved on the stack.
asm_brsavpc(flag) ==
  <<Find("r", flag, GP, {}),
    Protect(Alu(FALSE, "RSP", 123, {<<"RSP", 124>>}) \o
            <<Reads({<<"CC", 102>>}), Op("RSP", 124, {<<"RSP", 125>>}),
              Op("CC", 102, {<<"r", flag>>})>>
            \o Alu(FALSE, "RSP", 125, {}))>>

-----------------------------------------------------------------------------
(* Loads and stores.                                                       *)

Blindly(b, but, access(_)) == BlindlyIn(BaseRegs, "RBP", b, but, access)

\* The result, and the base unless it is blinded.
beginLoadRegs(i, allow) == <<Result("rr", i, allow, {})>>
endLoadRegs(i) == <<Free(i)>>

\* extended: what was loaded is converted where it is.
Load(i, b, allow, extended) ==
  LET access(at) == IF extended
                      THEN <<Op("rr", i, {<<"rr", 101>>}), Op("rr", 101, {<<"rb", at>>})>>
                      ELSE <<Op("rr", i, {<<"rb", at>>})>>
  IN beginLoadRegs(i, allow) \o Blindly(b, {"rr"}, access) \o endLoadRegs(i)

asm_load64(i, b, allow, extended) == Load(i, b, allow, extended)
asm_load128(i, b) == Load(i, b, FPR, FALSE)
asm_load32(i, b) == Load(i, b, GP, FALSE)

asm_store128(v, b) ==
  LET access(at) == <<Reads({<<"r", v>>, <<"rb", at>>})>>
  IN <<Find("r", v, FPR, {})>> \o Blindly(b, {}, access)

\* An immediate, a double, a double to be stored as a float, or an integer.  The
\* temporary of LIR_std2f is found after the address.
asm_store64(op, v, b) ==
  LET immediate(x) == <<Reads({<<"rb", x>>})>>
      access(x) == <<Reads({<<"r", v>>, <<"rb", x>>})>>
      stq(x) == <<Reads({<<"rv", v>>, <<"rb", x>>})>>
  IN CASE op = "imm" -> Blindly(b, {}, immediate)
       [] op = "std" -> <<Find("r", v, FPR, {})>> \o Blindly(b, {}, access)
       [] op = "std2f" ->
            <<Find("r", v, FPR, {}), Base("rb", b, BaseRegs, {}), Temp("t", FPR, {"r"}),
              Reads({<<"t", 101>>, <<"rb", b>>}), Op("t", 101, {<<"r", v>>, <<"t", 103>>}),
              Op("t", 103, {})>>
       [] op = "stq" -> StoreBlindlyIn(BaseRegs, "RBP", v, GP, b, stq)

\* What is stored is of 32 bits and not the address.
asm_store32(imm, v, b) ==
  LET immediate(at) == <<Reads({<<"rb", at>>})>>
      access(at) == <<Reads({<<"r", v>>, <<"rb", at>>})>>
  IN IF imm THEN Blindly(b, {}, immediate)
     ELSE <<Either(<<<<Find("r", v, GP, {})>>, <<Find("r", v, BaseRegs, {})>>>>)>>
            \o Blindly(b, {"r"}, access)

asm_spill(i, r, m) == <<Op(m, i, {<<r, i>>})>>

-----------------------------------------------------------------------------
(* Entry and exit.                                                         *)

asm_param(i, r) == <<Result("rr", i, {r}, {}), Free(i), Op(r, i, {})>>

genPrologue ==
  Alu(FALSE, "RSP", 123, {<<"RSP", 120>>}) \o
  <<Op("RBP", 120, {<<"RSP", 120>>}), Op("RSP", 120, {<<"RSP", 119>>}),
    Op("FPslot", 122, {<<"RBP", 122>>, <<"RSP", 119>>})>>

genEpilogue ==
  <<Reads({<<"RBP", 122>>, <<"RSP", 119>>, <<"RETslot", 121>>}),
    Op("RSP", 119, {<<"RSP", 120>>}), Op("RBP", 122, {<<"FPslot", 122>>, <<"RSP", 120>>})>>

asm_ret(v, r) ==
  <<Unreached, Reads({<<r, v>>})>> \o genEpilogue
    \o <<Op("RSP", 120, {<<"RBP", 120>>}), Release, AssignSaved, Specific(v, r)>>

\* Where the target is not compiled: to the epilogue, with the guard in RAX.
nFragExit ==
  <<Reads({<<"RAX", 131>>})>> \o genEpilogue \o <<Op("RSP", 120, {<<"RBP", 120>>})>>
    \o LoadImm("RAX", 131, TRUE, FALSE)

asm_xcc(compare) == Exit(nFragExit) \o asm_branch(compare)

asm_jtbl(v) ==
  <<Unreached, Release, Find("indexreg", v, GP, {}),
    Either(<<<<Reads({<<"indexreg", v>>})>>,
             <<Temp("tablereg", GP, {"indexreg"}),
               Reads({<<"indexreg", v>>, <<"tablereg", 101>>})>>
               \o LoadImm("tablereg", 101, TRUE, FALSE)>>)>>

-----------------------------------------------------------------------------
(* Assembler::gen: what may define value i of a program of kinds k, and    *)
(* what may come where values 1..n are defined.  A comparison of float4    *)
(* values is left to Float4Defs and Float4Uses; an address that can be computed again     *)
(* where a temporary of FPR is needed after it, a blinded store of its own *)
(* address and a blinded argument of an indirect call are left out.        *)

Imm(k, b) == k[b] = "immi"

Compares(k, n) ==
  LET Gs == OfKind(k, n, GpKinds)
      Ds == OfKind(k, n, FpKinds)
  IN {asm_cmpi(Imm(k, p[2]), p[1], p[2], 102) : p \in Gs \X Gs}
     \cup {asm_cmpd(p[1], p[2], 102) : p \in Ds \X Ds}

DefInt(k, i) ==
  LET Gs == OfKind(k, i - 1, GpKinds)
      Ds == OfKind(k, i - 1, FpKinds)
  IN {asm_load32(i, a) : a \in Gs} \cup {asm_load64(i, a, GP, FALSE) : a \in Gs}
     \cup {asm_neg_not(i, a) : a \in Gs}
     \cup {asm_shift_imm(i, a) : a \in Gs}
     \cup {asm_q2i(i, a) : a \in Gs} \cup {asm_ui2uq(i, a) : a \in Gs}
     \cup {asm_arith_imm(mul, FALSE, i, a) : mul \in BOOLEAN, a \in Gs}
     \cup {asm_branch_ov \o asm_arith_imm(mul, TRUE, i, a) : mul \in BOOLEAN, a \in Gs}
     \cup {asm_arith_imm_blind(i, a) : a \in Gs}
     \cup {asm_arith(FALSE, i, p[1], p[2]) : p \in Gs \X Gs}
     \cup {asm_branch_ov \o asm_arith(TRUE, i, p[1], p[2]) : p \in Gs \X Gs}
     \cup {asm_shift(i, p[1], p[2]) : p \in Gs \X Gs}
     \cup {asm_div(i, p[1], p[2]) : p \in Gs \X Gs}
     \cup {asm_divq(i, p[1], p[2]) : p \in Gs \X Gs}
     \cup UNION {{asm_div_mod(i, i - 1, p[1], p[2]), asm_divq_modq(i, i - 1, p[1], p[2])} :
             p \in {q \in Gs \X Gs : k[i - 1] = "int" /\ i - 1 \notin {q[1], q[2]}}}
     \cup {asm_cond(Imm(k, p[2]), i, p[1], p[2]) : p \in Gs \X Gs}
     \cup {asm_condd(i, p[1], p[2]) : p \in Ds \X Ds}
     \cup UNION {{asm_d2i(i, a), asm_d2q(i, a), asm_f2i(i, a), asm_dasq(i, a)} : a \in Ds}
     \cup {asm_cmov(GP, i, p[1], p[2], asm_cmpi(FALSE, a, 1, 102)) :
             a \in Gs, p \in Gs \X Gs}
     \cup {asm_call(k, i, "RAX", addr, <<a, p, p>>) :
             addr \in {x \in Gs : \A y \in Gs : k[y] # "tainted"} \cup {0},
             a \in Gs, p \in Gs \cup Ds}
     \cup {asm_param(i, "RCX") : x \in {i} \cap {1}}

DefDbl(k, i) ==
  LET Gs == OfKind(k, i - 1, GpKinds)
      Ds == OfKind(k, i - 1, FpKinds)
  IN {asm_load64(i, p[1], FPR, p[2]) : p \in Gs \X BOOLEAN}
     \cup {asm_load128(i, a) : a \in Gs} \cup {asm_neg_abs(i, a) : a \in Ds}
     \cup {asm_fop(i, p[1], p[2]) : p \in Ds \X Ds}
     \cup UNION {{asm_i2d(i, a), asm_q2d(i, a), asm_i2f(i, a), asm_ui2d(i, a),
                  asm_ui2f(i, a), asm_qasd(i, a)} : a \in Gs}
     \cup UNION {{asm_f2d(i, a), asm_d2f(i, a), asm_f2f4(i, a), asm_f4comp(i, a)} :
                 a \in Ds}
     \cup {asm_ffff2f4(i, p[1], p[2], p[1], p[2]) : p \in Ds \X Ds}
     \cup {asm_cmov(FPR, i, p[1], p[2], asm_cmpi(FALSE, a, 1, 102)) :
             a \in Gs, p \in Ds \X Ds}
     \cup {asm_call(k, i, "XMM0", 0, <<p[1], p[2]>>) : p \in Ds \X Gs}

Defs(k, i) ==
  CASE k[i] = "int" -> DefInt(k, i)
    [] k[i] = "dbl" -> DefDbl(k, i)
    [] k[i] = "lea" -> {asm_arith_imm(FALSE, FALSE, i, 1)}
    [] k[i] = "immi" -> {asm_immi(i, FALSE)}
    [] k[i] = "tainted" -> {asm_immi(i, TRUE)}
    [] k[i] = "immd" -> {asm_immd(i), asm_immf(i), asm_immf4(i)}
    [] k[i] = "saved" -> {asm_param(i, "R12")}

Uses(k, n) ==
  LET Gs == OfKind(k, n, GpKinds)
      Ds == OfKind(k, n, FpKinds)
  IN {asm_store32(Imm(k, p[1]), p[1], p[2]) : p \in {q \in Gs \X Gs : q[1] # q[2]}}
     \cup {asm_store64(IF Imm(k, p[1]) THEN "imm" ELSE "stq", p[1], p[2]) :
             p \in Gs \X Gs}
     \cup {asm_store64("stq", p[1], p[2]) : p \in Gs \X Gs}
     \cup {asm_store64("std", p[1], p[2]) : p \in Ds \X Gs}
     \cup {asm_store128(p[1], p[2]) : p \in Ds \X Gs}
     \cup {asm_store64("std2f", p[1], p[2]) : p \in Ds \X {b \in Gs : k[b] = "int"}}
     \cup {asm_branch(c) : c \in Compares(k, n)}
     \cup {asm_xcc(asm_cmpi(FALSE, a, a, 102)) : a \in Gs}
     \cup {asm_brsavpc(a) : a \in Gs} \cup {asm_jtbl(a) : a \in Gs}
     \cup {asm_ret(v, "RAX") : v \in Gs} \cup {asm_ret(v, "XMM0") : v \in Ds}
     \cup {asm_call(k, 0, "RAX", 0, <<p[1], p[2]>>) : p \in Gs \X Gs}

\* What the double constants, restored by way of a register, may spoil.
Float4Defs(k, i) ==
  LET Ds == OfKind(k, i - 1, FpKinds)
  IN Defs(k, i) \cup IF k[i] = "int" THEN {asm_condf4(i, p[1], p[2]) : p \in Ds \X Ds}
                                     ELSE {}

Float4Uses(k, n) ==
  LET Ds == OfKind(k, n, FpKinds)
  IN Uses(k, n) \cup {asm_branch(asm_cmpf4(p[1], p[2], 102)) : p \in Ds \X Ds}

=============================================================================
