----------------------------- MODULE NativeI386 -----------------------------
(* The i386 back end (nanojit/Nativei386.cpp) as scripts, with SSE2 or     *)
(* with the x87 stack alone, of which one register is managed.             *)
EXTENDS X86

CONSTANT Sse2   \* Config::i386_sse2

AllowableByteRegs == {"EAX", "ECX", "EDX"}
GP == AllowableByteRegs \cup {"ESI"}
XMM == IF Sse2 THEN {"XMM0", "XMM1", "XMM2"} ELSE {}
X87 == {"FST0"}
FpRegs == XMM \cup X87

\* Where a value to be computed with is found.
Working == IF Sse2 THEN XMM ELSE FpRegs

\* 123 is what ESP has between the prologue and the epilogue.
Machine ==
  [managed |-> GP \cup FpRegs, fpr |-> FpRegs,
   order |-> <<"EAX", "ECX", "EDX", "ESI", "XMM0", "XMM1", "XMM2", "FST0">>,
   saved |-> {"ESI"}, savedParam |-> "ESI",
   classes |-> {GP, XMM, X87}, fp |-> "EBP", bases |-> GP,
   remat |-> {"immi", "immd", "alloc", "lea"},
   tempKinds |-> {}, tempRegs |-> {},
   stack |-> X87, restoreTrash |-> {}, breakTrash |-> {},
   fixed |-> {<<"EBP", 120>>, <<"ESP", 123>>, <<"RETslot", 121>>, <<"FPslot", 122>>},
   entry |-> {<<"ESP", 119>>, <<"RETslot", 121>>, <<"EBP", 122>>}]

\* What is pushed on the x87 stack finds it empty, what is popped leaves it so.
Push(i, reads) == Op("FST0", i, reads \cup {<<"FST0", Empty>>})
Pop(i) == Op("FST0", Empty, {<<"FST0", i>>})

Blindly(b, but, access(_)) == BlindlyIn(GP, "EBP", b, but, access)

\* The result is given up; an operand that has no register gets the result's.
Released(i, a) == <<Free(i), Take(a, "ra")>>

OneOperand(i, a, allow, but) ==
  <<Result("rr", i, allow, but), InRegOr("ra", a, "rr")>>

-----------------------------------------------------------------------------
(* Constants.                                                              *)

LoadImm(r, i, mayClobber, blind) ==
  LET xor == IF mayClobber THEN <<Alu(FALSE, r, i, {})>> ELSE <<>>
      blinded == IF blind THEN <<Alu(FALSE, r, i, {<<r, 101>>}) \o <<Op(r, 101, {})>>>>
                          ELSE <<>>
  IN <<Either(<<<<Op(r, i, {})>>>> \o xor \o blinded)>>

asm_immi(i, blind) ==
  <<Result("rr", i, GP, {})>> \o LoadImm("rr", i, TRUE, blind) \o <<Free(i)>>

\* A constant without a register is not loaded here.  integral: it may be
\* converted from an integer.
LoadConstant(i, integral) ==
  LET pool == <<Op("rr", i, {})>>
      convert == <<Temp("tr", GP, {}), Op("rr", i, {<<"tr", 103>>, <<"rr", 104>>}),
                   Op("rr", 104, {})>> \o LoadImm("tr", 103, TRUE, TRUE)
  IN <<When(InReg(i),
            <<InRegOr("rr", i, "rr"),
              If(OneOf("rr", XMM), <<Either(<<pool>> \o IF integral THEN <<convert>> ELSE <<>>)>>,
                                   <<Push(i, {})>>)>>),
       Free(i)>>

asm_immd(i) == LoadConstant(i, TRUE)
asm_immf(i) == LoadConstant(i, TRUE)
asm_immf4(i) == LoadConstant(i, FALSE)

-----------------------------------------------------------------------------
(* Arithmetic.                                                             *)

\* A sum with a constant, which leaves the flags alone unless it is blinded.
asm_lea(blind, i, a) ==
  OneOperand(i, a, GP, {}) \o
  (IF blind THEN Alu(FALSE, "rr", i, {<<"rr", 101>>}) \o <<Op("rr", 101, {<<"ra", a>>})>>
            ELSE <<Op("rr", i, {<<"ra", a>>})>>)
  \o Released(i, a)

\* The same of the address of stack space.
asm_lea_alloc(i, a) ==
  <<Result("rr", i, GP, {}), Mem("m", a), Op("rr", i, {<<"EBP", 120>>}), Free(i)>>

\* Another operation with a constant, in two parts if it is blinded.
asm_arith_imm(ov, blind, i, a) ==
  OneOperand(i, a, GP, {}) \o
  (IF blind THEN Alu(FALSE, "rr", i, {<<"rr", 101>>}) \o Alu(FALSE, "rr", 101, {<<"rr", a>>})
            ELSE Alu(ov, "rr", i, {<<"rr", a>>}))
  \o <<Copy("rr", "ra", a)>> \o Released(i, a)

asm_arith(ov, i, a, b) ==
  (IF a = b THEN OneOperand(i, a, GP, {}) \o <<Let("rb", "ra")>>
            ELSE <<Find("rb", b, GP, {})>> \o OneOperand(i, a, GP, {"rb"}))
  \o Alu(ov, "rr", i, {<<"rr", a>>, <<"rb", b>>}) \o <<Copy("rr", "ra", a)>>
  \o Released(i, a)

asm_shift(i, a, b) ==
  <<Specific(b, "ECX")>> \o OneOperand(i, a, GP \ {"ECX"}, {})
    \o Alu(FALSE, "rr", i, {<<"rr", a>>, <<"ECX", b>>}) \o <<Copy("rr", "ra", a)>>
    \o Released(i, a)

\* DIV and CDQ: the quotient is d, and the remainder m if m is not 0.
Idiv(d, m, a, b) ==
  <<Trash({"CC"}), IF m = 0 THEN Trash({"EDX"}) ELSE Op("EDX", m, {}),
    Op("EAX", d, {<<"EAX", a>>, <<"EDX", 112>>, <<"rb", b>>}),
    Op("EDX", 112, {<<"EAX", a>>}), Copy("EAX", "ra", a)>>

asm_div(i, a, b) ==
  <<Find("rb", b, GP, {"EAX", "EDX"}), EvictActive("EDX")>>
    \o OneOperand(i, a, {"EAX"}, {}) \o Idiv(i, 0, a, b) \o Released(i, a)

asm_div_mod(i, div, a, b) ==
  <<Result("rm", i, {"EDX"}, {}), Result("rr", div, {"EAX"}, {}),
    Find("rb", b, GP, {"EAX", "EDX"}), InRegOr("ra", a, "EAX")>>
    \o Idiv(div, i, a, b) \o <<Free(i), Free(div), Take(a, "EAX")>>

asm_neg_not(i, a) ==
  OneOperand(i, a, GP, {}) \o Alu(FALSE, "rr", i, {<<"rr", a>>})
    \o <<Copy("rr", "ra", a)>> \o Released(i, a)

\* An operand that is expected on the x87 stack, to be returned, is brought to memory first.
FromX87(a) == <<When(InMask(a, X87), <<EvictActive("FST0")>>)>>

asm_neg_abs(i, a) ==
  IF Sse2
    THEN <<Result("rr", i, XMM, {})>> \o FromX87(a)
           \o <<InRegOr("ra", a, "rr"), Expect(OneOf("ra", XMM)),
                Op("rr", i, {<<"rr", a>>}), Copy("rr", "ra", a)>>
           \o Released(i, a)
    ELSE <<Result("rr", i, X87, {}), Op("FST0", i, {<<"FST0", a>>}), Free(i),
           Take(a, "FST0")>>

asm_recip_sqrt(i, a) ==
  <<Exclude(InMask(a, X87))>> \o OneOperand(i, a, XMM, {})
    \o <<Op("rr", i, {<<"ra", a>>})>> \o Released(i, a)

\* With one register, what is computed with it is in memory or a constant.
asm_fop(k, i, a, b) ==
  IF Sse2
    THEN (IF a = b THEN <<Result("rr", i, XMM, {})>>
                   ELSE <<Find("rb", b, XMM, {}), Result("rr", i, XMM, {"rb"})>>)
         \o FromX87(a)
         \o <<InRegOr("ra", a, "rr"), Expect(OneOf("ra", XMM))>>
         \o (IF a = b THEN <<Let("rb", "ra")>> ELSE <<>>)
         \o <<Op("rr", i, {<<"rr", a>>, <<"rb", b>>}), Copy("rr", "ra", a)>>
         \o Released(i, a)
    ELSE <<Result("rr", i, X87, {})>> \o
         (IF k[a] = "immd" THEN <<Op("FST0", i, {<<"FST0", b>>})>>
          ELSE <<Mem("m", a), Op("FST0", i, {<<"FST0", b>>, <<"m", a>>})>>)
         \o <<Free(i), Take(b, "FST0")>>

-----------------------------------------------------------------------------
(* Conversions.                                                            *)

\* To an x87 register an integer goes by way of memory.
asm_i2d(i, a) ==
  <<Result("rr", i, FpRegs, {}),
    If(OneOf("rr", XMM),
       <<Find("ra", a, GP, {}), Op("rr", i, {<<"ra", a>>, <<"rr", 101>>}), Op("rr", 101, {})>>,
       <<Mem("m", a), Push(i, {<<"m", a>>})>>),
    Free(i)>>

asm_i2f(i, a) == asm_i2d(i, a)

asm_ui2d(i, a) ==
  <<Result("rr", i, FpRegs, {}),
    If(OneOf("rr", XMM),
       <<Temp("rt", GP, {}), Op("rr", i, {<<"rr", 102>>}),
         Op("rr", 102, {<<"rt", 101>>, <<"rr", 103>>}), Op("rr", 103, {}),
         If(InMask(a, GP),
            <<InRegOr("ra", a, "ra"), Op("rt", 101, {<<"ra", a>>})>>,
            <<Mem("m", a)>> \o Alu(FALSE, "rt", 101, {<<"rt", a>>})
              \o <<Op("rt", a, {<<"m", a>>})>>)>>,
       <<Find("ra", a, GP, {})>> \o Alu(FALSE, "ESP", 123, {<<"ESP", 125>>})
         \o <<Push(i, {<<"ESP", 125>>, <<"pushed", a>>}),
              Op("ESP", 125, {<<"ESP", 124>>}), Op("pushed", a, {<<"ra", a>>}),
              Op("ESP", 124, {<<"ESP", 123>>})>>),
    Free(i)>>

asm_ui2f(i, a) == asm_ui2d(i, a)

\* On x87 the result is stored in its slot, with what it is converted to.
Convert(i, a, to) ==
  LET store(pop) ==
        <<Specific(a, "FST0"),
          When(InReg(i), <<InRegOr("ri", i, "ri"), EvictActive("ri")>>), Mem("m", i)>>
        \o (IF pop THEN <<Pop(a)>> ELSE <<>>) \o <<Op("m", i, {<<"FST0", a>>})>>
  IN (IF Sse2 THEN <<Result("rr", i, to, {}), Find("ra", a, XMM, {}), Op("rr", i, {<<"ra", a>>})>>
              ELSE <<If(InReg(a), store(FALSE), store(TRUE))>>)
     \o <<Free(i)>>

asm_f2i(i, a) == Convert(i, a, GP)
asm_d2i(i, a) == Convert(i, a, GP)
asm_f2d(i, a) == Convert(i, a, XMM)
asm_d2f(i, a) == Convert(i, a, XMM)
asm_f2f4(i, a) == Convert(i, a, XMM)
asm_f4comp(i, a) == Convert(i, a, XMM)

asm_ffff2f4(i, x, y, z, w) ==
  <<Result("rr", i, XMM, {}), Temp("rt", XMM, {"rr"}),
    Op("rr", i, {<<"rr", 102>>, <<"rt", 101>>}),
    Find("rw", w, XMM, {"rt", "rr"}), Op("rt", 101, {<<"rt", 103>>, <<"rw", w>>}),
    Find("ry", y, XMM, {"rt", "rr"}), Op("rt", 103, {<<"ry", y>>}),
    Find("rz", z, XMM, {"rr"}), Op("rr", 102, {<<"rr", x>>, <<"rz", z>>}), Free(i),
    If(InReg(x), <<Find("rx", x, XMM, {})>>, <<Let("rx", "rr"), Take(x, "rr")>>),
    Copy("rr", "rx", x)>>

-----------------------------------------------------------------------------
(* Calls.                                                                  *)

asm_arg(k, p, r) ==
  IF k[p] \in {"immi", "tainted"} THEN LoadImm(r, p, TRUE, k[p] = "tainted")
  ELSE <<If(InReg(p), <<InRegOr("ra", p, "ra"), Copy(r, "ra", p)>>,
            <<If(InAr(p),
                 <<Mem("m", p), Op(r, p, IF k[p] = "alloc" THEN {<<"EBP", 120>>}
                                                           ELSE {<<"m", p>>})>>,
                 <<Take(p, r)>>)>>)>>

\* ESP goes from `from` to `to`, and what is pushed is at the new ESP.
asm_pusharg(k, p, from, to) ==
  LET push(reads) == <<Op("ESP", to, reads \cup {<<"ESP", from>>})>>
      find == <<Find("ra", p, GP, {})>> \o push({<<"ra", p>>})
  IN <<If(IsExtant(p),
          IF k[p] = "alloc" THEN find
          ELSE <<If(InReg(p), <<InRegOr("ra", p, "ra")>> \o push({<<"ra", p>>}),
                    <<Mem("m", p)>> \o push({<<"m", p>>}))>>,
          IF k[p] = "immi" THEN push({}) ELSE find)>>

\* i386_fixed_esp: the place of each argument is reserved.
asm_stkarg(k, p) ==
  LET store == <<Reads({<<"ra", p>>, <<"ESP", 123>>})>>
      find == <<Find("ra", p, AllowableByteRegs, {})>> \o store
      given == IF k[p] = "alloc" THEN find
               ELSE <<If(InReg(p), <<InRegOr("ra", p, "ra")>> \o store, find)>>
  IN IF k[p] = "immi"
       THEN <<If(IsExtant(p), given, <<Reads({<<"ESP", 123>>})>>)>> ELSE given

\* What is stored from the x87 stack is popped, and loaded again for each use.
asm_farg(p, from, to) ==
  <<Find("r", p, FpRegs, {}),
    If(OneOf("r", XMM), <<Reads({<<"r", p>>, <<"ESP", to>>})>>,
       <<Reads({<<"ESP", to>>}), Pop(p), EvictActive("FST0")>>)>>
  \o IF from = to THEN <<>> ELSE Alu(FALSE, "ESP", to, {<<"ESP", from>>})

asm_f4arg(p, from, to) ==
  <<Find("r", p, XMM, {}), Reads({<<"r", p>>, <<"ESP", to>>})>>
  \o IF from = to THEN <<>> ELSE Alu(FALSE, "ESP", to, {<<"ESP", from>>})

\* Where the n-th argument goes: a register, or "stack".  Of a convention c, fast is
\* ABI_FASTCALL, fixed is i386_fixed_esp; f4: what is floating is a float4.
ArgAt(k, c, args, n) ==
  LET dbl == k[args[n]] \in FpKinds
      nth == Cardinality({m \in 1..n : (k[args[m]] \in FpKinds) = dbl})
  IN CASE dbl /\ c.f4 -> <<"XMM0", "XMM1", "XMM2">>[nth]
       [] ~dbl /\ c.fast /\ nth <= 2 -> <<"ECX", "EDX">>[nth]
       [] OTHER -> "stack"

\* An argument that is passed on the stack: the n-th of them, of `all`.
StackArg(k, c, p, n, all) ==
  LET to == IF c.fixed THEN 123 ELSE 141 + all - n
      from == IF c.fixed THEN 123 ELSE to - 1
  IN CASE k[p] \in FpKinds /\ c.f4 -> asm_f4arg(p, from, to)
       [] k[p] \in FpKinds /\ ~c.f4 -> asm_farg(p, from, to)
       [] OTHER -> IF c.fixed THEN asm_stkarg(k, p) ELSE asm_pusharg(k, p, from, to)

\* The caller or, in other conventions than ABI_CDECL, the callee pops the
\* arguments; unless their place is reserved ESP is aligned first, to 140.
asm_call(k, c, i, r, addr, args) ==
  LET at(n) == ArgAt(k, c, args, n)
      stacked == {n \in DOMAIN args : at(n) = "stack"}
      all == Cardinality(stacked)
      pushed == all > 0 /\ ~c.fixed
      bottom == IF pushed THEN 140 + all ELSE 123
      after == CASE all > 0 /\ c.fast -> IF c.fixed THEN 126 ELSE 140 [] OTHER -> bottom
      reads == {<<at(n), args[n]>> : n \in DOMAIN args \ stacked}
                 \cup {<<"ESP", bottom>>, <<"FST0", Empty>>}
                 \cup IF addr = 0 THEN {} ELSE {<<"EAX", addr>>}
      result == IF i = 0 THEN {} ELSE {r}
      arg(n) == CASE at(n) = "stack" ->
                       StackArg(k, c, args[n], Cardinality(stacked \cap 1..n), all)
                  [] at(n) \in GP -> asm_arg(k, args[n], at(n))
                  [] OTHER -> <<>>
  IN (IF i = 0 THEN <<EvictScratchExcept({})>>
               ELSE <<Result("rr", i, {r}, {}), EvictScratchExcept({r})>>)
     \o (IF after = 123 THEN <<>> ELSE Alu(FALSE, "ESP", 123, {<<"ESP", after>>}))
     \o <<Trash((AllowableByteRegs \cup XMM \cup {"CC"}) \ result)>>
     \o (IF after = bottom THEN <<>> ELSE <<Op("ESP", after, {<<"ESP", bottom>>})>>)
     \o (IF i = 0 THEN <<>> ELSE <<Op(r, i, {})>>) \o <<Reads(reads)>>
     \o (IF i = 0 THEN <<>> ELSE <<Free(i)>>)
     \o (IF addr = 0 THEN <<>> ELSE asm_arg(k, addr, "EAX"))
     \o FlattenSeq([n \in DOMAIN args |->
          IF at(n) \in XMM THEN <<Specific(args[n], at(n))>> ELSE <<>>])
     \o FlattenSeq([n \in DOMAIN args |-> arg(n)])
     \o IF pushed THEN Alu(FALSE, "ESP", 140, {<<"ESP", 123>>}) ELSE <<>>

-----------------------------------------------------------------------------
(* Comparisons, token c in CC, and what depends on them.                   *)

asm_cmpi(imm, a, b, c) ==
  IF imm THEN <<Find("ca", a, GP, {}), Op("CC", c, {<<"ca", a>>})>>
  ELSE <<Find2("ca", a, GP, "cb", b, GP), Op("CC", c, {<<"ca", a>>, <<"cb", b>>})>>

\* On x87 the flags go by way of EAX.
asm_cmpd(k, a, b, c) ==
  LET compare(pop, l, r) ==
        <<Specific(l, "FST0"), Op("CC", c, {<<"EAX", 107>>}), Op("EAX", 107, {<<"FSW", 108>>})>>
        \o (IF r = l \/ k[r] = "immd" THEN <<Let("m", "FST0")>> ELSE <<Mem("m", r)>>)
        \o (IF pop THEN <<Pop(l)>> ELSE <<>>)
        \o <<Op("FSW", 108, {<<"FST0", l>>}
                 \cup IF r = l \/ k[r] = "immd" THEN {} ELSE {<<"m", r>>})>>
      x87(l, r) == <<EvictActive("EAX"),
                     If(InReg(l), compare(FALSE, l, r), compare(TRUE, l, r))>>
  IN IF Sse2
       THEN <<Either(<<<<Find2("ca", a, XMM, "cb", b, XMM)>>,
                       <<Find2("cb", b, XMM, "ca", a, XMM)>>>>),
              Op("CC", c, {<<"ca", a>>, <<"cb", b>>})>>
       ELSE <<Either(<<x87(a, b), x87(b, a)>>)>>

asm_cmpf4(a, b, c) ==
  <<Temp("gt", GP, {}), Op("CC", c, {<<"gt", 107>>}), Temp("rt", XMM, {}),
    Op("gt", 107, {<<"rt", 108>>}),
    Find2Except("ca", a, "cb", b, XMM, {"rt"}),
    Op("rt", 108, {<<"rt", a>>, <<"cb", b>>}), Copy("rt", "ca", a)>>

\* One flag, in the low byte of a register.
Set(i) ==
  <<Result("r", i, AllowableByteRegs, {}), Op("r", i, {<<"r", 101>>}),
    Op("r", 101, {<<"CC", 102>>}), Free(i)>>

asm_cond(imm, i, a, b) == Set(i) \o asm_cmpi(imm, a, b, 102)
asm_condf4(i, a, b) == Set(i) \o asm_cmpf4(a, b, 102)

\* With SSE equality is put together of two flags, in both bytes.
asm_condd(k, i, a, b) ==
  LET both == <<Result("r", i, AllowableByteRegs, {}), Op("r", i, {<<"r", 101>>})>>
                \o Alu(FALSE, "r", 101, {<<"r", 103>>})
                \o <<Op("r", 103, {<<"r", 104>>, <<"CC", 102>>}),
                     Op("r", 104, {<<"CC", 102>>}), Free(i)>>
  IN (IF Sse2 THEN <<Either(<<Set(i), both>>)>> ELSE Set(i)) \o asm_cmpd(k, a, b, 102)

asm_branch_helper(c) == <<Reads({<<"CC", c>>})>>
asm_branchd_helper(c) == Protect(<<Reads({<<"CC", c>>}), Reads({<<"CC", c>>})>>)

asm_branch(compare) == asm_branch_helper(102) \o compare
asm_branchd(compare) == <<asm_branchd_helper(102)>> \o compare
asm_branch_ov == asm_branch_helper(105)

\* asm_cmpi where a comparison with zero tests what the instruction before it, an
\* AND or OR, has left in the flags: no TEST is emitted.
asm_branch_test(i) == asm_branch_helper(105) \o <<Find("ca", i, GP, {})>>

\* A conditional move; of other registers, a copy that is jumped over.  With one
\* register, what it has is replaced.
asm_cmov(k, fp, i, t, f, compare) ==
  LET allow == IF fp THEN XMM ELSE GP
  IN IF fp /\ ~Sse2
       THEN <<Result("rr", i, X87, {})>> \o
            (IF k[f] = "immd" THEN <<Op("FST0", i, {<<"FST0", t>>, <<"CC", 102>>})>>
             ELSE <<Mem("m", f), Op("FST0", i, {<<"m", f>>, <<"FST0", t>>, <<"CC", 102>>})>>)
            \o <<Free(i), Take(t, "FST0")>> \o compare
       ELSE <<Exclude(InMask(t, X87)), Result("rr", i, allow, {}),
              Find("rf", f, allow, {"rr"}), InRegOr("rt", t, "rr"),
              Op("rr", i, {<<"rf", f>>, <<"rr", t>>, <<"CC", 102>>}), Copy("rr", "rt", t),
              Free(i), Take(t, "rr")>> \o compare

\* The displacement pc is saved on the stack, and discarded by what it leads to.
asm_brsavpc(flag) ==
  <<Find("r", flag, GP, {}),
    Protect(Alu(FALSE, "ESP", 123, {<<"ESP", 125>>})
            \o <<Op("ESP", 125, {<<"ESP", 124>>})>>
            \o Alu(FALSE, "ESP", 124, {<<"ESP", 123>>})
            \o <<Reads({<<"CC", 102>>}), Op("CC", 102, {<<"r", flag>>})>>)>>

-----------------------------------------------------------------------------
(* Loads and stores.  An address that is a sum is a pair of values, and is *)
(* not blinded; x is 0 where it is not.                                    *)

\* getBaseIndexScale and getBaseReg2.
Indexed(x, b) == Base2("ri", x, GP, "rb", b, GP)

asm_load128(i, b, x) ==
  LET access(at) == <<Op("rr", i, {<<"rb", at>>})>>
  IN <<Result("rr", i, XMM, {})>> \o
     (IF x = 0 THEN Blindly(b, {}, access)
      ELSE <<Indexed(x, b), Op("rr", i, {<<"rb", b>>, <<"ri", x>>})>>)
     \o <<Free(i)>>

\* asm_mmi, asm_mmq, where the address is not blinded: from memory to memory, one
\* word or two after the other.
CopyWords(v, b, loading) ==
  LET store(rb, at) == IF loading THEN Op("m", v, {<<"t", 101>>})
                                  ELSE Reads({<<"t", 101>>, <<rb, at>>})
      load(rb, at) == Op("t", 101, IF loading THEN {<<rb, at>>} ELSE {<<"m", v>>})
  IN <<Either(<<<<Temp("t", GP, {"rb"}), store("rb", b), load("rb", b)>>,
                <<Temp("t", GP, {"rb"}), Temp("trb", GP, {"rb", "t"}),
                  store("trb", 201), load("trb", 201)>>
                  \o Alu(FALSE, "trb", 201, {<<"trb", b>>}) \o <<Op("trb", b, {<<"rb", b>>})>>>>)>>

\* A value that is used from memory only is not brought to a register.
asm_load64(op, i, b, x) ==
  LET load(at) == IF op = "ldf2d" THEN <<Op("rr", i, {<<"rr", 101>>}), Op("rr", 101, {<<"rb", at>>})>>
                                  ELSE <<Op("rr", i, {<<"rb", at>>})>>
      push(at) == <<Push(i, {<<"rb", at>>})>>
      move(at) == <<Temp("t", XMM, {}), Op("m", i, {<<"t", 101>>}), Op("t", 101, {<<"rb", at>>})>>
      expand(at) == <<Op("m", i, {<<"rb", at>>})>>
      indexed == <<Indexed(x, b), Op("rr", i, {<<"rb", b>>, <<"ri", x>>})>>
  IN <<If(InReg(i),
          <<Result("rr", i, FpRegs, {}),
            If(OneOf("rr", XMM), IF x = 0 THEN Blindly(b, {}, load) ELSE indexed,
                                 Blindly(b, {}, push))>>,
          <<Mem("m", i)>> \o
          CASE op = "ldf2d" -> Blindly(b, {}, expand)
            [] op = "ldd" /\ Sse2 -> Blindly(b, {}, move)
            [] OTHER -> <<Base("rb", b, GP, {})>> \o CopyWords(i, b, TRUE)),
       Free(i)>>

\* The result's register is also the temporary for a blinded address; that of a sum
\* is the register of whichever part has none.
asm_load32(k, i, b, x) ==
  LET find == <<Base("ob", b, GP, {})>>
      direct == <<Base("rb", b, GP, {}), Op("rr", i, {<<"rb", b>>})>>
      blinded == BlindBase("EBP", b, find, <<Let("rb", "rr")>>)
                   \o <<Op("rr", i, {<<"rb", 201>>})>> \o Unblind(b)
      indexed == <<If(InReg(b),
                      <<InRegOr("rb", b, "rr"),
                        If(InReg(x), <<Find("ri", x, GP, {"rb"})>>, <<Let("ri", "rr")>>)>>,
                      <<Let("rb", "rr"), Find("ri", x, GP, {"rb"})>>),
                   Op("rr", i, {<<"rb", b>>, <<"ri", x>>}), Free(i),
                   If(InReg(b), <<Take(x, "rr")>>, <<Take(b, "rr")>>)>>
  IN <<Result("rr", i, GP, {})>> \o
     (CASE x # 0 -> indexed
        [] x = 0 /\ k[b] = "immi" -> <<Either(<<<<Op("rr", i, {})>>, blinded>>), Free(i)>>
        [] OTHER -> <<Either(<<direct, blinded>>), Free(i)>>)

asm_store32(k, v, b, x) ==
  LET immediate(at) == <<Reads({<<"rb", at>>})>>
      access(at) == <<Reads({<<"rv", v>>, <<"rb", at>>})>>
      index == IF x = v THEN <<Let("ri", "rv")>> ELSE IF x = b THEN <<Let("ri", "rb")>>
               ELSE <<Find("ri", x, GP, {"rb", "rv"})>>
      from(regs) ==
        CASE x # 0 -> <<Base2("rv", v, regs, "rb", b, GP)>> \o index
                        \o <<Reads({<<"rv", v>>, <<"rb", b>>, <<"ri", x>>})>>
          [] x = 0 /\ k[b] = "immi" -> <<Find("rv", v, regs, {}), Reads({<<"rv", v>>})>>
          [] OTHER -> StoreBlindlyIn(GP, "EBP", v, regs, b, access)
  IN CASE k[v] = "immi" /\ x = 0 -> Blindly(b, {}, immediate)
       [] k[v] = "immi" /\ x # 0 -> <<Indexed(x, b), Reads({<<"rb", b>>, <<"ri", x>>})>>
       [] OTHER -> <<Either(<<from(GP), from(AllowableByteRegs)>>)>>

\* A value that has no register is popped when it is stored from the x87 stack.
StoreFp(op, v, b) ==
  LET sse(at) == IF op = "std2f"
                   THEN <<Temp("rt", XMM, {"rv"}), Reads({<<"rt", 101>>, <<"rb", at>>}),
                          Op("rt", 101, {<<"rv", v>>, <<"rt", 103>>}), Op("rt", 103, {})>>
                   ELSE <<Reads({<<"rv", v>>, <<"rb", at>>})>>
      keep(at) == <<If(OneOf("rv", XMM), sse(at), <<Reads({<<"rv", v>>, <<"rb", at>>})>>)>>
      pop(at) == <<If(OneOf("rv", XMM), sse(at), <<Pop(v), Reads({<<"rv", v>>, <<"rb", at>>})>>)>>
  IN <<If(InReg(v), <<InRegOr("rv", v, "rv")>> \o Blindly(b, {}, keep),
                    <<Find("rv", v, Working, {})>> \o Blindly(b, {}, pop))>>

\* loaded: the value is that of a LIR_ldd, whose words are copied where there is
\* no SSE.
asm_store64(k, op, loaded, v, b, x) ==
  LET immediate(at) == <<Reads({<<"rb", at>>})>>
  IN CASE op # "std" -> StoreFp(op, v, b)
       [] op = "std" /\ k[v] = "immd" -> <<Either(<<Blindly(b, {}, immediate), StoreFp(op, v, b)>>)>>
       [] op = "std" /\ k[v] # "immd" /\ x # 0 ->
            <<Exclude(InMask(v, X87)), Indexed(x, b),
              If(InReg(v), <<InRegOr("rv", v, "rv")>>, <<Find("rv", v, XMM, {})>>),
              Reads({<<"rv", v>>, <<"rb", b>>, <<"ri", x>>})>>
       [] op = "std" /\ k[v] # "immd" /\ x = 0 /\ loaded ->
            <<Base("rb", b, GP, {}), Mem("m", v)>> \o CopyWords(v, b, FALSE)
       [] OTHER -> StoreFp(op, v, b)

asm_store128(v, b) ==
  LET access(at) == <<Reads({<<"r", v>>, <<"rb", at>>})>>
  IN <<Find("r", v, XMM, {})>> \o Blindly(b, {}, access)

-----------------------------------------------------------------------------
(* Entry and exit.                                                         *)

\* In a register, or on the stack.
asm_param(i, r) == <<Result("rr", i, {r}, {}), Free(i), Op(r, i, {})>>
asm_param_stack(i) ==
  <<Result("rr", i, GP, {}), Op("rr", i, {<<"args", i>>}), Free(i)>>

genPrologue ==
  Alu(FALSE, "ESP", 123, {<<"ESP", 120>>}) \o
  <<Op("EBP", 120, {<<"ESP", 120>>}), Op("ESP", 120, {<<"ESP", 119>>}),
    Op("FPslot", 122, {<<"EBP", 122>>, <<"ESP", 119>>})>>

genEpilogue ==
  <<Reads({<<"EBP", 122>>, <<"ESP", 119>>, <<"RETslot", 121>>}),
    Op("ESP", 119, {<<"ESP", 120>>}), Op("EBP", 122, {<<"FPslot", 122>>, <<"ESP", 120>>})>>

\* A result that is not floating leaves the x87 stack empty.
asm_ret(v, r) ==
  <<Unreached, Reads({<<r, v>>} \cup IF r = "FST0" THEN {} ELSE {<<"FST0", Empty>>})>>
    \o genEpilogue \o <<Op("ESP", 120, {<<"EBP", 120>>}), Release, AssignSaved, Specific(v, r)>>

nFragExit ==
  <<Reads({<<"EAX", 131>>, <<"FST0", Empty>>})>> \o genEpilogue
    \o <<Op("ESP", 120, {<<"EBP", 120>>})>> \o LoadImm("EAX", 131, TRUE, FALSE)

asm_xcc(compare) == Exit(nFragExit) \o asm_branch(compare)

asm_jtbl(v) ==
  <<Unreached, Release, Find("indexreg", v, GP, {}), Reads({<<"indexreg", v>>})>>

-----------------------------------------------------------------------------
(* Assembler::gen, as for the other back ends.  Left out are addresses that *)
(* are the sum of a value and itself, and stack space as the operand of a   *)
(* conversion: see the hazards of asm_load32 and asm_i2d.                   *)

Imm(k, b) == k[b] = "immi"

FpCompares(k, Ds) == {asm_cmpd(k, p[1], p[2], 102) : p \in Ds \X Ds}
  \cup IF Sse2 THEN {asm_cmpf4(p[1], p[2], 102) : p \in Ds \X Ds} ELSE {}

Addresses(Gs) == {p \in Gs \X (Gs \cup {0}) : p[1] # p[2]}

Conventions ==
  [fast : BOOLEAN, fixed : BOOLEAN, f4 : IF Sse2 THEN BOOLEAN ELSE {FALSE}]

DefInt(k, i) ==
  LET Gs == OfKind(k, i - 1, GpKinds)
      Ds == OfKind(k, i - 1, FpKinds)
      Pairs == Gs \X Gs
  IN {asm_load32(k, i, p[1], p[2]) : p \in Addresses(Gs)}
     \cup {asm_neg_not(i, a) : a \in Gs}
     \cup {asm_lea(blind, i, a) : blind \in BOOLEAN, a \in {g \in Gs : k[g] # "alloc"}}
     \cup {asm_lea_alloc(i, a) : a \in {g \in Gs : k[g] = "alloc"}}
     \cup {asm_arith_imm(FALSE, blind, i, a) : blind \in BOOLEAN, a \in Gs}
     \cup {asm_branch_ov \o asm_arith_imm(TRUE, FALSE, i, a) : a \in Gs}
     \cup {asm_branch_test(i) \o asm_arith_imm(TRUE, FALSE, i, a) : a \in Gs}
     \cup {asm_arith(FALSE, i, p[1], p[2]) : p \in Pairs}
     \cup {asm_branch_ov \o asm_arith(TRUE, i, p[1], p[2]) : p \in Pairs}
     \cup {asm_shift(i, p[1], p[2]) : p \in Pairs}
     \cup {asm_div(i, p[1], p[2]) : p \in Pairs}
     \cup {asm_div_mod(i, i - 1, p[1], p[2]) :
             p \in {q \in Pairs : k[i - 1] = "int" /\ i - 1 \notin {q[1], q[2]}}}
     \cup {asm_cond(Imm(k, p[2]), i, p[1], p[2]) : p \in Pairs}
     \cup {asm_condd(k, i, p[1], p[2]) : p \in Ds \X Ds}
     \cup {asm_condf4(i, p[1], p[2]) : p \in IF Sse2 THEN Ds \X Ds ELSE {}}
     \cup UNION {{asm_d2i(i, a), asm_f2i(i, a)} : a \in Ds}
     \cup {asm_cmov(k, FALSE, i, p[1], p[2], asm_cmpi(FALSE, a, 1, 102)) :
             a \in Gs, p \in Pairs}
     \cup {asm_call(k, c, i, "EAX", addr, <<a, p, a>>) :
             c \in Conventions, addr \in Gs \cup {0}, a \in Gs, p \in Gs \cup Ds}
     \cup {asm_param(i, "ECX") : x \in {i} \cap {1}}

DefDbl(k, i) ==
  LET Gs == {g \in OfKind(k, i - 1, GpKinds) : k[g] # "alloc"}
      As == Addresses(OfKind(k, i - 1, GpKinds))
      Ds == OfKind(k, i - 1, FpKinds)
      sse == IF ~Sse2 THEN {}
             ELSE {asm_load128(i, p[1], p[2]) : p \in As}
                    \cup UNION {{asm_recip_sqrt(i, a), asm_f2f4(i, a), asm_f4comp(i, a)} : a \in Ds}
                    \cup {asm_ffff2f4(i, p[1], p[2], p[1], p[2]) : p \in Ds \X Ds}
                    \cup {asm_call(k, c, i, "XMM0", 0, <<p[1], p[2]>>) :
                            c \in {d \in Conventions : d.f4}, p \in Ds \X Ds}
  IN {asm_load64(op, i, p[1], IF Sse2 THEN p[2] ELSE 0) :
        op \in {"ldd", "ldf", "ldf2d"}, p \in As}
     \cup {asm_neg_abs(i, a) : a \in Ds} \cup {asm_fop(k, i, p[1], p[2]) : p \in Ds \X Ds}
     \cup UNION {{asm_i2d(i, a), asm_i2f(i, a), asm_ui2d(i, a), asm_ui2f(i, a)} : a \in Gs}
     \cup UNION {{asm_f2d(i, a), asm_d2f(i, a)} : a \in Ds}
     \cup {asm_cmov(k, TRUE, i, p[1], p[2], asm_cmpi(FALSE, a, 1, 102)) :
             a \in Gs, p \in Ds \X Ds}
     \cup {asm_cmov(k, TRUE, i, p[1], p[2], asm_cmpd(k, p[1], a, 102)) :
             a \in Ds, p \in Ds \X Ds}
     \cup {asm_call(k, c, i, "FST0", 0, <<p[1], p[2]>>) :
             c \in Conventions, p \in Ds \X (Ds \cup Gs)}
     \cup sse

Defs(k, i) ==
  CASE k[i] = "int" -> DefInt(k, i)
    [] k[i] = "dbl" -> DefDbl(k, i)
    [] k[i] = "lea" -> {asm_lea(FALSE, i, 1)}
    [] k[i] = "immi" -> {asm_immi(i, FALSE)}
    [] k[i] = "tainted" -> {asm_immi(i, TRUE)}
    [] k[i] = "immd" -> {asm_immd(i), asm_immf(i), asm_immf4(i)}
    [] k[i] = "saved" -> {asm_param(i, "ESI")}
    [] k[i] = "arg" -> {asm_param_stack(i)}

Uses(k, n) ==
  LET Gs == OfKind(k, n, GpKinds)
      Ds == OfKind(k, n, FpKinds)
      As == Addresses(Gs)
  IN {asm_store32(k, v, p[1], p[2]) : v \in Gs, p \in As}
     \cup {asm_store64(k, "std", FALSE, v, p[1], IF Sse2 THEN p[2] ELSE 0) : v \in Ds, p \in As}
     \cup {asm_store64(k, "std", TRUE, v, b, 0) :
             v \in {d \in Ds : k[d] = "dbl" /\ ~Sse2}, b \in Gs}
     \cup {asm_store64(k, op, FALSE, v, b, 0) : op \in {"stf", "std2f"}, v \in Ds, b \in Gs}
     \cup {asm_store128(v, b) : v \in IF Sse2 THEN Ds ELSE {}, b \in Gs}
     \cup {asm_branch(asm_cmpi(Imm(k, p[2]), p[1], p[2], 102)) : p \in Gs \X Gs}
     \cup {asm_branchd(c) : c \in FpCompares(k, Ds)}
     \cup {asm_xcc(asm_cmpi(FALSE, a, a, 102)) : a \in Gs}
     \cup {asm_brsavpc(a) : a \in Gs} \cup {asm_jtbl(a) : a \in Gs}
     \cup {asm_ret(v, "EAX") : v \in Gs} \cup {asm_ret(v, "FST0") : v \in Ds}
     \cup {asm_ret(v, "XMM0") : v \in IF Sse2 THEN Ds ELSE {}}
     \cup {asm_call(k, c, 0, "EAX", 0, <<p[1], p[2], p[1]>>) :
             c \in Conventions, p \in Gs \X (Gs \cup Ds)}

=============================================================================
