------------------------------- MODULE Script -------------------------------
(***************************************************************************)
(* The vocabulary in which the back ends' asm_ functions are written down. *)
(*                                                                         *)
(* An asm_ function is a script: the sequence of the calls it makes to the *)
(* register allocator and of the instructions it emits, in the order of    *)
(* the source.  Instructions are emitted backwards, so the first one of a  *)
(* script is the last one executed.                                        *)
(*                                                                         *)
(* A location is the name of a machine register, of a flag or of a place   *)
(* in memory ("R3", "CC", "SP16").  The C++ variables that hold a register *)
(* ("rr", "ra") stand for the location they were given.  A value is the    *)
(* number of an instruction; what a script computes on the way has the     *)
(* numbers from 101 on.  A set of registers is given as those allowed and  *)
(* the variables whose registers are not.                                  *)
(***************************************************************************)
EXTENDS Naturals, FiniteSets, SequencesExt

\* prepareResultReg, deprecated_prepResultReg, freeResourcesOf.
Result(r, i, allow, but) == <<"result", r, i, allow, but>>
Prep(r, i, allow) == <<"prep", r, i, allow, {}>>
Free(i) == <<"free", i>>

\* findRegFor, findSpecificRegFor, findRegFor2, getBaseReg, getBaseReg2,
\* findMemFor.
Find(r, i, allow, but) == <<"find", r, i, allow, but>>
Specific(i, loc) == <<"specific", i, loc>>
Find2(ra, a, alla, rb, b, allb) == <<"find2", ra, a, alla, rb, b, allb, {}>>
Find2Except(ra, a, rb, b, allow, but) == <<"find2", ra, a, allow, rb, b, allow, but>>
Base(r, i, allow, but) == <<"base", r, i, allow, but>>
Base2(rv, v, allv, rb, b, allb) == <<"base2", rv, v, allv, rb, b, allb>>
Mem(r, i) == <<"mem", r, i>>

\* v->isInReg() ? v->getReg() : other.
InRegOr(r, i, other) == <<"inregor", r, i, other>>

\* findSpecificRegForUnallocated, if the value is not in a register.
Take(i, loc) == <<"take", i, loc>>

\* allocTempReg, evictIfActive, evictScratchRegsExcept, releaseRegisters,
\* assignSavedRegs.
Temp(r, allow, but) == <<"temp", r, allow, but>>
EvictActive(loc) == <<"evict", loc>>
EvictScratchExcept(locs) == <<"scratch", locs>>
Release == <<"release">>
AssignSaved == <<"assign">>

\* What was emitted before is not reached from here.
Unreached == <<"unreached">>

Let(r, loc) == <<"let", r, loc>>

\* Emitted instructions: loc := value i, computed from the values read at the
\* locations; one that only reads; one that overwrites locations.
Op(loc, i, reads) == <<"op", loc, i, reads>>
Reads(reads) == <<"op", "none", 0, reads>>
Trash(locs) == <<"trash", locs>>

\* Instructions that underrunProtect keeps in one piece of code.
Protect(script) == <<"protect", script>>

\* asm_leave_trace around what nFragExit emits.
Exit(script) == <<<<"enter">>>> \o script \o <<AssignSaved, <<"leave">>>>

\* What a stack register has when it has no value.
Empty == 130

\* Conditions: i->isInReg(), i in one of some registers, i->isExtant(),
\* i->isInAr(), two variables hold the same register, a variable's register is
\* one of a set.
InReg(i) == <<"inreg", i>>
InMask(i, locs) == <<"inmask", i, locs>>
IsExtant(i) == <<"extant", i>>
InAr(i) == <<"inar", i>>
Same(x, y) == <<"same", x, y>>
OneOf(x, locs) == <<"oneof", x, locs>>

If(cond, then, else) == <<"if", cond, then, else>>
When(cond, then) == If(cond, then, <<>>)
Unless(cond, else) == If(cond, <<>>, else)

\* What depends on data the scripts leave out: any of a sequence of scripts.
Either(scripts) == <<"either", scripts>>

\* An instruction is not considered where a condition holds; an assertion of the
\* code that fails.
Exclude(cond) == When(cond, <<Either(<<>>)>>)
Expect(cond) == Unless(cond, <<Reads({<<"assertion", 199>>})>>)

\* The values of a program, by kind; those an instruction may have as operands.
GpKinds == {"int", "immi", "alloc", "lea", "tainted", "saved", "arg"}
FpKinds == {"dbl", "immd"}
OfKind(k, n, kinds) == {j \in 1..n : k[j] \in kinds}

\* Where arguments go when each class has its own sequence of registers: pairs
\* of a register and an argument.
ArgLocs(k, args, gp, fp) ==
  [n \in DOMAIN args |->
     LET dbl == k[args[n]] \in FpKinds
         nth == Cardinality({m \in 1..n : (k[args[m]] \in FpKinds) = dbl})
     IN <<IF dbl THEN fp[nth] ELSE gp[nth], args[n]>>]

\* Words of the argument area after each argument: a double is aligned.
Words(k, args) ==
  LET after[n \in 0..Len(args)] ==
        IF n = 0 THEN 0
        ELSE IF k[args[n]] \in FpKinds THEN after[n - 1] + (after[n - 1] % 2) + 2
        ELSE after[n - 1] + 1
  IN after

-----------------------------------------------------------------------------
(* The code a script is run as: "if" and "either" are jumps forward, over a *)
(* number of steps.  What is within them is laid out by `inner'.           *)

LaidOut(inner(_), script) == FlattenSeq([n \in DOMAIN script |-> inner(script[n])])

Forked(parts) ==
  LET start[n \in 1..Len(parts) + 1] ==
        IF n = 1 THEN 0 ELSE start[n - 1] + Len(parts[n - 1]) + 1
      end == start[Len(parts) + 1]
  IN <<<<"fork", {start[n] : n \in DOMAIN parts}>>>> \o
     FlattenSeq([n \in DOMAIN parts |->
       Append(parts[n], <<"jump", end - start[n + 1]>>)])

Unnested(inner(_), s) ==
  CASE s[1] = "if" ->
         LET then == LaidOut(inner, s[3])
             else == LaidOut(inner, s[4])
         IN <<<<"unless", s[2], Len(then) + 1>>>> \o then
              \o <<<<"jump", Len(else)>>>> \o else
    [] s[1] = "either" -> Forked([n \in DOMAIN s[2] |-> LaidOut(inner, s[2][n])])
    [] s[1] = "protect" ->
         <<<<"protect">>>> \o LaidOut(inner, s[2]) \o <<<<"unprotect">>>>
    [] OTHER -> <<s>>

\* Bound: no script is nested deeper than five times.
Depth0(s) == <<s>>
Depth1(s) == Unnested(Depth0, s)
Depth2(s) == Unnested(Depth1, s)
Depth3(s) == Unnested(Depth2, s)
Depth4(s) == Unnested(Depth3, s)
Depth5(s) == Unnested(Depth4, s)
Code(script) == LaidOut(Depth5, script)

=============================================================================
