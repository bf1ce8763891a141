-------------------------------- MODULE X86 --------------------------------
(* What the code generators of i386 and x86-64 have in common.             *)
EXTENDS Script

\* An operation of the ALU; it changes the flags.  asked: its overflow, 105.
Alu(asked, r, i, reads) ==
  <<IF asked THEN Op("CC", 105, {}) ELSE Trash({"CC"}), Op(r, i, reads)>>

\* MR, asm_nongp_copy, where the registers differ.
Copy(d, s, i) == Unless(Same(d, s), <<Op(d, i, {<<s, i>>})>>)

\* getBaseRegWithBlinding, getBaseReg2WithBlinding and the one that is given the
\* temporary: find gives the address in "ob"; where it is needed again it is
\* blinded in a temporary register, "rb".
BlindBase(fp, b, find, temporary) ==
  <<If(IsExtant(b), find \o temporary,
       find \o <<If(OneOf("ob", {fp}), temporary, <<Let("rb", "ob")>>)>>)>>

\* adjustBaseRegForBlinding; the blinded address is 201.
Unblind(b) == Alu(FALSE, "rb", 201, {<<"rb", b>>}) \o <<Copy("rb", "ob", b)>>

\* access(at) is the access at an address of value at, as a script.
BlindlyIn(bases, fp, b, but, access(_)) ==
  <<Either(<<<<Base("rb", b, bases, but)>> \o access(b),
             BlindBase(fp, b, <<Base("ob", b, bases, but)>>,
                       <<Temp("rb", bases, but \cup {"ob"})>>)
               \o access(201) \o Unblind(b)>>)>>

\* The same where a value v is stored, not at its own address if blinded.
StoreBlindlyIn(bases, fp, v, regs, b, access(_)) ==
  LET find(rb) == <<Base2("rv", v, regs, rb, b, bases)>>
  IN <<Either(<<find("rb") \o access(b)>> \o
              IF v = b THEN <<>>
              ELSE <<BlindBase(fp, b, find("ob"), <<Temp("rb", bases, {"ob", "rv"})>>)
                       \o access(201) \o Unblind(b)>>)>>

=============================================================================
