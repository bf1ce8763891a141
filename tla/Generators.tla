----------------------------- MODULE Generators -----------------------------
(***************************************************************************)
(* The code generators of all back ends, by the name of the back end.      *)
(***************************************************************************)
EXTENDS Script

PPC == INSTANCE NativePPC
MIPS == INSTANCE NativeMIPS
ARM == INSTANCE NativeARM
Thumb2 == INSTANCE NativeThumb2
X64 == INSTANCE NativeX64
I386 == INSTANCE NativeI386 WITH Sse2 <- TRUE
X87 == INSTANCE NativeI386 WITH Sse2 <- FALSE

\* "X64Float4" is X64 with the comparison of float4 values, "X87" is i386 without
\* SSE2.
Processor(t) ==
  CASE t = "PPC" -> PPC!Machine [] t \in {"X64", "X64Float4"} -> X64!Machine
    [] t = "MIPS" -> MIPS!Machine [] t = "ARM" -> ARM!Machine
    [] t = "Thumb2" -> Thumb2!Machine
    [] t = "I386" -> I386!Machine [] t = "X87" -> X87!Machine

Defs(t, k, i) ==
  CASE t = "PPC" -> PPC!Defs(k, i) [] t = "MIPS" -> MIPS!Defs(k, i)
    [] t = "ARM" -> ARM!Defs(k, i) [] t = "Thumb2" -> Thumb2!Defs(k, i)
    [] t = "X64" -> X64!Defs(k, i)
    [] t = "X64Float4" -> X64!Float4Defs(k, i)
    [] t = "I386" -> I386!Defs(k, i) [] t = "X87" -> X87!Defs(k, i)

Uses(t, k, n) ==
  CASE t = "PPC" -> PPC!Uses(k, n) [] t = "MIPS" -> MIPS!Uses(k, n)
    [] t = "ARM" -> ARM!Uses(k, n) [] t = "Thumb2" -> Thumb2!Uses(k, n)
    [] t = "X64" -> X64!Uses(k, n)
    [] t = "X64Float4" -> X64!Float4Uses(k, n)
    [] t = "I386" -> I386!Uses(k, n) [] t = "X87" -> X87!Uses(k, n)

Prologue(t) ==
  CASE t = "PPC" -> PPC!genPrologue [] t = "MIPS" -> MIPS!genPrologue
    [] t = "ARM" -> ARM!genPrologue [] t = "Thumb2" -> Thumb2!genPrologue
    [] t \in {"X64", "X64Float4"} -> X64!genPrologue
    [] t = "I386" -> I386!genPrologue [] t = "X87" -> X87!genPrologue

=============================================================================
