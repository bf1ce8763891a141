----------------------------- MODULE MCBackends -----------------------------
(* Instances of Backends for TLC: back ends and programs.                  *)
EXTENDS Backends, Generators

Ints == <<"int", "immi", "int", "int">>
Rebuilt == <<"int", "lea", "immi", "int">>
Blinded == <<"int", "tainted", "int", "int">>
Doubles == <<"int", "immd", "dbl", "dbl", "dbl">>
Frame == <<"saved", "alloc", "immd", "int", "dbl">>
Constants == <<"int", "immd", "immd", "dbl", "dbl">>

OnStack == <<"arg", "immi", "int", "dbl", "int">>
Param == <<"arg", "int", "dbl">>
TwoDoubles == <<"int", "immd", "dbl", "dbl">>

X86Programs == {Rebuilt, Blinded, Doubles, Frame}
RiscPrograms == {Ints, Doubles, Frame}

Short == {<<"int", "dbl", "dbl">>, <<"int", "int", "tainted">>}

AllPrograms ==
  [t \in Targets |-> CASE t = "X64" -> X86Programs
                       [] t = "X64Float4" -> {Constants}
                       [] t = "I386" -> X86Programs \cup Short \cup {OnStack}
                       [] t = "X87" -> {Doubles, Frame, OnStack} \cup Short
                       [] t = "MIPS" -> RiscPrograms \cup {Param}
                       [] t = "ARM" -> {Rebuilt, TwoDoubles, Frame, Param}
                       [] t = "Thumb2" -> {Rebuilt, TwoDoubles, Frame}
                       [] OTHER -> RiscPrograms]

Instructions(t, k) ==
  IF t \in {"I386", "X87"} /\ k \notin Short THEN 1 ELSE 2

\* Computed once, as constants.
AllMachines == [t \in Targets |-> Processor(t)]
AllDefs ==
  [t \in Targets |-> [k \in Programs[t] |-> [i \in DOMAIN k |->
     IF k[i] = "alloc" THEN {} ELSE {Code(script) : script \in Defs(t, k, i)}]]]
AllUses ==
  [t \in Targets |-> [k \in Programs[t] |-> [i \in DOMAIN k |->
     {Code(script) : script \in Uses(t, k, i)}]]]
AllPrologues == [t \in Targets |-> Code(Prologue(t))]

All == {"PPC", "MIPS", "ARM", "Thumb2", "X64", "I386", "X87"}
Float4 == {"X64Float4"}
=============================================================================
