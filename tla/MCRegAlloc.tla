---------------------------- MODULE MCRegAlloc ----------------------------
(* Instances of RegAlloc for TLC.                                          *)
EXTENDS RegAlloc, TLC

Regs == 0..2
Saved == {2}
None == [i \in {} |-> 0]

\* A constant, a value, their sum with a constant; a saved register's entry value
\* and two values.
Sums == [imm |-> {1}, sum |-> 3 :> 2, param |-> None]
Params == [imm |-> {}, sum |-> None, param |-> 1 :> 2]
BothPrograms == {Sums, Params}
=============================================================================
