-------------------------------- MODULE MCAR --------------------------------
(* A small frame for TLC. *)
EXTENDS AR

\* A 32-bit value, a double, a LIR_allocp of 12 bytes, a float4.
Kinds == {[slots |-> 1, f4 |-> FALSE], [slots |-> 2, f4 |-> FALSE],
          [slots |-> 3, f4 |-> FALSE], [slots |-> 4, f4 |-> TRUE]}

=============================================================================
