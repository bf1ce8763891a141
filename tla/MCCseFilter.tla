---------------------------- MODULE MCCseFilter -----------------------------
(* Two regions; a place in one of them and a constant one.                 *)
EXTENDS CseFilter, TLC

CONSTANTS A, B, a, k

MCHome == (a :> A) @@ (k :> A)
MCLoadKind ==
  {[place |-> a, accs |-> {A}, qual |-> "normal"],
   [place |-> a, accs |-> {A, B}, qual |-> "normal"],
   [place |-> a, accs |-> {A}, qual |-> "volatile"],
   [place |-> k, accs |-> {A, B}, qual |-> "const"]}

=============================================================================
