----------------------------- MODULE FrameSlots -----------------------------
(***************************************************************************)
(* What the register allocator is promised of the stack frame: a value is  *)
(* given slots of its own, in one piece, and keeps exactly these until it  *)
(* gives them up.  How they are found is the business of module AR; that   *)
(* no two values share one is what module RegAlloc builds on.              *)
(***************************************************************************)
EXTENDS Integers

CONSTANTS
  Ins,      \* values
  MaxSlot   \* slots are 1..MaxSlot

VARIABLE place  \* value -> the slots it has

Nowhere == [i \in Ins |-> {}]

Disjoint == \A i, j \in Ins : i # j => place[i] \cap place[j] = {}

Take(i) ==
  /\ place[i] = {}
  /\ \E lo, hi \in 1..MaxSlot :
       /\ lo <= hi
       /\ \A j \in Ins : place[j] \cap (lo..hi) = {}
       /\ place' = [place EXCEPT ![i] = lo..hi]

Drop(i) == place' = [place EXCEPT ![i] = {}]

Forget == place' = Nowhere

Init == place = Nowhere
Next == Forget \/ \E i \in Ins : Take(i) \/ Drop(i)
Spec == Init /\ [][Next]_place

=============================================================================
