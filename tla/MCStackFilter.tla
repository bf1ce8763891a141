--------------------------- MODULE MCStackFilter ----------------------------
(* One instruction of each size that matters, two entries of the stack.    *)
EXTENDS StackFilter

MCVocabulary ==
  {[op |-> "op4", rep |-> "Op4"],
   [op |-> "call", rep |-> "C", argc |-> 2],
   [op |-> "st", rep |-> "St", base |-> "other", d |-> 0],
   [op |-> "guard", rep |-> "Op2", top |-> 1],
   [op |-> "guard", rep |-> "Op2", top |-> 2]}
  \cup {[op |-> "st", rep |-> "St", base |-> "sp", d |-> e, val |-> v]
          : e \in {0, 1}, v \in {"x"}}
  \cup {[op |-> "st", rep |-> "St", base |-> "sp", d |-> 1, val |-> "y"]}

=============================================================================
