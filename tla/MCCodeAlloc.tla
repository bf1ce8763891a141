---------------------------- MODULE MCCodeAlloc ----------------------------
(* Bounds for model-checking CodeAlloc.                                    *)
EXTENDS CodeAlloc

OneChunk == {0}
ConstPoolLimits == {0, 12}
LeftAndMiddle == {"left", "middle"}

=============================================================================
