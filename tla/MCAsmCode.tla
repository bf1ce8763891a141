----------------------------- MODULE MCAsmCode -----------------------------
(* Bounds for model-checking AsmCode.                                      *)
EXTENDS AsmCode

OneChunk == {0}
TwoChunks == {0, 12}
NoLimit == {0}
LeftOnly == {"left"}

=============================================================================
