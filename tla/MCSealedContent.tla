--------------------------- MODULE MCSealedContent ---------------------------
(* A small instance of SealedContent: two spellings of one token, and      *)
(* numbers around 0, around the epoch the canister is in, and past SafeMax. *)
EXTENDS SealedContent

CONSTANTS tok, tokMixed, cidA, cidB

MCLowerHex(t) == IF t = tokMixed THEN tok ELSE t

Tokens == {tok, tokMixed}
Thresholds == {-1, 0, 1}
Epochs == {-1, 0, 1}
Targets == {0, 1, 5}

MCGates ==
  [version : {1}, token : {tokMixed}, threshold : Thresholds, cid : {cidA}]
    \cup
  [version : {3}, token : {tokMixed}, threshold : Thresholds, epoch : Epochs]
    \cup
  [version : {4}, token : {tokMixed}, threshold : Thresholds, epoch : Epochs,
   marketCapTarget : Targets]

MCRequests ==
  [version : {1}, token : Tokens, threshold : {0, 1}, cid : {cidA, cidB}]
    \cup
  [version : {3}, token : Tokens, threshold : {0, 1}, epoch : {0, 1}]
    \cup
  [version : {4}, token : {tokMixed}, threshold : {0, 1}, epoch : {0, 1},
   marketCapTarget : {0, 1, 4}]

=============================================================================
