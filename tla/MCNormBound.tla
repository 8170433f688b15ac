----------------------------- MODULE MCNormBound -----------------------------
(***************************************************************************)
(* Coefficients of 3 bits, -4..3, summed in words of 6: the proportions of *)
(* int16_t and uint32_t.  Vectors of four carry the sum past the top bit,  *)
(* and past a whole turn of the word.                                      *)
(***************************************************************************)
EXTENDS NormBound

MCSquares == {z * z : z \in 0..4}
==============================================================================
