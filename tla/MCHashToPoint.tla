--------------------------- MODULE MCHashToPoint ----------------------------
(***************************************************************************)
(* Blocks of three bytes, so that a word of the hash may lie in two of     *)
(* them; pieces that are empty, shorter than a block, a block, and longer  *)
(* than one.  The smallest degree with a small oversampling: three         *)
(* strides, and every pattern of rejected words.  The two words that are   *)
(* kept have different residues, each at an end of a range of the          *)
(* reduction.  One message is hashed; contexts of every length are read.   *)
(***************************************************************************)
EXTENDS HashToPoint

MCPieces == 0..4
MCWords  == {24578, 61444, 61445}
MCHashed == {4}
=============================================================================
