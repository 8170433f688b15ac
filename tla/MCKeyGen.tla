------------------------------ MODULE MCKeyGen ------------------------------
(***************************************************************************)
(* q = 277: the two norms must then add up to 203..379, so that            *)
(* coefficients up to 17 and every reason to start over occur: a           *)
(* coefficient that does not fit in five bits, either norm, an f of norm q *)
(* (9, 14), resultants with a common factor, products with q and           *)
(* coefficients of F or G that do not fit.  Either operand of zint_bezout  *)
(* may be 1.  Four words of four bits hold resultants of three words.      *)
(***************************************************************************)
EXTENDS KeyGen

Small17 == {c \in (0..17) \X (0..17) : c[1] > c[2]}
MCFs    == {<<c[2], c[1]>> : c \in Small17}
MCGs    == Small17 \cup {<<c[1], -c[2]>> : c \in Small17}
=============================================================================
