--------------------------- MODULE MCSignDynLazy ----------------------------
(***************************************************************************)
(* A key produced by Zf(keygen) at logn = 1 and extreme blinding vectors:  *)
(* some attempts are within the bound and some are not.                    *)
(***************************************************************************)
EXTENDS SignDynLazy

P(a, b) == [u \in Coef |-> IF u = 0 THEN a ELSE b]

MCKey == [f |-> P(-12, -125), g |-> P(12, -9),
          F |-> P(-11, -69),  G |-> P(-3, 92), h |-> P(6113, 1865)]

MCHashes  == {P(2471, 4771), P(12288, 1), P(0, 0)}
MCSamples == {P(-128, 127), P(127, -128), P(3, -5)}
=============================================================================
