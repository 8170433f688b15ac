------------------------------ MODULE MCVerify ------------------------------
(***************************************************************************)
(* Degree 4: two layers in each transform, three bytes of accumulator.     *)
(* The keys are NTRU keys for q = 12289; the f of the third is zero at a   *)
(* root of X^4 + 1 modulo q.                                               *)
(***************************************************************************)
EXTENDS Verify

Poly(x) == [k \in 0..3 |-> x[k + 1]]

Key(f, g, F, G) ==
  LET pub == compute_public(Poly(f), Poly(g))
  IN  [f |-> Poly(f), g |-> Poly(g), F |-> Poly(F), G |-> Poly(G),
       h |-> IF pub.ok THEN pub.val ELSE Poly(<<0, 0, 0, 0>>)]

KeyA == Key(<<19, -4, -44, -44>>, <<-60, 51, -60, -34>>,
            <<22, -45, -55, 30>>, <<19, 44, 51, 17>>)
KeyB == Key(<<0, 30, -38, -53>>, <<-28, 60, -58, 35>>,
            <<6, 30, -12, 69>>, <<56, 73, 52, -13>>)
KeyC == Key(<<-7, -6, 1, -5>>, <<-54, -51, 45, 8>>,
            <<75, -16, 85, -80>>, <<-20, 8, -12, 45>>)

(* A call with key k, for s2, on the hash s1 + s2*h. *)
Case(k, s2, s1, type, room, keyflips, sigflips) ==
  LET p == RingMul(Residues(s2), k.h)
  IN  [f |-> k.f, g |-> k.g, F |-> k.F, G |-> k.G, s2 |-> s2,
       c0 |-> [i \in Index |-> (p[i] + s1[i]) % Q],
       type |-> type, room |-> room, keyflips |-> keyflips, sigflips |-> sigflips]

(* Values at the ends of the ranges of the formats, in rooms that are one  *)
(* byte short, exact, and larger.                                          *)
Ends  == {Poly(<<a, b, c, d>>) : a, b, c, d \in {-2047, -128, 0, 127, 2047}}
Width == {Poly(<<a, 1, b, -1>>) :
            a, b \in {-2049, -2048, -1024, -1023, 1023, 1024, 2048}}
Formats ==
  {Case(KeyA, x, Poly(<<3, -200, 6144, 9>>), "compressed", room, {}, {}) :
     x \in Ends, room \in {5, 11, 13}}
  \cup {Case(KeyA, x, Poly(<<3, -200, 6144, 9>>), type, room, {}, {}) :
     x \in Width, type \in {"compressed", "padded", "ct"}, room \in {5, 6, 18}}

(* Signatures on both sides of the bound, for each key. *)
Norms ==
  {Case(k, Poly(<<a, -b, 5, b>>), Poly(<<c, 300, d, -2>>), "compressed", 12, {}, {}) :
     k \in {KeyA, KeyB, KeyC}, a \in {0, 3, 700}, b \in {0, 250},
     c \in {-400, 0, 250, 6144}, d \in {0, -512}}

(* One or two bits flipped in what is sent. *)
Pairs(k) == {{i, j} : i, j \in 1..k}
Flips ==
  {Case(KeyB, Poly(<<0, -1, 128, 3>>), Poly(<<3, 2, 1, 0>>), type, 6, {}, fl) :
     type \in {"compressed", "padded", "ct"}, fl \in Pairs(40)}
  \cup {Case(KeyA, Poly(<<0, -1, 12, 3>>), Poly(<<3, 2, 1, 0>>), "padded", 6, fl, {}) :
     fl \in Pairs(28)}

MCCases == Formats \cup Norms \cup Flips
=============================================================================
