------------------------------ MODULE LazyOps ------------------------------
(***************************************************************************)
(* The arithmetic of online/offline Falcon signatures (falcon-lazy/sign.c, *)
(* vrfy.c, common.c) in the ring Z[X]/(X^2+1), the ring of degree logn = 1, *)
(* the smallest one the code accepts.  A polynomial is a function from its *)
(* coefficient indices Coef to Int.  Nothing here depends on the degree    *)
(* beyond Mul.                                                             *)
(*                                                                         *)
(* The FFT products are exact products here: at logn = 1 every value of    *)
(* the online phase is below 2^31 and every quantity that is rounded is at *)
(* least 1/(2Q) away from a half-integer, far above a double's error.  The *)
(* NTT products are products modulo Q.                                     *)
(***************************************************************************)
EXTENDS Integers

CONSTANTS
  Q,        (* the modulus, 12289 in the code                              *)
  L2Bound,  (* l2bound[logn], the inclusive bound on a squared norm        *)
  Slack,    (* the factor the verifier multiplies l2bound by, 3            *)
  Hashes,   (* hashed messages, hash_to_point outputs                      *)
  Samples,  (* polynomials of blinding coefficients                        *)
  Key       (* the signer's key                                            *)

ASSUME QAssumption == Q \in Nat /\ Q < 65536 /\ \E k \in 1..Q : Q = 2 * k + 1
ASSUME BoundAssumption == L2Bound \in Nat /\ Slack \in Nat \ {0}

Coef  == 0..1
Poly  == [Coef -> Int]
QPoly == [Coef -> 0..(Q - 1)]

Add(a, b) == [u \in Coef |-> a[u] + b[u]]
Sub(a, b) == [u \in Coef |-> a[u] - b[u]]
Neg(a)    == [u \in Coef |-> -a[u]]

(* The product modulo X^2 + 1. *)
Mul(a, b) ==
  [u \in Coef |-> IF u = 0 THEN a[0] * b[0] - a[1] * b[1]
                           ELSE a[0] * b[1] + a[1] * b[0]]

ModQ(a) == [u \in Coef |-> a[u] % Q]

Const(c) == [u \in Coef |-> IF u = 0 THEN c ELSE 0]

(* a = b modulo Q, coefficient by coefficient. *)
Congruent(a, b) == \A u \in Coef : (a[u] - b[u]) % Q = 0

(***************************************************************************)
(* Keys.  A key is [f, g, F, G, h]: keygen solves f*G - g*F = Q, and       *)
(* compute_public and complete_private make h = g/f and G = h*F modulo Q.  *)
(***************************************************************************)
IsKey(k) ==
  /\ k.f \in Poly /\ k.g \in Poly /\ k.F \in Poly /\ k.G \in Poly
  /\ k.h \in QPoly
  /\ Sub(Mul(k.f, k.G), Mul(k.g, k.F)) = Const(Q)
  /\ Congruent(Mul(k.f, k.h), k.g)
  /\ Congruent(Mul(k.F, k.h), k.G)

ASSUME KeyAssumption  == IsKey(Key)
ASSUME DataAssumption == Hashes \subseteq QPoly /\ Samples \subseteq Poly

(***************************************************************************)
(* The offline phase: the lattice target x1 - h*x2 of a blinding vector.   *)
(***************************************************************************)
ComputeTarget(h, x1, x2) == ModQ(Sub(x1, Mul(h, x2)))

(***************************************************************************)
(* The online phase.                                                       *)
(***************************************************************************)

(* A bug: the addition without its reduction. *)
MqAdd_NoReduce(x, y) == x + y

(* mq_add: one conditional addition of Q on 32-bit words, stored in 16.    *)
(* Callers promise operands below Q; the code does not check it.           *)
MqAdd(x, y) == IF x + y < Q THEN x + y ELSE (x + y - Q) % 65536

MqPolyAddTo(dest, a) == [u \in Coef |-> MqAdd(dest[u], a[u])]

(* fpr_rint(a / Q) for an odd Q: no ties. *)
RintDivQ(a) == (a + ((Q - 1) \div 2)) \div Q

RintDivQPoly(a) == [u \in Coef |-> RintDivQ(a[u])]

(* Babai round-off of (t, 0) in the basis ((g, f), (G, F)): the two rounded *)
(* coordinates, then what is left of the target.  The first component is   *)
(* written for an arbitrary basis; with f*G - g*F = Q it is                *)
(* t - g*a - G*b.  The second needs no rounding in any basis.              *)
ShortPreimage(b, t) ==
  LET a1 == RintDivQPoly(Neg(Mul(t, b.F)))
      a2 == RintDivQPoly(Mul(t, b.f))
      t1 == RintDivQPoly(Mul(t, Sub(Mul(b.f, b.G), Mul(b.g, b.F))))
  IN  [r1 |-> Sub(t1, Add(Mul(b.g, a1), Mul(b.G, a2))),
       r2 |-> Neg(Add(Mul(b.f, a1), Mul(b.F, a2)))]

NormSq(a) == a[0] * a[0] + a[1] * a[1]

(* A bug: the blinding stays in s2. *)
OnlineSig_KeepBlind(b, t, x1, x2) ==
  LET p == ShortPreimage(b, t)
  IN  [s2 |-> Neg(p.r2),
       ok |-> NormSq(Sub(p.r1, x1)) + NormSq(p.r2) <= L2Bound]

(* do_sign_dyn_lazy after the target has been updated: remove the blinding *)
(* vector, measure, and emit s2 whatever the verdict.                      *)
OnlineSig(b, t, x1, x2) ==
  LET p  == ShortPreimage(b, t)
      s1 == Sub(p.r1, x1)
      s2 == Sub(x2, p.r2)
  IN  [s2 |-> s2, ok |-> NormSq(s1) + NormSq(s2) <= L2Bound]

(***************************************************************************)
(* Verification.                                                           *)
(***************************************************************************)

(* A bug: residues are measured without being centred. *)
CenterModQ_NoCenter(a) == ModQ(a)

(* The representative in -(Q-1)/2 .. (Q-1)/2 of a residue. *)
CenterModQ(a) ==
  [u \in Coef |-> LET w == a[u] % Q IN IF w > (Q - 1) \div 2 THEN w - Q ELSE w]

VerifyRaw(h, hm, s2) ==
  NormSq(CenterModQ(Sub(Mul(s2, h), hm))) + NormSq(s2) <= Slack * L2Bound

(* The verdict under the signer's own public key. *)
Verifies(m, s) == VerifyRaw(Key.h, m, s)
=============================================================================
