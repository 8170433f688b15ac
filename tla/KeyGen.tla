------------------------------- MODULE KeyGen -------------------------------
(***************************************************************************)
(* A key pair from the system's randomness to the signer's and verifier's  *)
(* first use of it (falcon-lazy/falcon.c, keygen.c, vrfy.c):               *)
(* shake256_init_prng_from_system, falcon_keygen_make with its keygen and  *)
(* solve_NTRU, and the decoding that begins falcon_sign_dyn_finish and     *)
(* falcon_make_public.                                                     *)
(*                                                                         *)
(* The degree is 2, the only one where a polynomial's resultant is its     *)
(* squared norm and where the norms that the code computes in the FFT are  *)
(* those integers; q, the widths of the fields and the words of an integer *)
(* are constants.  Keygen starts over whenever something is wrong with f   *)
(* and g: what is in its arrays then is Stale until it is written again.   *)
(***************************************************************************)
EXTENDS Bezout, Seed, Codec

CONSTANTS
  Q,            (* q, a prime that is 1 modulo 4                            *)
  max_fg_bits,  (* widths of the fields of the private key                 *)
  max_FG_bits,
  Fs, Gs,       (* what the generator may yield for f and for g            *)
  Stale

ASSUME KeyAssumption ==
  /\ Q \in Nat \ {0, 1} /\ \A k \in 1..(Q - 1) : \E i \in 1..(Q - 1) : (k * i) % Q = 1
  /\ max_fg_bits \in 2..8 /\ max_FG_bits \in 2..8
  /\ Fs \cup Gs \subseteq [1..2 -> (-127)..127]

(* Resultants fit in the words they are given, and so does 1. *)
ASSUME RoomAssumption ==
  1 < Full /\ \A c \in Fs \cup Gs : c[1] * c[1] + c[2] * c[2] < Full

RANDOM   == -1   (* what falcon.c returns when it fails                     *)
FORMAT   == -3
INTERNAL == -6

VARIABLES
  pc,       (* the stage                                                   *)
  f, g,     (* the arrays of the same names                                *)
  bF, bG,   (* F and G while they are big integers in tmp[]                *)
  F, G,     (* the arrays of the same names                                *)
  sk, pk,   (* the encoded keys                                            *)
  err       (* what the calls return                                       *)

polys == <<f, g, bF, bG, F, G>>
keys  == <<sk, pk, err>>
vars  == <<seedVars, bezoutVars, pc, polys, keys>>

(* Polynomials modulo X^2 + 1: sequences of two coefficients. *)
Mul(c, d)    == <<c[1] * d[1] - c[2] * d[2], c[1] * d[2] + c[2] * d[1]>>
Plus(c, d)   == <<c[1] + d[1], c[2] + d[2]>>
Times(k, d)  == <<k * d[1], k * d[2]>>
Adj(c)       == <<c[1], -c[2]>>
SqNorm(c)    == c[1] * c[1] + c[2] * c[2]
Resultant(c) == SqNorm(c)

Init ==
  /\ pc = "seed" /\ SeedInit /\ Idle
  /\ f = Stale /\ g = Stale /\ bF = Stale /\ bG = Stale /\ F = Stale /\ G = Stale
  /\ sk = <<>> /\ pk = <<>> /\ err = 0

(* shake256_init_prng_from_system *)
InitPrng ==
  /\ pc = "seed"
  /\ \/ SeedNext /\ UNCHANGED <<pc, err>>
     \/ source = "seeded" /\ pc' = "draw" /\ UNCHANGED <<seedVars, err>>
     \/ source = "none" /\ pc' = "done" /\ err' = RANDOM /\ UNCHANGED seedVars
  /\ UNCHANGED <<bezoutVars, polys, sk, pk>>

(* continue: the next attempt.  What is in the arrays belongs to the last. *)
Restart ==
  /\ pc' = "draw"
  /\ f' = Stale /\ g' = Stale /\ bF' = Stale /\ bG' = Stale /\ F' = Stale /\ G' = Stale
  /\ Forget
  /\ UNCHANGED <<seedVars, keys>>

-----------------------------------------------------------------------------
(* poly_small_mkgauss: coefficients within -127..127, of an odd sum. *)
OddSum(c) == (c[1] + c[2]) % 2 = 1

Draw(p, q) ==
  /\ pc = "draw"
  /\ OddSum(p) /\ OddSum(q)
  /\ f' = p /\ g' = q
  /\ pc' = "check"
  /\ UNCHANGED <<seedVars, bezoutVars, bF, bG, F, G, keys>>

(* A bug: a coefficient of the first value that does not fit is accepted. *)
Encodable_Limit(c) ==
  LET lim == 2^(max_fg_bits - 1)
  IN  \A i \in 1..2 : c[i] <= lim /\ c[i] > -lim

Encodable(c) ==
  LET lim == 2^(max_fg_bits - 1)
  IN  \A i \in 1..2 : c[i] < lim /\ c[i] > -lim

(* The norms of (g,-f) and of the orthogonalized vector are below 1.17^2*q. *)
ShortBasis ==
  LET norm == SqNorm(f) + SqNorm(g)
  IN  10000 * norm < 13689 * Q /\ 10000 * Q < 13689 * norm

(* Is f invertible modulo q? *)
Invertible(c) == Resultant(c) % Q # 0

(* What keygen tests before it tries to solve the NTRU equation. *)
Check ==
  /\ pc = "check"
  /\ IF Encodable(f) /\ Encodable(g) /\ ShortBasis /\ Invertible(f)
     THEN pc' = "deepest" /\ UNCHANGED <<seedVars, bezoutVars, polys, keys>>
     ELSE Restart

-----------------------------------------------------------------------------
(* solve_NTRU_deepest: the resultants ... *)
Deepest ==
  /\ pc = "deepest"
  /\ Call(Resultant(f), Resultant(g))
  /\ pc' = "bezout"
  /\ UNCHANGED <<seedVars, polys, keys>>

(* ... zint_bezout ... *)
InBezout ==
  /\ pc = "bezout" /\ BezoutNext
  /\ UNCHANGED <<seedVars, pc, polys, keys>>

(* ... and the product with q, which must fit. *)
Multiply ==
  /\ pc = "bezout" /\ ret \in {0, 1}
  /\ IF ret = 1 /\ Q * u0 < Full /\ Q * v0 < Full
     THEN /\ bG' = Q * u0 /\ bF' = Q * v0
          /\ pc' = "intermediate"
          /\ UNCHANGED <<seedVars, bezoutVars, f, g, F, G, keys>>
     ELSE Restart

(* The nearest integers to t / norm: two of them when it is half-way, for  *)
(* the floating-point quotient may be rounded either way there.            *)
Nearest(t, norm) ==
  {k \in {t \div norm, t \div norm + 1} :
     2 * (t - k * norm) \in (-norm)..norm}

(* solve_NTRU_intermediate at depth 0: F = F'(X^2)*adj(g), G = G'(X^2)*    *)
(* adj(f), then Babai's reduction.  The scaled rounds of the reduction are *)
(* one: the last one, which is not scaled, rounds to the nearest integer   *)
(* what the others have left.                                              *)
Intermediate ==
  /\ pc = "intermediate"
  /\ LET F0   == Times(bF, Adj(g))
         G0   == Times(bG, Adj(f))
         norm == SqNorm(f) + SqNorm(g)
         t    == Plus(Mul(F0, Adj(f)), Mul(G0, Adj(g)))
     IN  \E k1 \in Nearest(t[1], norm), k2 \in Nearest(t[2], norm) :
           /\ bF' = Plus(F0, Times(-1, Mul(<<k1, k2>>, f)))
           /\ bG' = Plus(G0, Times(-1, Mul(<<k1, k2>>, g)))
  /\ pc' = "small"
  /\ UNCHANGED <<seedVars, bezoutVars, f, g, F, G, keys>>

Small(c) ==
  LET lim == 2^(max_FG_bits - 1) - 1
  IN  \A i \in 1..2 : c[i] \in (-lim)..lim

Int8(c) == [i \in 1..2 |-> ((c[i] + 128) % 256) - 128]

(* A bug: what poly_big_to_small returns is not looked at. *)
BigToSmall_Unchecked ==
  /\ pc = "small"
  /\ F' = Int8(bF) /\ G' = Int8(bG) /\ bF' = Stale /\ bG' = Stale
  /\ pc' = "equation"
  /\ UNCHANGED <<seedVars, bezoutVars, f, g, keys>>

(* poly_big_to_small, for F and for G, which has a temporary place only.   *)
BigToSmall ==
  /\ pc = "small"
  /\ IF Small(bF) /\ Small(bG)
     THEN /\ F' = Int8(bF) /\ G' = Int8(bG) /\ bF' = Stale /\ bG' = Stale
          /\ pc' = "equation"
          /\ UNCHANGED <<seedVars, bezoutVars, f, g, keys>>
     ELSE Restart

(* The end of keygen: f, g and F are left, and G is lost. *)
Solved ==
  /\ pc' = "encode" /\ G' = Stale
  /\ Forget
  /\ UNCHANGED <<seedVars, f, g, bF, bG, F, keys>>

(* The last test of solve_NTRU. *)
Equation ==
  /\ pc = "equation"
  /\ IF Plus(Mul(f, G), Times(-1, Mul(g, F))) = <<Q, 0>> THEN Solved ELSE Restart

-----------------------------------------------------------------------------
(* g/f modulo q. *)
Modulo(c)    == <<c[1] % Q, c[2] % Q>>
InvQ(k)      == CHOOSE i \in 1..(Q - 1) : (k * i) % Q = 1

(* A bug: f is not inverted, only multiplied by its adjoint. *)
Quot_NoInverse(c, d) == Modulo(Mul(c, Adj(d)))

Quot(c, d) == Modulo(Times(InvQ(Resultant(d) % Q), Modulo(Mul(c, Adj(d)))))

PrivRoom == Bytes(2 * max_fg_bits) * 2 + Bytes(2 * max_FG_bits)

(* The private key is encoded. *)
EncodePrivate ==
  /\ pc = "encode"
  /\ LET ef == trim_encode(f, max_fg_bits, PrivRoom)
         eg == trim_encode(g, max_fg_bits, PrivRoom - Len(ef))
         eF == trim_encode(F, max_FG_bits, PrivRoom - Len(ef) - Len(eg))
     IN  IF ef = <<>> \/ eg = <<>> \/ eF = <<>> \/ Len(ef \o eg \o eF) # PrivRoom
         THEN err' = INTERNAL /\ pc' = "done" /\ UNCHANGED sk
         ELSE sk' = ef \o eg \o eF /\ pc' = "public" /\ UNCHANGED err
  /\ UNCHANGED <<seedVars, bezoutVars, polys, pk>>

(* The public key is computed, in the place of F, and encoded. *)
EncodePublic ==
  /\ pc = "public"
  /\ F' = Stale
  /\ IF Invertible(f)
     THEN /\ pk' = modq_encode(Quot(g, f), Bytes(28))
          /\ pc' = "load" /\ f' = Stale /\ g' = Stale /\ UNCHANGED err
     ELSE err' = INTERNAL /\ pc' = "done" /\ UNCHANGED <<f, g, pk>>
  /\ UNCHANGED <<seedVars, bezoutVars, bF, bG, G, sk>>

(* The signer decodes the private key and completes it.  A decoder takes   *)
(* as many bytes as its field has.                                         *)
Load ==
  /\ pc = "load"
  /\ LET df == trim_decode(sk, max_fg_bits, 2)
         dg == trim_decode(SubSeq(sk, df.v + 1, Len(sk)), max_fg_bits, 2)
         dF == trim_decode(SubSeq(sk, df.v + dg.v + 1, Len(sk)), max_FG_bits, 2)
         t  == Quot(Mul(dg.x, dF.x), df.x)
         cG == [i \in 1..2 |-> IF t[i] >= Q \div 2 THEN t[i] - Q ELSE t[i]]
     IN  IF \/ df.v = 0 \/ dg.v = 0 \/ dF.v = 0 \/ df.v + dg.v + dF.v # Len(sk)
            \/ ~Invertible(df.x) \/ \E i \in 1..2 : cG[i] \notin (-127)..127
         THEN err' = FORMAT /\ UNCHANGED <<f, g, F, G>>
         ELSE f' = df.x /\ g' = dg.x /\ F' = dF.x /\ G' = cG /\ UNCHANGED err
  /\ pc' = "done"
  /\ UNCHANGED <<seedVars, bezoutVars, bF, bG, sk, pk>>

Attempt ==
  \/ pc = "draw" /\ \E p \in Fs, q \in Gs : Draw(p, q)
  \/ Check \/ Deepest \/ InBezout \/ Multiply \/ Intermediate \/ BigToSmall \/ Equation

Next == InitPrng \/ Attempt \/ EncodePrivate \/ EncodePublic \/ Load

Spec == Init /\ [][Next]_vars

-----------------------------------------------------------------------------
Poly(k) == [1..2 -> (-k)..k] \cup {Stale}

TypeOK ==
  /\ BezoutTypeOK
  /\ source \in {"getentropy", "open", "read", "seeded", "none"}
  /\ at \in 0..SeedLen /\ len = SeedLen - at /\ filled \subseteq 0..(SeedLen - 1)
  /\ f \in Poly(127) /\ g \in Poly(127) /\ F \in Poly(127) /\ G \in Poly(127)
  /\ sk \in Seq(Byte) /\ pk \in Seq(Byte)
  /\ err \in {0, RANDOM, FORMAT, INTERNAL}

(* The keys that keygen returns can always be encoded, their public key    *)
(* computed a second time, the private one decoded and G recovered from    *)
(* f, g and F alone: none of the errors that the callers test for is       *)
(* possible (falcon.c:176-223, 398-427).                                   *)
NeverRefused == err \notin {INTERNAL, FORMAT}

(* The private key as a signer has it after decoding solves the NTRU       *)
(* equation over the integers, G included, though it was not sent and only *)
(* known modulo q; and the public key is the quotient of its g and f.      *)
KeyPair ==
  pc = "done" /\ err = 0 =>
    /\ Plus(Mul(f, G), Times(-1, Mul(g, F))) = <<Q, 0>>
    /\ Modulo(Mul(modq_decode(pk, 2).x, f)) = Modulo(g)

(* What solve_NTRU's last test is given always passes it: the resultants   *)
(* for which zint_bezout's coefficients are wrong, that of g being 1,      *)
(* leave F and G that are too large, and no other step loses the equation  *)
(* (keygen.c:3975-4085).  This is of degree 2.                             *)
SolverExact ==
  pc = "equation" => Plus(Mul(f, G), Times(-1, Mul(g, F))) = <<Q, 0>>
=============================================================================
