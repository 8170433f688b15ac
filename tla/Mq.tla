-------------------------------- MODULE Mq ---------------------------------
(***************************************************************************)
(* Arithmetic modulo q = 12289 of falcon-lazy/vrfy.c: additions with a     *)
(* masked correction, Montgomery products, and the number-theoretic        *)
(* transform (NTT) with the tables of the code, layer by layer.  A         *)
(* polynomial is a function on 0..n-1, as the array is; a value is the     *)
(* non-negative integer that an unsigned word of the code holds.           *)
(***************************************************************************)
EXTENDS Integers

CONSTANTS logn   (* degree; the tables below go up to 16                    *)

ASSUME DegreeAssumption == logn \in 1..4

Q   == 12289
Q0I == 12287
R   == 4091
R2  == 10952
B   == 65536       \* 2^16: R is B % Q

n     == 2^logn
Index == 0..(n - 1)
Zq    == 0..(Q - 1)

(* The first entries of the tables: R*g^rev(i), and its inverse. *)
GMb ==
  <<4091, 7888, 11060, 11208, 6960, 4342, 6275, 9759,
    1591, 6399, 9477, 5266, 586, 5825, 7538, 9710>>
iGMb ==
  <<4091, 4401, 1081, 1229, 2530, 6014, 7947, 5329,
    2579, 4751, 6464, 11703, 7023, 2812, 5890, 10698>>

(* d += Q & -(d >> 31): q is added to what went below zero. *)
Corrected(d) == IF d < 0 THEN d + Q ELSE d

mq_conv_small(x) == Corrected(x)
mq_add(x, y)     == Corrected(x + y - Q)
mq_sub(x, y)     == Corrected(x - y)

mq_rshift1(x) == (IF x % 2 = 1 THEN x + Q ELSE x) \div 2

(* A bug: the result is left below 2q. *)
mq_montymul_NoSub(x, y) ==
  LET z == x * y
      w == (((z % B) * Q0I) % B) * Q
  IN  (z + w) \div B

(* z & 0xFFFF is taken before the product with Q0I too: the code has it    *)
(* only after, where the product has wrapped modulo 2^32.                  *)
mq_montymul(x, y) ==
  LET z == x * y
      w == (((z % B) * Q0I) % B) * Q
  IN  Corrected((z + w) \div B - Q)

mq_montysqr(x) == mq_montymul(x, x)

(* A bug: a wrong turn in the chain. *)
mq_div_12289_Chain(x, y) ==
  LET y0  == mq_montymul(y, R2)
      y1  == mq_montysqr(y0)
      y2  == mq_montymul(y1, y0)
      y3  == mq_montymul(y2, y1)
      y8  == mq_montysqr(mq_montysqr(mq_montysqr(mq_montysqr(mq_montysqr(y3)))))
      y10 == mq_montymul(mq_montymul(y8, y2), y8)
      y13 == mq_montymul(mq_montysqr(mq_montysqr(y10)), y10)
      y16 == mq_montymul(mq_montysqr(mq_montysqr(y13)), y10)
      y18 == mq_montymul(mq_montysqr(y16), y0)
  IN  mq_montymul(y18, x)

(* The addition chain for the exponent q - 2. *)
mq_div_12289(x, y) ==
  LET y0  == mq_montymul(y, R2)
      y1  == mq_montysqr(y0)
      y2  == mq_montymul(y1, y0)
      y3  == mq_montymul(y2, y1)
      y8  == mq_montysqr(mq_montysqr(mq_montysqr(mq_montysqr(mq_montysqr(y3)))))
      y9  == mq_montymul(y8, y2)
      y10 == mq_montymul(y9, y8)
      y13 == mq_montymul(mq_montysqr(mq_montysqr(y10)), y9)
      y16 == mq_montymul(mq_montysqr(mq_montysqr(y13)), y10)
      y18 == mq_montymul(mq_montysqr(y16), y0)
  IN  mq_montymul(y18, x)

-----------------------------------------------------------------------------
(* A bug: the factor of a block is not that of its place in the layer. *)
NttLayer_OneFactor(a, m) ==
  LET ht == (n \div m) \div 2
      s(k) == GMb[m + 1]
  IN  [k \in Index |->
         IF (k \div ht) % 2 = 0
         THEN mq_add(a[k], mq_montymul(a[k + ht], s(k)))
         ELSE mq_sub(a[k - ht], mq_montymul(a[k], s(k)))]

(* The layer of mq_NTT with m blocks.  The code's arrays start at 0.       *)
NttLayer(a, m) ==
  LET ht == (n \div m) \div 2
      s(k) == GMb[m + k \div (2 * ht) + 1]
  IN  [k \in Index |->
         IF (k \div ht) % 2 = 0
         THEN mq_add(a[k], mq_montymul(a[k + ht], s(k)))
         ELSE mq_sub(a[k - ht], mq_montymul(a[k], s(k)))]

(* The layer of mq_iNTT that leaves hm blocks. *)
InttLayer(a, hm) ==
  LET t == (n \div hm) \div 2
      s(k) == iGMb[hm + k \div (2 * t) + 1]
  IN  [k \in Index |->
         IF (k \div t) % 2 = 0
         THEN mq_add(a[k], a[k + t])
         ELSE mq_montymul(mq_sub(a[k - t], a[k]), s(k))]

(* The division by n that ends mq_iNTT. *)
Scale(a) ==
  LET ni[k \in 0..logn] == IF k = 0 THEN R ELSE mq_rshift1(ni[k - 1])
  IN  [k \in Index |-> mq_montymul(a[k], ni[logn])]

(* mq_NTT and mq_iNTT: the layers one after the other. *)
mq_NTT(a) ==
  LET b[k \in 0..logn] == IF k = 0 THEN a ELSE NttLayer(b[k - 1], 2^(k - 1))
  IN  b[logn]

mq_iNTT(a) ==
  LET b[k \in 0..logn] == IF k = 0 THEN a ELSE InttLayer(b[k - 1], 2^(logn - k))
  IN  Scale(b[logn])

mq_poly_tomonty(a)         == [k \in Index |-> mq_montymul(a[k], R2)]
mq_poly_montymul_ntt(a, b) == [k \in Index |-> mq_montymul(a[k], b[k])]
mq_poly_sub(a, b)          == [k \in Index |-> mq_sub(a[k], b[k])]
mq_poly_conv(a)            == [k \in Index |-> mq_conv_small(a[k])]

-----------------------------------------------------------------------------
Failed == [ok |-> FALSE]

(* compute_public *)
compute_public(f, g) ==
  LET ff == mq_NTT(mq_poly_conv(f))
      gg == mq_NTT(mq_poly_conv(g))
  IN  IF \E k \in Index : ff[k] = 0 THEN Failed
      ELSE [ok |-> TRUE,
            val |-> mq_iNTT([k \in Index |-> mq_div_12289(gg[k], ff[k])])]

(* complete_private: G = g*F/f, if its coefficients fit.  A value of (q-1)/2 *)
(* is taken below zero here, unlike in verify_raw.                         *)
complete_private(f, g, F) ==
  LET ff == mq_NTT(mq_poly_conv(f))
      gF == mq_poly_montymul_ntt(mq_poly_tomonty(mq_NTT(mq_poly_conv(g))),
                                 mq_NTT(mq_poly_conv(F)))
      t  == mq_iNTT([k \in Index |-> mq_div_12289(gF[k], ff[k])])
      G  == [k \in Index |-> IF t[k] >= Q \div 2 THEN t[k] - Q ELSE t[k]]
  IN  IF (\E k \in Index : ff[k] = 0) \/ (\E k \in Index : G[k] \notin (-127)..127)
      THEN Failed ELSE [ok |-> TRUE, val |-> G]

(* Is no coefficient 0 in the NTT? *)
is_invertible(s2) == \A k \in Index : mq_NTT(mq_poly_conv(s2))[k] # 0

(* verify_recover without its test of the norm: h from a signature. *)
verify_recover(c0, s1, s2) ==
  LET tt == mq_NTT(mq_poly_conv(s2))
      hh == mq_NTT(mq_poly_sub(c0, mq_poly_conv(s1)))
  IN  mq_iNTT([k \in Index |-> mq_div_12289(hh[k], tt[k])])
=============================================================================
