------------------------------- MODULE Bezout -------------------------------
(***************************************************************************)
(* zint_bezout of falcon-lazy/keygen.c, the extended binary GCD at the     *)
(* bottom of the key generator's NTRU solver.  It works on integers of     *)
(* Words words of W bits.  Each turn of its loop looks at the two top      *)
(* words and the low word of a and b only, derives four factors from W     *)
(* steps of the bit-by-bit algorithm on them, and applies the factors to   *)
(* the whole integers at once; a wrong decision on the top words shows as  *)
(* a negative result, and is put right by a change of sign.                *)
(*                                                                         *)
(* Integers are values here, words where the code cuts them: a value wraps *)
(* where the array that holds it would.                                    *)
(***************************************************************************)
EXTENDS Integers, FiniteSetsExt

CONSTANTS
  W,       (* bits of a word, 31 in the code                               *)
  Words    (* words of an integer                                          *)

ASSUME BezoutAssumption == W \in 2..31 /\ Words \in Nat \ {0}

VARIABLES
  x, y,                (* the operands                                     *)
  num,                 (* the loop's counter of bits                       *)
  a, b,                (* what is left of them                             *)
  u0, v0, u1, v1,      (* the coefficients of a and of b                   *)
  ret                  (* -2 before a call, -1 in it, then what it returns *)

bezoutVars == <<x, y, num, a, b, u0, v0, u1, v1, ret>>

Full == 2^(W * Words)

(* Before a call.  A call sets everything. *)
Idle ==
  /\ x = 1 /\ y = 1 /\ num = 0 /\ a = 1 /\ b = 0
  /\ u0 = 1 /\ v0 = 0 /\ u1 = 1 /\ v1 = 0 /\ ret = -2

(* What a call leaves is not read by the next one. *)
Forget ==
  /\ x' = 1 /\ y' = 1 /\ num' = 0 /\ a' = 1 /\ b' = 0
  /\ u0' = 1 /\ v0' = 0 /\ u1' = 1 /\ v1' = 0 /\ ret' = -2

Call(fp, gp) ==
  /\ x' = fp /\ y' = gp
  /\ num' = 2 * W * Words + W - 1
  /\ a' = fp /\ u0' = 1 /\ v0' = 0
  /\ b' = gp /\ u1' = gp /\ v1' = fp - 1
  /\ ret' = -1

-----------------------------------------------------------------------------
(* What v is above its j low words. *)
Above(v, j) ==
  LET s[k \in 0..Words] == IF k = 0 THEN v ELSE s[k - 1] \div 2^W
  IN  s[j]

(* A bug: a second top word is taken for each operand by itself. *)
Top_OwnWords(v) ==
  LET used == {j \in 1..(Words - 1) : Above(v, j) # 0}
  IN  Above(v, Max(used \cup {1}) - 1)

(* a_hi, b_hi: two words of v, from the highest place where a or b has one *)
(* that is not zero.                                                       *)
Top(v) ==
  LET used == {j \in 1..(Words - 1) : Above(a, j) # 0 \/ Above(b, j) # 0}
  IN  Above(v, Max(used \cup {1}) - 1)

(* One step on the extracted words.  A division of one by two is made as a *)
(* multiplication of the other: bit i is the next one to look at.  Low     *)
(* parts have one bit more than a word.                                    *)
Step(s, i) ==
  LET bit(v) == (v \div 2^i) % 2
      low(v) == v % 2^(W + 1)
      both   == bit(s.alo) = 1 /\ bit(s.blo) = 1
      cAB    == both /\ s.ahi > s.bhi
      cBA    == both /\ ~(s.ahi > s.bhi)
      cA     == cAB \/ bit(s.alo) = 0
      d      == IF cAB
                THEN [s EXCEPT !.alo = low(@ - s.blo), !.ahi = @ - s.bhi,
                               !.pa = @ - s.qa, !.pb = @ - s.qb]
                ELSE IF cBA
                THEN [s EXCEPT !.blo = low(@ - s.alo), !.bhi = @ - s.ahi,
                               !.qa = @ - s.pa, !.qb = @ - s.pb]
                ELSE s
  IN  IF cA
      THEN [d EXCEPT !.blo = low(2 * @), !.qa = 2 * @, !.qb = 2 * @, !.ahi = @ \div 2]
      ELSE [d EXCEPT !.alo = low(2 * @), !.pa = 2 * @, !.pb = 2 * @, !.bhi = @ \div 2]

(* A bug: i <= 31. *)
Factors_OneMore ==
  LET f[i \in 0..(W + 1)] ==
        IF i = 0
        THEN [alo |-> a % 2^W, blo |-> b % 2^W, ahi |-> Top(a), bhi |-> Top(b),
              pa |-> 1, pb |-> 0, qa |-> 0, qb |-> 1]
        ELSE Step(f[i - 1], i - 1)
  IN  f[W + 1]

(* The factors of a turn. *)
Factors ==
  LET f[i \in 0..W] ==
        IF i = 0
        THEN [alo |-> a % 2^W, blo |-> b % 2^W, ahi |-> Top(a), bhi |-> Top(b),
              pa |-> 1, pb |-> 0, qa |-> 0, qb |-> 1]
        ELSE Step(f[i - 1], i - 1)
  IN  f[W]

(* A bug: the caller is not told of the change of sign. *)
CoReduce_Silent(p, q) ==
  LET t == (a * p + b * q) \div 2^W
  IN  [neg |-> FALSE, val |-> (IF t < 0 THEN -t ELSE t) % Full]

(* Another: zint_negate is not called. *)
CoReduce_NoNegate(p, q) ==
  LET t == (a * p + b * q) \div 2^W
  IN  [neg |-> t < 0, val |-> t % Full]

(* zint_co_reduce, one of its two results: the low word is dropped, and    *)
(* zint_negate makes it positive.                                          *)
CoReduce(p, q) ==
  LET t == (a * p + b * q) \div 2^W
  IN  [neg |-> t < 0, val |-> (IF t < 0 THEN -t ELSE t) % Full]

(* modp_ninv31: -1/m modulo a word when m is odd, by Newton's iteration. *)
Ninv(m) ==
  LET z[k \in 0..4] == IF k = 0 THEN 2 - (m % 2^W)
                       ELSE (z[k - 1] * (2 - (m % 2^W) * z[k - 1])) % 2^W
  IN  (-z[4]) % 2^W

(* A bug: a value that is not negative is left as it is. *)
FinishMod_NoSub(t, m) == (IF t < 0 THEN t + m ELSE t) % Full

(* zint_finish_mod *)
FinishMod(t, m) ==
  (IF t < 0 THEN t + m ELSE IF t >= m THEN t - m ELSE t) % Full

(* The Montgomery quotient of c*p + d*q. *)
Quotient(c, d, m, p, q) ==
  LET f == ((c * p + d * q) * Ninv(m)) % 2^W
  IN  (c * p + d * q + m * f) \div 2^W

(* zint_co_reduce_mod, one of its two results. *)
CoReduceMod(c, d, m, p, q) == FinishMod(Quotient(c, d, m, p, q), m)

(* One turn of the outer loop. *)
Reduce ==
  /\ ret = -1 /\ num >= W - 1
  /\ LET s  == Factors
         ra == CoReduce(s.pa, s.pb)
         rb == CoReduce(s.qa, s.qb)
         sa == IF ra.neg THEN -1 ELSE 1
         sb == IF rb.neg THEN -1 ELSE 1
     IN  /\ a' = ra.val /\ b' = rb.val
         /\ u0' = CoReduceMod(u0, u1, y, sa * s.pa, sa * s.pb)
         /\ u1' = CoReduceMod(u0, u1, y, sb * s.qa, sb * s.qb)
         /\ v0' = CoReduceMod(v0, v1, x, sa * s.pa, sa * s.pb)
         /\ v1' = CoReduceMod(v0, v1, x, sb * s.qa, sb * s.qb)
  /\ num' = num - (W - 1)
  /\ UNCHANGED <<x, y, ret>>

(* Is the GCD 1?  Operands that are not odd are refused here. *)
Return ==
  /\ ret = -1 /\ num < W - 1
  /\ ret' = IF a = 1 /\ x % 2 = 1 /\ y % 2 = 1 THEN 1 ELSE 0
  /\ UNCHANGED <<x, y, num, a, b, u0, v0, u1, v1>>

BezoutNext == Reduce \/ Return

-----------------------------------------------------------------------------
(* Integers fit in their words, the coefficients in the ranges of the      *)
(* comment (keygen.c:1592-1597), but for u0, which is y at first if y is 1. *)
BezoutTypeOK ==
  /\ a \in 0..(Full - 1) /\ b \in 0..(Full - 1)
  /\ u0 \in 0..y /\ v0 \in 0..(x - 1) /\ u1 \in 0..y /\ v1 \in 0..(x - 1)
  /\ y > 1 => u0 < y
  /\ num \in 0..(2 * W * Words + W - 1) /\ ret \in {-2, -1, 0, 1}

(* The coefficients follow the integers through every turn, wrong          *)
(* decisions on the top words and changes of sign included, modulo x*y:    *)
(* the comment's equations (keygen.c:1590-1591), of which the one of b is  *)
(* not exact, for u1 = y is reduced to 0 and v1 = x - 1 is not.  With 1    *)
(* come the coefficients that are promised (keygen.c:1573-1576), unless y  *)
(* is 1.                                                                   *)
Coefficients ==
  /\ (x * u0 - y * v0 - a) % (x * y) = 0
  /\ (x * u1 - y * v1 - b) % (x * y) = 0
  /\ ret = 1 /\ y > 1 => x * u0 - y * v0 = 1

(* What keeps the 64-bit carries of zint_co_reduce and zint_co_reduce_mod  *)
(* from overflowing, and the latter's quotients within zint_finish_mod's   *)
(* -m <= t < 2m (keygen.c:1470-1471).                                      *)
FactorsBounded ==
  LET s      == Factors
      abs(z) == IF z < 0 THEN -z ELSE z
  IN  ret = -1 => /\ abs(s.pa) + abs(s.pb) <= 2^W
                  /\ abs(s.qa) + abs(s.qb) <= 2^W

(* "Each such step will reduce the total length (sum of lengths of a and   *)
(* b) by at least 30 bits" (keygen.c:1691-1692), as long as both are there *)
(* to reduce: what the loop's fixed count of turns rests on.               *)
BitLength(z) == Cardinality({k \in 0..(W * Words - 1) : z >= 2^k})

Shrinks ==
  [][ ret = -1 /\ num' # num /\ a' # 0 /\ b' # 0 =>
        BitLength(a') + BitLength(b') + W - 1 <= BitLength(a) + BitLength(b) ]_bezoutVars

Gcd[p \in Nat \X Nat] == IF p[2] = 0 THEN p[1] ELSE Gcd[<<p[2], p[1] % p[2]>>]

(* What is returned after the fixed count of turns: 1 exactly for operands *)
(* with no common factor (keygen.c:1571-1572).                             *)
Result ==
  ret \in {0, 1} => (ret = 1 <=> Gcd[<<x, y>>] = 1)
=============================================================================
