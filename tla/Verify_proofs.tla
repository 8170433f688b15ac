--------------------------- MODULE Verify_proofs ----------------------------
(***************************************************************************)
(* The verifier for every degree, key, signature value, point and damage   *)
(* to the bytes.  In this order:                                           *)
(*   - each operation of Mq stays in 0..q-1 and is congruent to what it    *)
(*     stands for, no word is cut, and every array of the verifier holds   *)
(*     residues from the stage that fills it on;                           *)
(*   - what is sent and arrives unchanged is decoded to what was encoded,  *)
(*     and a key and a value have one encoding;                            *)
(*   - the transform takes products of the ring Z_q[X]/(X^n + 1) to        *)
(*     products of values, and mq_iNTT undoes it;                          *)
(*   - the verdict is therefore that of the signature equation;            *)
(*   - q is a prime: mq_div_12289, its addition chain being one for q - 2, *)
(*     divides, and the three inversions of vrfy.c agree.                  *)
(***************************************************************************)
EXTENDS Verify, Codec_proofs

(* A residue and its bounds: the solver is given these, never the range    *)
(* itself, whose 12289 members it would try one by one.                    *)
LEMMA IsResidue ==
  ASSUME NEW t \in Int, 0 <= t, t < Q
  PROVE  t \in Zq
<1>1. Q \in Int
  BY SMT DEF Q
<1>. QED BY <1>1, SMT DEF Zq

LEMMA OfResidue ==
  ASSUME NEW t \in Zq
  PROVE  t \in Int /\ 0 <= t /\ t < Q
<1>1. Q \in Int
  BY SMT DEF Q
<1>. QED BY <1>1, SMT DEF Zq

(* mq_add is the sum modulo q, in 0..q-1 (vrfy.c:341-359). *)
THEOREM AddExact ==
  ASSUME NEW x \in Zq, NEW y \in Zq
  PROVE  mq_add(x, y) \in Zq /\ mq_add(x, y) = (x + y) % Q
<1>1. x \in Int /\ 0 <= x /\ x < Q /\ y \in Int /\ 0 <= y /\ y < Q
  BY OfResidue, Zenon
<1>2. mq_add(x, y) \in Int /\ 0 <= mq_add(x, y) /\ mq_add(x, y) < Q
  BY <1>1, SMT DEF mq_add, Corrected, Q
<1>3. mq_add(x, y) = (x + y) % Q
  BY <1>1, SMT DEF mq_add, Corrected, Q
<1>. QED BY <1>2, <1>3, IsResidue, Zenon

(* mq_sub is the difference modulo q, in 0..q-1 (vrfy.c:361-376). *)
THEOREM SubExact ==
  ASSUME NEW x \in Zq, NEW y \in Zq
  PROVE  mq_sub(x, y) \in Zq /\ mq_sub(x, y) = (x - y) % Q
<1>1. x \in Int /\ 0 <= x /\ x < Q /\ y \in Int /\ 0 <= y /\ y < Q
  BY OfResidue, Zenon
<1>2. mq_sub(x, y) \in Int /\ 0 <= mq_sub(x, y) /\ mq_sub(x, y) < Q
  BY <1>1, SMT DEF mq_sub, Corrected, Q
<1>3. mq_sub(x, y) = (x - y) % Q
  BY <1>1, SMT DEF mq_sub, Corrected, Q
<1>. QED BY <1>2, <1>3, IsResidue, Zenon

(* mq_conv_small is the residue of what it is given (vrfy.c:324-339). *)
THEOREM ConvExact ==
  ASSUME NEW x \in Int, -Q < x, x < Q
  PROVE  mq_conv_small(x) \in Zq /\ mq_conv_small(x) = x % Q
<1>1. mq_conv_small(x) \in Int /\ 0 <= mq_conv_small(x) /\ mq_conv_small(x) < Q
  BY SMT DEF mq_conv_small, Corrected, Q
<1>2. mq_conv_small(x) = x % Q
  BY SMT DEF mq_conv_small, Corrected, Q
<1>. QED BY <1>1, <1>2, IsResidue, Zenon

(* Twice mq_rshift1 of a residue is that residue (vrfy.c:378-386). *)
THEOREM HalfExact ==
  ASSUME NEW x \in Zq
  PROVE  mq_rshift1(x) \in Zq /\ (2 * mq_rshift1(x)) % Q = x
<1>1. x \in Int /\ 0 <= x /\ x < Q
  BY OfResidue, Zenon
<1>2. CASE x % 2 = 1
  <2>1. mq_rshift1(x) = (x + Q) \div 2
    BY <1>2, SMT DEF mq_rshift1
  <2>2. 2 * ((x + Q) \div 2) = x + Q
    BY <1>1, <1>2, SMT DEF Q
  <2>3. (x + Q) % Q = x
    BY <1>1, SMT DEF Q
  <2>4. (x + Q) \div 2 \in Int /\ 0 <= (x + Q) \div 2 /\ (x + Q) \div 2 < Q
    BY <1>1, SMT DEF Q
  <2>. QED BY <2>1, <2>2, <2>3, <2>4, IsResidue, Zenon
<1>3. CASE x % 2 # 1
  <2>1. mq_rshift1(x) = x \div 2
    BY <1>3, SMT DEF mq_rshift1
  <2>2. 2 * (x \div 2) = x
    BY <1>1, <1>3, SMT
  <2>3. x % Q = x
    BY <1>1, SMT DEF Q
  <2>4. x \div 2 \in Int /\ 0 <= x \div 2 /\ x \div 2 < Q
    BY <1>1, SMT DEF Q
  <2>. QED BY <2>1, <2>2, <2>3, <2>4, IsResidue, Zenon
<1>. QED BY <1>2, <1>3, Zenon

(* The largest product of two residues. *)
Square == (Q - 1) * (Q - 1)

LEMMA ProductRange ==
  ASSUME NEW x \in Zq, NEW y \in Zq
  PROVE  x * y \in Int /\ 0 <= x * y /\ x * y <= Square
<1>1. x \in Int /\ 0 <= x /\ x < Q /\ y \in Int /\ 0 <= y /\ y < Q
  BY OfResidue, Zenon
<1>2. x * y \in Int /\ 0 <= x * y
  BY <1>1, SMT
<1>3. x * y <= (Q - 1) * y
  BY <1>1, SMT DEF Q
<1>4. (Q - 1) * y <= Square /\ (Q - 1) * y \in Int /\ Square \in Int
  BY <1>1, SMT DEF Square, Q
<1> DEFINE p == x * y
           b == (Q - 1) * y
<1>5. p \in Int /\ b \in Int /\ p <= b /\ b <= Square /\ Square \in Int
  BY <1>2, <1>3, <1>4, Zenon
<1> HIDE DEF p, b
<1>6. p <= Square
  BY <1>5, SMT
<1>. QED BY <1>2, <1>6, Zenon DEF p

(* Division by 2^16. *)
LEMMA Split ==
  ASSUME NEW z \in Int
  PROVE  \E a \in Int, b \in Int : /\ 0 <= b /\ b < B
                                   /\ z = B * a + b /\ z % B = b
<1>1. z = B * (z \div B) + (z % B)
  BY SMT DEF B
<1>2. z % B \in Int /\ 0 <= z % B /\ z % B < B /\ z \div B \in Int
  BY SMT DEF B
<1>. QED BY <1>1, <1>2, Zenon

(* q * Q0I is -1 modulo 2^16: the multiple of q that is chosen for the low *)
(* bits of z cancels them.                                                 *)
LEMMA LowBits ==
  ASSUME NEW z \in Int
  PROVE  \E k \in Int, d \in Int : /\ 0 <= d /\ d < B
                                   /\ d = ((z % B) * Q0I) % B
                                   /\ z + d * Q = B * k
<1>1. PICK a \in Int, b \in Int : 0 <= b /\ b < B /\ z = B * a + b /\ z % B = b
  BY Split, Zenon
<1>2. b * Q0I \in Int
  BY SMT DEF Q0I
<1>3. PICK c \in Int, d \in Int :
        0 <= d /\ d < B /\ b * Q0I = B * c + d /\ (b * Q0I) % B = d
  BY <1>2, Split, Zenon
<1> DEFINE k == a + 2304 * b - Q * c
<1>4. k \in Int
  BY SMT DEF Q
<1>5. z + d * Q = B * k
  BY <1>1, <1>3, SMT DEF B, Q, Q0I
<1> HIDE DEF k
<1>6. ((z % B) * Q0I) % B = d
  BY <1>1, <1>3, Zenon
<1>. QED BY <1>3, <1>4, <1>5, <1>6, Zenon

(* The quotient of Montgomery's sum. *)
LEMMA Quotient ==
  ASSUME NEW z \in Int, 0 <= z, z <= Square
  PROVE  \E d \in Int, t \in Int :
           /\ 0 <= t /\ t < 2 * Q
           /\ d = ((z % B) * Q0I) % B
           /\ z + d * Q = B * t
           /\ (z + d * Q) \div B = t
<1>1. PICK k \in Int, d \in Int : /\ 0 <= d /\ d < B
                                  /\ d = ((z % B) * Q0I) % B
                                  /\ z + d * Q = B * k
  BY LowBits, Zenon
<1>2. 0 <= B * k /\ B * k <= Square + (B - 1) * Q
  <2>1. 0 <= z + d * Q
    BY <1>1, SMT DEF Q
  <2>2. z + d * Q <= Square + (B - 1) * Q
    BY <1>1, SMT DEF Q, B, Square
  <2>. QED BY <1>1, <2>1, <2>2, Zenon
<1>3. 0 <= k /\ k < 2 * Q
  BY <1>2, SMT DEF B, Q, Square
<1>4. (B * k) \div B = k
  BY SMT DEF B
<1>. QED BY <1>1, <1>3, <1>4, Zenon

(* mq_montymul stays in range and multiplies in Montgomery form            *)
(* (vrfy.c:388-424): its result times 2^16 is the product modulo q.        *)
THEOREM MontyExact ==
  ASSUME NEW x \in Zq, NEW y \in Zq
  PROVE  /\ mq_montymul(x, y) \in Zq
         /\ \E j \in Int : mq_montymul(x, y) * B = x * y + j * Q
<1>1. x * y \in Int /\ 0 <= x * y /\ x * y <= Square
  BY ProductRange, Zenon
<1> DEFINE z == x * y
<1>2. z \in Int /\ 0 <= z /\ z <= Square
  BY <1>1, Zenon
<1>3. PICK d \in Int, t \in Int : /\ 0 <= t /\ t < 2 * Q
                                  /\ d = ((z % B) * Q0I) % B
                                  /\ z + d * Q = B * t
                                  /\ (z + d * Q) \div B = t
  BY <1>2, Quotient, Zenon
<1>4. mq_montymul(x, y) = Corrected(t - Q)
  BY <1>3, Zenon DEF mq_montymul
<1> HIDE DEF z
<1>5. CASE t < Q
  <2>1. mq_montymul(x, y) = t
    BY <1>4, <1>5, SMT DEF Corrected, Q
  <2>2. t \in Zq
    BY <1>3, <1>5, IsResidue, Zenon
  <2>3. t * B = z + d * Q
    <3>1. t * B = B * t
      BY SMT DEF B
    <3>. QED BY <1>3, <3>1, Zenon
  <2>. QED BY <2>1, <2>2, <2>3, Zenon DEF z
<1>6. CASE ~(t < Q)
  <2>1. mq_montymul(x, y) = t - Q
    BY <1>4, <1>6, SMT DEF Corrected, Q
  <2>2. t - Q \in Int /\ 0 <= t - Q /\ t - Q < Q
    BY <1>3, <1>6, SMT DEF Q
  <2>3. t - Q \in Zq
    BY <2>2, IsResidue, Zenon
  <2>4. (t - Q) * B = z + (d - B) * Q
    <3>1. (t - Q) * B = B * t - B * Q
      BY SMT DEF B, Q
    <3>2. (z + d * Q) - B * Q = z + (d - B) * Q
      BY <1>2, SMT DEF B, Q
    <3>. QED BY <1>3, <3>1, <3>2, Zenon
  <2>5. d - B \in Int
    BY SMT DEF B
  <2>. QED BY <2>1, <2>3, <2>4, <2>5, Zenon DEF z
<1>. QED BY <1>5, <1>6, Zenon

-----------------------------------------------------------------------------
(* The layers of the transforms (vrfy.c:501-588).  The lemmas are about    *)
(* the indices: a butterfly's partner is in the array, and its factor is   *)
(* an entry of the table.                                                  *)
Blocks == {1, 2, 4, 8}

LEMMA Degree ==
  n \in {2, 4, 8, 16}
<1>1. CASE logn = 1
  BY <1>1, SMT DEF n
<1>2. CASE logn = 2
  BY <1>2, SMT DEF n
<1>3. CASE logn = 3
  BY <1>3, SMT DEF n
<1>4. CASE logn = 4
  BY <1>4, SMT DEF n
<1>5. logn = 1 \/ logn = 2 \/ logn = 3 \/ logn = 4
  BY DegreeAssumption, SMT
<1>. QED BY <1>1, <1>2, <1>3, <1>4, <1>5, Zenon

LEMMA HalfBlock ==
  ASSUME NEW nb \in Blocks, 2 * nb <= n
  PROVE  (n \div nb) \div 2 \in Blocks /\ n = 2 * nb * ((n \div nb) \div 2)
<1>1. CASE n = 2
  BY <1>1, SMT DEF Blocks
<1>2. CASE n = 4
  BY <1>2, SMT DEF Blocks
<1>3. CASE n = 8
  BY <1>3, SMT DEF Blocks
<1>4. CASE n = 16
  BY <1>4, SMT DEF Blocks
<1>. QED BY <1>1, <1>2, <1>3, <1>4, Degree, Zenon

LEMMA Partner ==
  ASSUME NEW nb \in Blocks, NEW ht \in Blocks, n = 2 * nb * ht, NEW k \in Index
  PROVE  /\ (k \div ht) % 2 = 0 => k + ht \in Index
         /\ (k \div ht) % 2 # 0 => k - ht \in Index
         /\ nb + k \div (2 * ht) + 1 \in 1..16
<1>1. n \in Int /\ n <= 16
  BY Degree, SMT
<1>2. k \in Int /\ 0 <= k /\ k < n
  BY <1>1, SMT DEF Index
<1>3. CASE ht = 1
  <2>1. n = 2 * nb
    BY <1>3, SMT DEF Blocks
  <2>2. CASE nb = 1
    BY <1>1, <1>2, <1>3, <2>1, <2>2, SMT DEF Index
  <2>3. CASE nb = 2
    BY <1>1, <1>2, <1>3, <2>1, <2>3, SMT DEF Index
  <2>4. CASE nb = 4
    BY <1>1, <1>2, <1>3, <2>1, <2>4, SMT DEF Index
  <2>5. CASE nb = 8
    BY <1>1, <1>2, <1>3, <2>1, <2>5, SMT DEF Index
  <2>. QED BY <2>2, <2>3, <2>4, <2>5, Zenon DEF Blocks
<1>4. CASE ht = 2
  <2>1. n = 4 * nb /\ (nb = 1 \/ nb = 2 \/ nb = 4)
    BY <1>1, <1>4, SMT DEF Blocks
  <2>2. CASE nb = 1
    BY <1>1, <1>2, <1>4, <2>1, <2>2, SMT DEF Index
  <2>3. CASE nb = 2
    BY <1>1, <1>2, <1>4, <2>1, <2>3, SMT DEF Index
  <2>4. CASE nb = 4
    BY <1>1, <1>2, <1>4, <2>1, <2>4, SMT DEF Index
  <2>. QED BY <2>1, <2>2, <2>3, <2>4, Zenon
<1>5. CASE ht = 4
  <2>1. n = 8 * nb /\ (nb = 1 \/ nb = 2)
    BY <1>1, <1>5, SMT DEF Blocks
  <2>2. CASE nb = 1
    BY <1>1, <1>2, <1>5, <2>1, <2>2, SMT DEF Index
  <2>3. CASE nb = 2
    BY <1>1, <1>2, <1>5, <2>1, <2>3, SMT DEF Index
  <2>. QED BY <2>1, <2>2, <2>3, Zenon
<1>6. CASE ht = 8
  <2>1. n = 16 * nb
    BY <1>6, SMT DEF Blocks
  <2>. QED BY <1>1, <1>2, <1>6, <2>1, SMT DEF Index, Blocks
<1>. QED BY <1>3, <1>4, <1>5, <1>6, Zenon DEF Blocks

LEMMA Tables ==
  ASSUME NEW i \in 1..16
  PROVE  GMb[i] \in Zq /\ iGMb[i] \in Zq
<1>1. GMb[i] \in Int /\ 0 <= GMb[i] /\ GMb[i] < Q
  BY SMT DEF GMb, Q
<1>2. iGMb[i] \in Int /\ 0 <= iGMb[i] /\ iGMb[i] < Q
  BY SMT DEF iGMb, Q
<1>. QED BY <1>1, <1>2, IsResidue, Zenon

(* A layer of mq_NTT reads no cell outside the array and leaves residues,  *)
(* whatever the residues it is given.                                      *)
THEOREM NttLayerRange ==
  ASSUME NEW a \in [Index -> Zq], NEW nb \in Blocks, 2 * nb <= n
  PROVE  NttLayer(a, nb) \in [Index -> Zq]
<1> DEFINE ht   == (n \div nb) \div 2
           s(k) == GMb[nb + k \div (2 * ht) + 1]
<1>1. ht \in Blocks /\ n = 2 * nb * ht
  BY HalfBlock, Zenon
<1> HIDE DEF ht
<1>2. ASSUME NEW k \in Index
      PROVE  (IF (k \div ht) % 2 = 0
              THEN mq_add(a[k], mq_montymul(a[k + ht], s(k)))
              ELSE mq_sub(a[k - ht], mq_montymul(a[k], s(k)))) \in Zq
  <2>1. /\ (k \div ht) % 2 = 0 => k + ht \in Index
        /\ (k \div ht) % 2 # 0 => k - ht \in Index
        /\ nb + k \div (2 * ht) + 1 \in 1..16
    BY <1>1, Partner, Zenon
  <2>2. s(k) \in Zq
    BY <2>1, Tables, Zenon
  <2> HIDE DEF s
  <2>3. CASE (k \div ht) % 2 = 0
    <3>1. a[k] \in Zq /\ a[k + ht] \in Zq
      BY <2>1, <2>3, Zenon
    <3>2. mq_montymul(a[k + ht], s(k)) \in Zq
      BY <2>2, <3>1, MontyExact, Zenon
    <3>3. mq_add(a[k], mq_montymul(a[k + ht], s(k))) \in Zq
      BY <3>1, <3>2, AddExact, Zenon
    <3>. QED BY <2>3, <3>3, Zenon
  <2>4. CASE (k \div ht) % 2 # 0
    <3>1. a[k] \in Zq /\ a[k - ht] \in Zq
      BY <2>1, <2>4, Zenon
    <3>2. mq_montymul(a[k], s(k)) \in Zq
      BY <2>2, <3>1, MontyExact, Zenon
    <3>3. mq_sub(a[k - ht], mq_montymul(a[k], s(k))) \in Zq
      BY <3>1, <3>2, SubExact, Zenon
    <3>. QED BY <2>4, <3>3, Zenon
  <2>. QED BY <2>3, <2>4, Zenon
<1>. QED BY <1>2, Zenon DEF NttLayer, ht

(* The same of a layer of mq_iNTT. *)
THEOREM InttLayerRange ==
  ASSUME NEW a \in [Index -> Zq], NEW hm \in Blocks, 2 * hm <= n
  PROVE  InttLayer(a, hm) \in [Index -> Zq]
<1> DEFINE t    == (n \div hm) \div 2
           s(k) == iGMb[hm + k \div (2 * t) + 1]
<1>1. t \in Blocks /\ n = 2 * hm * t
  BY HalfBlock, Zenon
<1> HIDE DEF t
<1>2. ASSUME NEW k \in Index
      PROVE  (IF (k \div t) % 2 = 0
              THEN mq_add(a[k], a[k + t])
              ELSE mq_montymul(mq_sub(a[k - t], a[k]), s(k))) \in Zq
  <2>1. /\ (k \div t) % 2 = 0 => k + t \in Index
        /\ (k \div t) % 2 # 0 => k - t \in Index
        /\ hm + k \div (2 * t) + 1 \in 1..16
    BY <1>1, Partner, Zenon
  <2>2. s(k) \in Zq
    BY <2>1, Tables, Zenon
  <2> HIDE DEF s
  <2>3. CASE (k \div t) % 2 = 0
    <3>1. a[k] \in Zq /\ a[k + t] \in Zq
      BY <2>1, <2>3, Zenon
    <3>2. mq_add(a[k], a[k + t]) \in Zq
      BY <3>1, AddExact, Zenon
    <3>. QED BY <2>3, <3>2, Zenon
  <2>4. CASE (k \div t) % 2 # 0
    <3>1. a[k] \in Zq /\ a[k - t] \in Zq
      BY <2>1, <2>4, Zenon
    <3>2. mq_sub(a[k - t], a[k]) \in Zq
      BY <3>1, SubExact, Zenon
    <3>3. mq_montymul(mq_sub(a[k - t], a[k]), s(k)) \in Zq
      BY <2>2, <3>2, MontyExact, Zenon
    <3>. QED BY <2>4, <3>3, Zenon
  <2>. QED BY <2>3, <2>4, Zenon
<1>. QED BY <1>2, Zenon DEF InttLayer, t

-----------------------------------------------------------------------------
(* The whole transforms: the layers are a function defined by recursion.   *)
LEMMA DegreeOf ==
  /\ logn = 2 => n = 4
  /\ logn = 3 => n = 8
  /\ logn = 4 => n = 16
<1>1. ASSUME logn = 2 PROVE n = 4
  BY <1>1, SMT DEF n
<1>2. ASSUME logn = 3 PROVE n = 8
  BY <1>2, SMT DEF n
<1>3. ASSUME logn = 4 PROVE n = 16
  BY <1>3, SMT DEF n
<1>. QED BY <1>1, <1>2, <1>3

LEMMA BlockOfLayer ==
  ASSUME NEW j \in 0..(logn - 1)
  PROVE  2^j \in Blocks /\ 2 * 2^j <= n /\ 2^j \in Nat
<1>1. logn \in {1, 2, 3, 4}
  BY DegreeAssumption, SMT
<1>2. CASE j = 0
  <2>1. 2^j = 1
    BY <1>2, SMT
  <2>. QED BY <2>1, Degree, SMT DEF Blocks
<1>3. CASE j = 1
  <2>1. 2^j = 2
    BY <1>3, SMT
  <2>2. n = 4 \/ n = 8 \/ n = 16
    <3>1. logn = 2 \/ logn = 3 \/ logn = 4
      BY <1>1, <1>3, SMT
    <3>. QED BY <3>1, DegreeOf, SMT
  <2>. QED BY <2>1, <2>2, SMT DEF Blocks
<1>4. CASE j = 2
  <2>1. 2^j = 4
    BY <1>4, SMT
  <2>2. n = 8 \/ n = 16
    <3>1. logn = 3 \/ logn = 4
      BY <1>1, <1>4, SMT
    <3>. QED BY <3>1, DegreeOf, SMT
  <2>. QED BY <2>1, <2>2, SMT DEF Blocks
<1>5. CASE j = 3
  <2>1. 2^j = 8
    BY <1>5, SMT
  <2>2. n = 16
    <3>1. logn = 4
      BY <1>1, <1>5, SMT
    <3>. QED BY <3>1, DegreeOf, SMT
  <2>. QED BY <2>1, <2>2, SMT DEF Blocks
<1>6. j = 0 \/ j = 1 \/ j = 2 \/ j = 3
  BY <1>1, SMT
<1>. QED BY <1>2, <1>3, <1>4, <1>5, <1>6, Zenon

Array == [Index -> Zq]

(* What the first j layers of mq_NTT make of an array.                      *)
Layered(a, j) ==
  LET b[k \in 0..logn] == IF k = 0 THEN a ELSE NttLayer(b[k - 1], 2^(k - 1))
  IN  b[j]

LEMMA LayerByLayer ==
  ASSUME NEW a \in Array
  PROVE  /\ mq_NTT(a) = Layered(a, logn) /\ Layered(a, 0) = a
         /\ \A j \in 1..logn : Layered(a, j) = NttLayer(Layered(a, j - 1), 2^(j - 1))
         /\ \A j \in 0..logn : Layered(a, j) \in Array
<1> DEFINE Def(w) == w = [k \in 0..logn |-> IF k = 0 THEN a ELSE NttLayer(w[k - 1], 2^(k - 1))]
           v == CHOOSE w : Def(w)
<1>1. logn \in Nat
  BY DegreeAssumption, SMT
<1>2. ASSUME NEW k \in 1..logn, NEW s \in Array PROVE NttLayer(s, 2^(k - 1)) \in Array
  <2>1. k - 1 \in 0..(logn - 1)
    BY <1>1
  <2>2. 2^(k - 1) \in Blocks /\ 2 * 2^(k - 1) <= n
    BY <2>1, BlockOfLayer
  <2> DEFINE p == 2^(k - 1)
  <2> HIDE DEF p
  <2>3. p \in Blocks /\ 2 * p <= n
    BY <2>2 DEF p
  <2>4. NttLayer(s, p) \in Array
    BY <2>3, NttLayerRange DEF Array
  <2>. QED BY <2>4 DEF p
<1>3. PICK w \in [0..logn -> Array] :
        w[0] = a /\ \A k \in 1..logn : w[k] = NttLayer(w[k - 1], 2^(k - 1))
  <2> DEFINE U == {r \in (1..logn) \X Array \X Array : r[3] = NttLayer(r[2], 2^(r[1] - 1))}
  <2>1. Total(logn, Array, U)
    <3>1. ASSUME NEW k \in 1..logn, NEW s \in Array PROVE \E t \in Array : <<k, s, t>> \in U
      <4>1. NttLayer(s, 2^(k - 1)) \in Array
        BY <1>2
      <4>. QED BY <4>1
    <3>. QED BY <3>1 DEF Total
  <2>2. PICK w \in Runs(logn, Array) : w[0] = a /\ Steps(w, logn, U)
    <3> HIDE DEF U
    <3>. QED BY <1>1, <2>1, Chain, Zenon
  <2>3. \A k \in 1..logn : w[k] = NttLayer(w[k - 1], 2^(k - 1))
    BY <2>2 DEF Steps
  <2>. QED BY <2>2, <2>3 DEF Runs
<1>4. Def(w)
  <2>1. ASSUME NEW k \in 0..logn
        PROVE  w[k] = IF k = 0 THEN a ELSE NttLayer(w[k - 1], 2^(k - 1))
    <3>1. CASE k = 0
      BY <1>3, <3>1
    <3>2. CASE k # 0
      <4>1. k \in 1..logn
        BY <1>1, <3>2
      <4>. QED BY <1>3, <3>2, <4>1
    <3>. QED BY <3>1, <3>2
  <2>. QED BY <1>3, <2>1
<1>5. Def(v)
  <2> HIDE DEF Def
  <2>. QED BY <1>4
<1>6. /\ mq_NTT(a) = v[logn]
      /\ \A j \in 0..logn : Layered(a, j) = v[j]
  BY DEF mq_NTT, Layered
<1> HIDE DEF v
<1>7. v[0] = a /\ \A k \in 1..logn : v[k] = NttLayer(v[k - 1], 2^(k - 1))
  <2>1. \A k \in 0..logn : v[k] = IF k = 0 THEN a ELSE NttLayer(v[k - 1], 2^(k - 1))
    BY <1>5
  <2>. QED BY <1>1, <2>1
<1>8. v \in Runs(logn, Array)
  <2>1. v[0] \in Array
    BY <1>7
  <2>2. ASSUME NEW j \in 0..(logn - 1), v[j] \in Array PROVE v[j + 1] \in Array
    <3>1. j + 1 \in 1..logn /\ (j + 1) - 1 = j
      BY <1>1
    <3>2. v[j + 1] = NttLayer(v[j], 2^((j + 1) - 1))
      BY <1>7, <3>1
    <3>. QED BY <1>2, <2>2, <3>1, <3>2
  <2>3. v = [k \in 0..logn |-> v[k]]
    BY <1>5
  <2>. QED BY <1>1, <2>1, <2>2, <2>3, ChainType, Zenon
<1>9. logn \in 0..logn /\ 0 \in 0..logn
      /\ \A j \in 1..logn : j \in 0..logn /\ j - 1 \in 0..logn
  BY <1>1
<1>. QED BY <1>6, <1>7, <1>8, <1>9, Zenon DEF Runs

(* mq_NTT takes residues to residues (vrfy.c:501-532). *)
THEOREM NttRange ==
  ASSUME NEW a \in Array
  PROVE  mq_NTT(a) \in Array
<1>1. logn \in 0..logn
  BY DegreeAssumption, SMT
<1>. QED BY <1>1, LayerByLayer, Zenon

(* The same of mq_iNTT, but for the division at the end (vrfy.c:543-572).   *)
Backed(a, j) ==
  LET b[k \in 0..logn] == IF k = 0 THEN a ELSE InttLayer(b[k - 1], 2^(logn - k))
  IN  b[j]

LEMMA BackByLayer ==
  ASSUME NEW a \in Array
  PROVE  /\ mq_iNTT(a) = Scale(Backed(a, logn)) /\ Backed(a, 0) = a
         /\ \A j \in 1..logn : Backed(a, j) = InttLayer(Backed(a, j - 1), 2^(logn - j))
         /\ \A j \in 0..logn : Backed(a, j) \in Array
<1> DEFINE Def(w) == w = [k \in 0..logn |-> IF k = 0 THEN a ELSE InttLayer(w[k - 1], 2^(logn - k))]
           v == CHOOSE w : Def(w)
<1>1. logn \in Nat
  BY DegreeAssumption, SMT
<1>2. ASSUME NEW k \in 1..logn, NEW s \in Array PROVE InttLayer(s, 2^(logn - k)) \in Array
  <2>1. logn - k \in 0..(logn - 1)
    BY <1>1
  <2>2. 2^(logn - k) \in Blocks /\ 2 * 2^(logn - k) <= n
    BY <2>1, BlockOfLayer
  <2> DEFINE p == 2^(logn - k)
  <2> HIDE DEF p
  <2>3. p \in Blocks /\ 2 * p <= n
    BY <2>2 DEF p
  <2>4. InttLayer(s, p) \in Array
    BY <2>3, InttLayerRange DEF Array
  <2>. QED BY <2>4 DEF p
<1>3. PICK w \in [0..logn -> Array] :
        w[0] = a /\ \A k \in 1..logn : w[k] = InttLayer(w[k - 1], 2^(logn - k))
  <2> DEFINE U == {r \in (1..logn) \X Array \X Array : r[3] = InttLayer(r[2], 2^(logn - r[1]))}
  <2>1. Total(logn, Array, U)
    <3>1. ASSUME NEW k \in 1..logn, NEW s \in Array PROVE \E t \in Array : <<k, s, t>> \in U
      <4>1. InttLayer(s, 2^(logn - k)) \in Array
        BY <1>2
      <4>. QED BY <4>1
    <3>. QED BY <3>1 DEF Total
  <2>2. PICK w \in Runs(logn, Array) : w[0] = a /\ Steps(w, logn, U)
    <3> HIDE DEF U
    <3>. QED BY <1>1, <2>1, Chain, Zenon
  <2>3. \A k \in 1..logn : w[k] = InttLayer(w[k - 1], 2^(logn - k))
    BY <2>2 DEF Steps
  <2>. QED BY <2>2, <2>3 DEF Runs
<1>4. Def(w)
  <2>1. ASSUME NEW k \in 0..logn
        PROVE  w[k] = IF k = 0 THEN a ELSE InttLayer(w[k - 1], 2^(logn - k))
    <3>1. CASE k = 0
      BY <1>3, <3>1
    <3>2. CASE k # 0
      <4>1. k \in 1..logn
        BY <1>1, <3>2
      <4>. QED BY <1>3, <3>2, <4>1
    <3>. QED BY <3>1, <3>2
  <2>. QED BY <1>3, <2>1
<1>5. Def(v)
  <2> HIDE DEF Def
  <2>. QED BY <1>4
<1>6. /\ mq_iNTT(a) = Scale(v[logn])
      /\ \A j \in 0..logn : Backed(a, j) = v[j]
  BY DEF mq_iNTT, Backed
<1> HIDE DEF v
<1>7. v[0] = a /\ \A k \in 1..logn : v[k] = InttLayer(v[k - 1], 2^(logn - k))
  <2>1. \A k \in 0..logn : v[k] = IF k = 0 THEN a ELSE InttLayer(v[k - 1], 2^(logn - k))
    BY <1>5
  <2>. QED BY <1>1, <2>1
<1>8. v \in Runs(logn, Array)
  <2>1. v[0] \in Array
    BY <1>7
  <2>2. ASSUME NEW j \in 0..(logn - 1), v[j] \in Array PROVE v[j + 1] \in Array
    <3>1. j + 1 \in 1..logn /\ (j + 1) - 1 = j
      BY <1>1
    <3>2. v[j + 1] = InttLayer(v[j], 2^(logn - (j + 1)))
      BY <1>7, <3>1
    <3>. QED BY <1>2, <2>2, <3>1, <3>2
  <2>3. v = [k \in 0..logn |-> v[k]]
    BY <1>5
  <2>. QED BY <1>1, <2>1, <2>2, <2>3, ChainType, Zenon
<1>9. logn \in 0..logn /\ 0 \in 0..logn
      /\ \A j \in 1..logn : j \in 0..logn /\ j - 1 \in 0..logn
  BY <1>1
<1>. QED BY <1>6, <1>7, <1>8, <1>9, Zenon DEF Runs

(* The factor that Scale multiplies by: R halved logn times. *)
Halved(j) ==
  LET ni[k \in 0..logn] == IF k = 0 THEN R ELSE mq_rshift1(ni[k - 1])
  IN  ni[j]

LEMMA HalvedSteps ==
  /\ \A a : Scale(a) = [k \in Index |-> mq_montymul(a[k], Halved(logn))]
  /\ Halved(0) = R
  /\ \A j \in 1..logn : Halved(j) = mq_rshift1(Halved(j - 1))
  /\ \A j \in 0..logn : Halved(j) \in Zq
<1> DEFINE Def(w) == w = [k \in 0..logn |-> IF k = 0 THEN R ELSE mq_rshift1(w[k - 1])]
           v == CHOOSE w : Def(w)
<1>1. logn \in Nat
  BY DegreeAssumption, SMT
<1>2. R \in Zq
  <2>1. R \in Int /\ 0 <= R /\ R < Q
    BY SMT DEF R, Q
  <2>. QED BY <2>1, IsResidue, Zenon
<1>3. PICK w \in [0..logn -> Zq] : w[0] = R /\ \A k \in 1..logn : w[k] = mq_rshift1(w[k - 1])
  <2> DEFINE U == {r \in (1..logn) \X Zq \X Zq : r[3] = mq_rshift1(r[2])}
  <2>1. Total(logn, Zq, U)
    <3>1. ASSUME NEW k \in 1..logn, NEW s \in Zq PROVE \E t \in Zq : <<k, s, t>> \in U
      <4>1. mq_rshift1(s) \in Zq
        BY HalfExact, Zenon
      <4>. QED BY <4>1
    <3>. QED BY <3>1 DEF Total
  <2>2. PICK w \in Runs(logn, Zq) : w[0] = R /\ Steps(w, logn, U)
    <3> HIDE DEF U
    <3>. QED BY <1>1, <1>2, <2>1, Chain, Zenon
  <2>3. \A k \in 1..logn : w[k] = mq_rshift1(w[k - 1])
    BY <2>2 DEF Steps
  <2>. QED BY <2>2, <2>3 DEF Runs
<1>4. Def(w)
  <2>1. ASSUME NEW k \in 0..logn PROVE w[k] = IF k = 0 THEN R ELSE mq_rshift1(w[k - 1])
    <3>1. CASE k = 0
      BY <1>3, <3>1
    <3>2. CASE k # 0
      <4>1. k \in 1..logn
        BY <1>1, <3>2
      <4>. QED BY <1>3, <3>2, <4>1
    <3>. QED BY <3>1, <3>2
  <2>. QED BY <1>3, <2>1
<1>5. Def(v)
  <2> HIDE DEF Def
  <2>. QED BY <1>4
<1>6. /\ \A a : Scale(a) = [k \in Index |-> mq_montymul(a[k], v[logn])]
      /\ \A j \in 0..logn : Halved(j) = v[j]
  BY DEF Scale, Halved
<1> HIDE DEF v
<1>7. v[0] = R /\ \A k \in 1..logn : v[k] = mq_rshift1(v[k - 1])
  <2>1. \A k \in 0..logn : v[k] = IF k = 0 THEN R ELSE mq_rshift1(v[k - 1])
    BY <1>5
  <2>. QED BY <1>1, <2>1
<1>8. v \in Runs(logn, Zq)
  <2>1. v[0] \in Zq
    BY <1>2, <1>7, Zenon
  <2>2. ASSUME NEW j \in 0..(logn - 1), v[j] \in Zq PROVE v[j + 1] \in Zq
    <3>1. j + 1 \in 1..logn /\ (j + 1) - 1 = j
      BY <1>1
    <3>2. v[j + 1] = mq_rshift1(v[j])
      BY <1>7, <3>1
    <3>. QED BY <2>2, <3>2, HalfExact, Zenon
  <2>3. v = [k \in 0..logn |-> v[k]]
    BY <1>5
  <2>. QED BY <1>1, <2>1, <2>2, <2>3, ChainType, Zenon
<1>9. logn \in 0..logn /\ 0 \in 0..logn
      /\ \A j \in 1..logn : j \in 0..logn /\ j - 1 \in 0..logn
  BY <1>1
<1>. QED BY <1>6, <1>7, <1>8, <1>9, Zenon DEF Runs

LEMMA ScaleRange ==
  ASSUME NEW a \in Array
  PROVE  Scale(a) \in Array
<1>1. logn \in 0..logn
  BY DegreeAssumption, SMT
<1>2. Halved(logn) \in Zq
  BY <1>1, HalvedSteps, Zenon
<1>3. ASSUME NEW k \in Index PROVE mq_montymul(a[k], Halved(logn)) \in Zq
  <2>1. a[k] \in Zq
    BY Zenon DEF Array
  <2>. QED BY <1>2, <2>1, MontyExact, Zenon
<1>. QED BY <1>3, HalvedSteps, Zenon DEF Array

(* mq_iNTT takes residues to residues, the division by n included          *)
(* (vrfy.c:534-588).                                                       *)
THEOREM InttRange ==
  ASSUME NEW a \in Array
  PROVE  mq_iNTT(a) \in Array
<1>1. logn \in 0..logn
  BY DegreeAssumption, SMT
<1>. QED BY <1>1, BackByLayer, ScaleRange, Zenon

(* mq_div_12289 yields a residue, whatever it divides (vrfy.c:435-499).    *)
THEOREM DivRange ==
  ASSUME NEW a \in Zq, NEW b \in Zq
  PROVE  mq_div_12289(a, b) \in Zq
<1> DEFINE y0  == mq_montymul(b, R2)
           y1  == mq_montysqr(y0)
           y2  == mq_montymul(y1, y0)
           y3  == mq_montymul(y2, y1)
           y4  == mq_montysqr(y3)
           y5  == mq_montysqr(y4)
           y6  == mq_montysqr(y5)
           y7  == mq_montysqr(y6)
           y8  == mq_montysqr(y7)
           y9  == mq_montymul(y8, y2)
           y10 == mq_montymul(y9, y8)
           y11 == mq_montysqr(y10)
           y12 == mq_montysqr(y11)
           y13 == mq_montymul(y12, y9)
           y14 == mq_montysqr(y13)
           y15 == mq_montysqr(y14)
           y16 == mq_montymul(y15, y10)
           y17 == mq_montysqr(y16)
           y18 == mq_montymul(y17, y0)
<1>1. R2 \in Zq
  <2>1. R2 \in Int /\ 0 <= R2 /\ R2 < Q
    BY SMT DEF R2, Q
  <2>. QED BY <2>1, IsResidue, Zenon
<1>2. \A s \in Zq : mq_montysqr(s) \in Zq
  BY MontyExact, Zenon DEF mq_montysqr
<1>3. \A s \in Zq, t \in Zq : mq_montymul(s, t) \in Zq
  BY MontyExact, Zenon
<1>4. mq_div_12289(a, b) = mq_montymul(y18, a)
  BY Zenon DEF mq_div_12289
<1>5. y0 \in Zq
  BY <1>1, <1>3, Zenon
<1> HIDE DEF y0
<1>6. y1 \in Zq
  BY <1>2, <1>5, Zenon
<1> HIDE DEF y1
<1>7. y2 \in Zq
  BY <1>3, <1>5, <1>6, Zenon
<1> HIDE DEF y2
<1>8. y3 \in Zq
  BY <1>3, <1>6, <1>7, Zenon
<1> HIDE DEF y3
<1>9. y8 \in Zq
  <2>1. y4 \in Zq
    BY <1>2, <1>8, Zenon
  <2> HIDE DEF y4
  <2>2. y5 \in Zq
    BY <1>2, <2>1, Zenon
  <2> HIDE DEF y5
  <2>3. y6 \in Zq
    BY <1>2, <2>2, Zenon
  <2> HIDE DEF y6
  <2>4. y7 \in Zq
    BY <1>2, <2>3, Zenon
  <2> HIDE DEF y7
  <2>. QED BY <1>2, <2>4, Zenon
<1> HIDE DEF y8
<1>10. y9 \in Zq
  BY <1>3, <1>7, <1>9, Zenon
<1> HIDE DEF y9
<1>11. y10 \in Zq
  BY <1>3, <1>9, <1>10, Zenon
<1> HIDE DEF y10
<1>12. y13 \in Zq
  <2>1. y11 \in Zq
    BY <1>2, <1>11, Zenon
  <2> HIDE DEF y11
  <2>2. y12 \in Zq
    BY <1>2, <2>1, Zenon
  <2> HIDE DEF y12
  <2>. QED BY <1>3, <1>10, <2>2, Zenon
<1> HIDE DEF y13
<1>13. y16 \in Zq
  <2>1. y14 \in Zq
    BY <1>2, <1>12, Zenon
  <2> HIDE DEF y14
  <2>2. y15 \in Zq
    BY <1>2, <2>1, Zenon
  <2> HIDE DEF y15
  <2>. QED BY <1>3, <1>11, <2>2, Zenon
<1> HIDE DEF y16
<1>14. y17 \in Zq
  BY <1>2, <1>13, Zenon
<1> HIDE DEF y17
<1>15. y18 \in Zq
  BY <1>3, <1>5, <1>14, Zenon
<1> HIDE DEF y18
<1>16. mq_montymul(y18, a) \in Zq
  BY <1>3, <1>15, Zenon
<1>. QED BY <1>4, <1>16, Zenon

LEMMA ConvRange ==
  ASSUME NEW a, \A k \in Index : a[k] \in Int /\ -Q < a[k] /\ a[k] < Q
  PROVE  mq_poly_conv(a) \in Array
<1>1. ASSUME NEW k \in Index PROVE mq_conv_small(a[k]) \in Zq
  BY ConvExact, Zenon
<1>. QED BY <1>1, Zenon DEF mq_poly_conv, Array

LEMMA SmallRange ==
  ASSUME NEW a \in SmallPoly
  PROVE  mq_poly_conv(a) \in Array
<1>1. ASSUME NEW k \in Index PROVE a[k] \in Int /\ -Q < a[k] /\ a[k] < Q
  <2>1. a[k] \in (-127)..127
    BY DEF SmallPoly
  <2>. QED BY <2>1, SMT DEF Q
<1>. QED BY <1>1, ConvRange

(* compute_public fails or yields a polynomial over Z_q (vrfy.c:705-729).  *)
THEOREM PublicRange ==
  ASSUME NEW a \in SmallPoly, NEW b \in SmallPoly
  PROVE  LET r == compute_public(a, b)
         IN  r.ok => r.val \in Array
<1> DEFINE aa == mq_NTT(mq_poly_conv(a))
           bb == mq_NTT(mq_poly_conv(b))
           c == [k \in Index |-> mq_div_12289(bb[k], aa[k])]
<1>1. aa \in Array /\ bb \in Array
  BY SmallRange, NttRange
<1> HIDE DEF aa, bb
<1>2. c \in Array
  <2>1. ASSUME NEW k \in Index PROVE mq_div_12289(bb[k], aa[k]) \in Zq
    <3>1. aa[k] \in Zq /\ bb[k] \in Zq
      BY <1>1, Zenon DEF Array
    <3>. QED BY <3>1, DivRange, Zenon
  <2>. QED BY <2>1, Zenon DEF Array
<1> HIDE DEF c
<1>3. mq_iNTT(c) \in Array
  BY <1>2, InttRange
<1>4. \/ compute_public(a, b) = [ok |-> FALSE]
      \/ compute_public(a, b) = [ok |-> TRUE, val |-> mq_iNTT(c)]
  BY DEF compute_public, Failed, aa, bb, c
<1>. QED BY <1>3, <1>4

-----------------------------------------------------------------------------
(* The verifier.                                                           *)
Stages  == {"make", "encode", "key", "value", "ntt h", "monty", "load", "ntt s2",
            "product", "intt", "scale", "sub", "norm", "done"}
HasKey   == {"value", "ntt h", "monty", "load", "ntt s2", "product", "intt", "scale",
             "sub", "norm"}
HasValue == HasKey \ {"value"}
InNtt    == HasValue \ {"ntt h", "monty", "load"}
Layers   == {"ntt h", "ntt s2", "intt"}

Codes == {0, SIZE, FORMAT, BADSIG}

(* What each stage has behind it, and the loop's variable within it.       *)
VInv ==
  /\ call \in Cases /\ pc \in Stages
  /\ pk \in Seq(Byte) /\ body \in Seq(Byte)
  /\ h  = Null \/ h  \in Array
  /\ sv = Null \/ sv \in [Index -> Coefficient]
  /\ tt = Null \/ tt \in Array
  /\ ret = Null \/ ret \in Codes
  /\ pc \in HasKey   => h \in Array
  /\ pc \in HasValue => sv \in [Index -> Coefficient]
  /\ pc \in InNtt    => tt \in Array
  /\ pc \in Layers   => m \in Blocks /\ 2 * m <= n

LEMMA CaseType ==
  ASSUME NEW c \in Cases
  PROVE  /\ c.f \in SmallPoly /\ c.g \in SmallPoly
         /\ \A k \in Index : c.s2[k] \in Int
         /\ c.c0 \in Array
         /\ c.type \in {"compressed", "padded", "ct"} /\ c.room \in Nat
<1>1. /\ {c.f, c.g, c.F, c.G} \subseteq SmallPoly
      /\ c.s2 \in ValuePoly /\ c.c0 \in [Index -> Zq]
      /\ c.type \in {"compressed", "padded", "ct"} /\ c.room \in Nat
  BY CasesAssumption, Zenon
<1>2. c.f \in SmallPoly /\ c.g \in SmallPoly
  BY <1>1, Zenon
<1>3. ASSUME NEW a \in ValuePoly, NEW k \in Index PROVE a[k] \in Int
  <2>1. \A t \in Int16 : t \in Int
    BY DEF Int16
  <2>. QED BY <2>1, Zenon DEF ValuePoly
<1>. QED BY <1>1, <1>2, <1>3, Zenon DEF Array

LEMMA FlippedType ==
  ASSUME NEW bytes \in Seq(Byte), NEW places
  PROVE  Flipped(bytes, places) \in Seq(Byte)
<1> DEFINE s == ByteBits(bytes)
           bit(k) == IF k \in places THEN 1 - s[k] ELSE s[k]
           byte(j) == Value([i \in 1..8 |-> bit(8 * (j - 1) + i)])
<1>1. s \in Seq(Bit) /\ Len(s) = 8 * Len(bytes) /\ Len(bytes) \in Nat
      /\ DOMAIN bytes = 1..Len(bytes)
  BY BytesAsBits, LenProperties
<1> HIDE DEF s
<1>2. ASSUME NEW k \in 1..Len(s) PROVE bit(k) \in Bit
  <2>1. s[k] \in Bit
    BY <1>1, ElementOfSeq, Zenon
  <2> DEFINE t == s[k]
  <2> HIDE DEF t
  <2>2. t \in Bit /\ 1 - t \in Bit
    BY <2>1 DEF Bit, t
  <2>. QED BY <2>2 DEF t
<1> HIDE DEF bit
<1>3. ASSUME NEW j \in 1..Len(bytes) PROVE byte(j) \in Byte
  <2>1. ASSUME NEW i \in 1..8 PROVE bit(8 * (j - 1) + i) \in Bit
    <3>1. 8 * (j - 1) + i \in 1..Len(s)
      BY <1>1
    <3>. QED BY <1>2, <3>1
  <2>2. [i \in 1..8 |-> bit(8 * (j - 1) + i)] \in [1..8 -> Bit]
    BY <2>1
  <2>. QED BY <2>2, ValueByte
<1> HIDE DEF byte
<1>4. Flipped(bytes, places) = [j \in 1..Len(bytes) |-> byte(j)]
  BY <1>1 DEF Flipped, s, bit, byte
<1>5. Flipped(bytes, places) \in [1..Len(bytes) -> Byte]
  BY <1>3, <1>4
<1>. QED BY <1>1, <1>5, ArrayIsSeq

LEMMA AsSeqType ==
  ASSUME NEW a, NEW T, \A k \in Index : a[k] \in T
  PROVE  AsSeq(a) \in Seq(T)
<1>1. n \in Nat
  BY Degree, SMT
<1>2. ASSUME NEW u \in 1..n PROVE a[u - 1] \in T
  <2>1. u - 1 \in Index
    BY <1>1, SMT DEF Index
  <2>. QED BY <2>1
<1>3. AsSeq(a) \in [1..n -> T]
  BY <1>2 DEF AsSeq
<1>. QED BY <1>1, <1>3, ArrayIsSeq

LEMMA AsPolyType ==
  ASSUME NEW T, NEW a \in [1..n -> T]
  PROVE  AsPoly(a) \in [Index -> T]
<1>1. n \in Nat
  BY Degree, SMT
<1>2. ASSUME NEW k \in Index PROVE a[k + 1] \in T
  <2>1. k + 1 \in 1..n
    BY <1>1, SMT DEF Index
  <2>. QED BY <2>1
<1>. QED BY <1>2 DEF AsPoly

LEMMA ResidueIsZq ==
  Residue = Zq
BY SMT DEF Residue, Zq, Q

LEMMA ZqIsInt ==
  ASSUME NEW t \in Zq
  PROVE  t \in Int
BY OfResidue, Zenon

LEMMA Widths ==
  max_sig_bits[logn] \in {10, 11, 12}
<1>1. logn = 1 \/ logn = 2 \/ logn = 3 \/ logn = 4
  BY DegreeAssumption, SMT
<1>. QED BY <1>1, SMT DEF max_sig_bits

(* The decoders, as the verifier calls them.                               *)
LEMMA KeyDecoded ==
  ASSUME NEW buf \in Seq(Byte), modq_decode(buf, n).v # 0
  PROVE  AsPoly(modq_decode(buf, n).x) \in Array
<1> DEFINE r == modq_decode(buf, n)
<1>1. n \in Nat
  BY Degree, SMT
<1>2. r = Refused \/ r.x \in [1..n -> Residue]
  BY <1>1, ModqDecodeType
<1> HIDE DEF r
<1>3. r # Refused
  BY DEF Refused, r
<1>4. r.x \in [1..n -> Zq]
  BY <1>2, <1>3, ResidueIsZq, Zenon
<1>5. AsPoly(r.x) \in Array
  BY <1>4, AsPolyType, Zenon DEF Array
<1>. QED BY <1>5 DEF r

LEMMA ValueDecoded ==
  ASSUME NEW buf \in Seq(Byte), NEW ct \in BOOLEAN
  PROVE  LET r == IF ct THEN trim_decode(buf, max_sig_bits[logn], n) ELSE comp_decode(buf, n)
         IN  r.v # 0 => AsPoly(r.x) \in [Index -> Coefficient]
<1>1. n \in Nat
  BY Degree, SMT
<1>2. ASSUME NEW r, r.v # 0, r = Refused \/ r.x \in [1..n -> Coefficient]
      PROVE  AsPoly(r.x) \in [Index -> Coefficient]
  <2>1. r # Refused
    BY <1>2 DEF Refused
  <2>. QED BY <1>2, <2>1, AsPolyType, Zenon
<1>3. comp_decode(buf, n) = Refused \/ comp_decode(buf, n).x \in [1..n -> Coefficient]
  BY <1>1, CompDecodeType
<1> DEFINE k == max_sig_bits[logn]
           t == trim_decode(buf, k, n)
           top == 2^(k - 1) - 1
<1>4. k \in {10, 11, 12} /\ k \in 2..14
  <2>1. k \in {10, 11, 12}
    BY Widths
  <2> HIDE DEF k
  <2>. QED BY <2>1, SMT
<1> HIDE DEF k
<1>5. t = Refused \/ t.x \in [1..n -> (-top)..top]
  BY <1>1, <1>4, TrimDecodeType
<1>6. \A j \in (-top)..top : j \in Coefficient
  <2>1. CASE k = 10
    <3>1. top = 511
      BY <2>1
    <3>. QED BY <3>1 DEF Coefficient
  <2>2. CASE k = 11
    <3>1. top = 1023
      BY <2>2
    <3>. QED BY <3>1 DEF Coefficient
  <2>3. CASE k = 12
    <3>1. top = 2047
      BY <2>3
    <3>. QED BY <3>1 DEF Coefficient
  <2>. QED BY <1>4, <2>1, <2>2, <2>3
<1> HIDE DEF t, top
<1>7. t = Refused \/ t.x \in [1..n -> Coefficient]
  BY <1>5, <1>6
<1>. QED BY <1>2, <1>3, <1>7 DEF t, k

-----------------------------------------------------------------------------
(* Its steps.                                                              *)
LEMMA TypeOfInv ==
  VInv => TypeOK
<1> SUFFICES ASSUME VInv PROVE TypeOK
  OBVIOUS
<1>1. pk \in Seq(Byte) /\ body \in Seq(Byte)
  BY Zenon DEF VInv
<1>2. sv = Null \/ sv \in [Index -> Coefficient]
  BY Zenon DEF VInv
<1>3. (h = Null \/ h \in [Index -> Zq]) /\ (tt = Null \/ tt \in [Index -> Zq])
  BY Zenon DEF VInv, Array
<1>4. ret \in {Null, 0, SIZE, FORMAT, BADSIG}
  BY Zenon DEF VInv, Codes
<1>. QED BY <1>1, <1>2, <1>3, <1>4, Zenon DEF TypeOK

LEMMA VInit ==
  Init => VInv
<1> SUFFICES ASSUME Init PROVE VInv
  OBVIOUS
<1>1. <<>> \in Seq(Byte)
  OBVIOUS
<1>. QED BY <1>1 DEF Init, VInv, Stages, HasKey, HasValue, InNtt, Layers

(* A transform's loop goes on with twice, or half, the blocks. *)
LEMMA NextLayer ==
  ASSUME NEW j \in Blocks, 2 * j <= n
  PROVE  /\ 2 * j < n => 2 * j \in Blocks /\ 2 * (2 * j) <= n
         /\ j \div 2 > 0 => j \div 2 \in Blocks /\ 2 * (j \div 2) <= n
         /\ 1 \in Blocks /\ 2 * 1 <= n
         /\ n \div 2 \in Blocks /\ 2 * (n \div 2) <= n
<1>1. n = 2 \/ n = 4 \/ n = 8 \/ n = 16
  BY Degree, SMT
<1>2. j = 1 \/ j = 2 \/ j = 4 \/ j = 8
  BY DEF Blocks
<1>3. /\ 2 * j < n => 2 * j \in Blocks /\ 2 * (2 * j) <= n
      /\ j \div 2 > 0 => j \div 2 \in Blocks /\ 2 * (j \div 2) <= n
  BY <1>1, <1>2, SMT DEF Blocks
<1>4. /\ 1 \in Blocks /\ 2 * 1 <= n
      /\ n \div 2 \in Blocks /\ 2 * (n \div 2) <= n
  BY <1>1, SMT DEF Blocks
<1>. QED BY <1>3, <1>4

LEMMA LoopStart ==
  /\ 1 \in Blocks /\ 2 * 1 <= n
  /\ n \div 2 \in Blocks /\ 2 * (n \div 2) <= n
<1>1. 1 \in Blocks /\ 2 * 1 <= n
  BY Degree, SMT DEF Blocks
<1>. QED BY <1>1, NextLayer

LEMMA MakePublicInv ==
  ASSUME VInv, MakePublic
  PROVE  VInv'
<1> DEFINE r == compute_public(call.f, call.g)
           e == modq_encode(AsSeq(r.val), Bytes(14 * n))
<1>1. /\ pc = "make"
      /\ call' = call /\ body' = body /\ h' = h /\ sv' = sv /\ tt' = tt /\ m' = m
      /\ \/ r.ok /\ pk' = Flipped(e, call.keyflips) /\ pc' = "encode" /\ ret' = ret
         \/ pc' = "done" /\ ret' = FORMAT /\ pk' = pk
  BY DEF MakePublic, Return
<1>2. call \in Cases
  BY DEF VInv
<1>3. r.ok => r.val \in Array
  BY <1>2, CaseType, PublicRange
<1> HIDE DEF r
<1>4. ASSUME r.ok PROVE Flipped(e, call.keyflips) \in Seq(Byte)
  <2>1. \A k \in Index : r.val[k] \in Int
    BY <1>3, <1>4, ZqIsInt, Zenon DEF Array
  <2>2. AsSeq(r.val) \in Seq(Int)
    BY <2>1, AsSeqType
  <2>3. e \in Seq(Byte)
    BY <2>2, ModqEncodeType
  <2>. QED BY <2>3, FlippedType
<1> HIDE DEF e
<1>5. pk' \in Seq(Byte) /\ pc' \in {"encode", "done"} /\ (ret' = Null \/ ret' \in Codes)
  BY <1>1, <1>4 DEF VInv, Codes
<1>. QED BY <1>1, <1>5 DEF VInv, Stages, HasKey, HasValue, InNtt, Layers

LEMMA EncodeInv ==
  ASSUME VInv, Encode
  PROVE  VInv'
<1> DEFINE e == IF call.type = "ct"
                THEN trim_encode(AsSeq(call.s2), max_sig_bits[logn], call.room)
                ELSE comp_encode(AsSeq(call.s2), call.room)
           pad == IF call.type = "padded" THEN Zeros(call.room - Len(e)) ELSE <<>>
<1>1. /\ pc = "encode"
      /\ call' = call /\ pk' = pk /\ h' = h /\ sv' = sv /\ tt' = tt /\ m' = m
      /\ \/ body' = Flipped(e \o pad, call.sigflips) /\ pc' = "key" /\ ret' = ret
         \/ pc' = "done" /\ ret' = SIZE /\ body' = body
  BY DEF Encode, Return
<1>2. call \in Cases
  BY DEF VInv
<1>3. AsSeq(call.s2) \in Seq(Int) /\ call.room \in Nat
  BY <1>2, CaseType, AsSeqType
<1>4. e \in Seq(Byte) /\ (call.type = "padded" => Len(e) <= call.room)
  <2>1. trim_encode(AsSeq(call.s2), max_sig_bits[logn], call.room) \in Seq(Byte)
    <3>1. max_sig_bits[logn] \in 0..14
      BY Widths, SMT
    <3>. QED BY <1>3, <3>1, TrimEncodeType
  <2>2. /\ comp_encode(AsSeq(call.s2), call.room) \in Seq(Byte)
        /\ Len(comp_encode(AsSeq(call.s2), call.room)) <= call.room
    BY <1>3, CompEncodeType
  <2>. QED BY <2>1, <2>2
<1> HIDE DEF e
<1>5. pad \in Seq(Byte)
  <2>1. CASE call.type = "padded"
    <3>1. Len(e) \in Nat
      BY <1>4, LenProperties
    <3>2. call.room - Len(e) \in Nat
      BY <1>3, <1>4, <2>1, <3>1
    <3>. QED BY <2>1, <3>2, ZeroBits
  <2>2. CASE call.type # "padded"
    BY <2>2
  <2>. QED BY <2>1, <2>2
<1> HIDE DEF pad
<1>6. Flipped(e \o pad, call.sigflips) \in Seq(Byte)
  <2>1. e \o pad \in Seq(Byte)
    BY <1>4, <1>5, ConcatProperties
  <2>. QED BY <2>1, FlippedType
<1>7. body' \in Seq(Byte) /\ pc' \in {"key", "done"} /\ (ret' = Null \/ ret' \in Codes)
  BY <1>1, <1>6 DEF VInv, Codes
<1>. QED BY <1>1, <1>7 DEF VInv, Stages, HasKey, HasValue, InNtt, Layers

LEMMA DecodeKeyInv ==
  ASSUME VInv, DecodeKey
  PROVE  VInv'
<1> DEFINE r == modq_decode(pk, n)
           x == AsPoly(r.x)
<1>1. /\ pc = "key"
      /\ call' = call /\ pk' = pk /\ body' = body /\ sv' = sv /\ tt' = tt /\ m' = m
      /\ \/ /\ Len(pk) = Bytes(14 * n) /\ r.v = Len(pk)
            /\ h' = x /\ pc' = "value" /\ ret' = ret
         \/ pc' = "done" /\ ret' = FORMAT /\ h' = h
  BY DEF DecodeKey, Return
<1>2. pk \in Seq(Byte)
  BY DEF VInv
<1>3. Bytes(14 * n) # 0
  BY Degree, SMT DEF Bytes
<1>4. r.v # 0 => x \in Array
  BY <1>2, KeyDecoded
<1> HIDE DEF r, x
<1>5. \/ h' \in Array /\ pc' = "value" /\ ret' = ret
      \/ pc' = "done" /\ ret' = FORMAT /\ h' = h
  BY <1>1, <1>3, <1>4
<1>. QED BY <1>1, <1>5 DEF VInv, Stages, HasKey, HasValue, InNtt, Layers, Codes

LEMMA DecodeValueInv ==
  ASSUME VInv, DecodeValue
  PROVE  VInv'
<1> DEFINE ct == call.type = "ct"
           r  == IF ct THEN trim_decode(body, max_sig_bits[logn], n) ELSE comp_decode(body, n)
           x  == AsPoly(r.x)
<1>1. /\ pc = "value"
      /\ call' = call /\ pk' = pk /\ body' = body /\ h' = h /\ tt' = tt
      /\ \/ r.v # 0 /\ sv' = x /\ m' = 1 /\ pc' = "ntt h" /\ ret' = ret
         \/ pc' = "done" /\ ret' = FORMAT /\ sv' = sv /\ m' = m
  BY DEF DecodeValue, Return
<1>2. body \in Seq(Byte) /\ ct \in BOOLEAN
  BY DEF VInv
<1>3. r.v # 0 => x \in [Index -> Coefficient]
  <2> HIDE DEF ct
  <2>. QED BY <1>2, ValueDecoded
<1> HIDE DEF r, x
<1>4. \/ sv' \in [Index -> Coefficient] /\ m' = 1 /\ pc' = "ntt h" /\ ret' = ret
      \/ pc' = "done" /\ ret' = FORMAT /\ sv' = sv /\ m' = m
  BY <1>1, <1>3
<1>5. m' = 1 => m' \in Blocks /\ 2 * m' <= n
  BY LoopStart
<1>. QED BY <1>1, <1>4, <1>5 DEF VInv, Stages, HasKey, HasValue, InNtt, Layers, Codes

(* The pointwise operations. *)
LEMMA PointwiseRange ==
  ASSUME NEW a \in Array, NEW b \in Array
  PROVE  /\ mq_poly_tomonty(a) \in Array
         /\ mq_poly_montymul_ntt(a, b) \in Array
         /\ mq_poly_sub(a, b) \in Array
<1>1. R2 \in Zq
  <2>1. R2 \in Int /\ 0 <= R2 /\ R2 < Q
    BY SMT DEF R2, Q
  <2>. QED BY <2>1, IsResidue, Zenon
<1>2. ASSUME NEW k \in Index
      PROVE  /\ mq_montymul(a[k], R2) \in Zq /\ mq_montymul(a[k], b[k]) \in Zq
             /\ mq_sub(a[k], b[k]) \in Zq
  <2>1. a[k] \in Zq /\ b[k] \in Zq
    BY Zenon DEF Array
  <2>. QED BY <1>1, <2>1, MontyExact, SubExact, Zenon
<1>. QED BY <1>2, Zenon DEF mq_poly_tomonty, mq_poly_montymul_ntt, mq_poly_sub, Array

LEMMA ConvValue ==
  ASSUME NEW a \in [Index -> Coefficient]
  PROVE  mq_poly_conv(a) \in Array
<1>1. ASSUME NEW k \in Index PROVE a[k] \in Int /\ -Q < a[k] /\ a[k] < Q
  <2>1. a[k] \in Coefficient
    OBVIOUS
  <2> DEFINE t == a[k]
  <2> HIDE DEF t
  <2>2. t \in Int /\ -2047 <= t /\ t <= 2047
    <3>1. t \in Coefficient
      BY <2>1 DEF t
    <3>. QED BY <3>1 DEF Coefficient
  <2>3. -Q < t /\ t < Q
    BY <2>2, SMT DEF Q
  <2>. QED BY <2>2, <2>3 DEF t
<1>. QED BY <1>1, ConvRange

LEMMA TransformKeyInv ==
  ASSUME VInv, TransformKey
  PROVE  VInv'
<1>1. /\ pc = "ntt h"
      /\ call' = call /\ pk' = pk /\ body' = body /\ sv' = sv /\ tt' = tt /\ ret' = ret
      /\ h' = NttLayer(h, m) /\ m' = 2 * m
      /\ pc' = IF m' < n THEN pc ELSE "monty"
  BY DEF TransformKey
<1>2. h \in Array /\ m \in Blocks /\ 2 * m <= n
  BY <1>1 DEF VInv, HasKey, Layers
<1>3. h' \in Array
  BY <1>1, <1>2, NttLayerRange, Zenon DEF Array
<1>4. \/ pc' = "ntt h" /\ m' \in Blocks /\ 2 * m' <= n
      \/ pc' = "monty"
  BY <1>1, <1>2, NextLayer
<1>. QED BY <1>1, <1>3, <1>4 DEF VInv, Stages, HasKey, HasValue, InNtt, Layers

LEMMA ToMontyInv ==
  ASSUME VInv, ToMonty
  PROVE  VInv'
<1>1. /\ pc = "monty" /\ pc' = "load"
      /\ call' = call /\ pk' = pk /\ body' = body /\ sv' = sv /\ tt' = tt /\ ret' = ret
      /\ h' = mq_poly_tomonty(h)
  BY DEF ToMonty
<1>2. h \in Array
  BY <1>1 DEF VInv, HasKey
<1>3. h' \in Array
  BY <1>1, <1>2, PointwiseRange, Zenon
<1>. QED BY <1>1, <1>3 DEF VInv, Stages, HasKey, HasValue, InNtt, Layers

LEMMA LoadInv ==
  ASSUME VInv, Load
  PROVE  VInv'
<1>1. /\ pc = "load" /\ pc' = "ntt s2"
      /\ call' = call /\ pk' = pk /\ body' = body /\ h' = h /\ sv' = sv /\ ret' = ret
      /\ tt' = mq_poly_conv(sv) /\ m' = 1
  BY DEF Load
<1>2. sv \in [Index -> Coefficient]
  BY <1>1 DEF VInv, HasKey, HasValue
<1>3. tt' \in Array
  BY <1>1, <1>2, ConvValue, Zenon
<1>4. m' \in Blocks /\ 2 * m' <= n
  BY <1>1, LoopStart, Zenon
<1>. QED BY <1>1, <1>3, <1>4 DEF VInv, Stages, HasKey, HasValue, InNtt, Layers

LEMMA TransformValueInv ==
  ASSUME VInv, TransformValue
  PROVE  VInv'
<1>1. /\ pc = "ntt s2"
      /\ call' = call /\ pk' = pk /\ body' = body /\ h' = h /\ sv' = sv /\ ret' = ret
      /\ tt' = NttLayer(tt, m) /\ m' = 2 * m
      /\ pc' = IF m' < n THEN pc ELSE "product"
  BY DEF TransformValue
<1>2. tt \in Array /\ m \in Blocks /\ 2 * m <= n
  BY <1>1 DEF VInv, HasKey, HasValue, InNtt, Layers
<1>3. tt' \in Array
  BY <1>1, <1>2, NttLayerRange, Zenon DEF Array
<1>4. \/ pc' = "ntt s2" /\ m' \in Blocks /\ 2 * m' <= n
      \/ pc' = "product"
  BY <1>1, <1>2, NextLayer
<1>. QED BY <1>1, <1>3, <1>4 DEF VInv, Stages, HasKey, HasValue, InNtt, Layers

LEMMA ProductInv ==
  ASSUME VInv, Product
  PROVE  VInv'
<1>1. /\ pc = "product" /\ pc' = "intt"
      /\ call' = call /\ pk' = pk /\ body' = body /\ h' = h /\ sv' = sv /\ ret' = ret
      /\ tt' = mq_poly_montymul_ntt(tt, h) /\ m' = n \div 2
  BY DEF Product
<1>2. tt \in Array /\ h \in Array
  BY <1>1 DEF VInv, HasKey, HasValue, InNtt
<1>3. tt' \in Array
  BY <1>1, <1>2, PointwiseRange, Zenon
<1>4. m' \in Blocks /\ 2 * m' <= n
  BY <1>1, LoopStart, Zenon
<1>. QED BY <1>1, <1>3, <1>4 DEF VInv, Stages, HasKey, HasValue, InNtt, Layers

LEMMA TransformBackInv ==
  ASSUME VInv, TransformBack
  PROVE  VInv'
<1>1. /\ pc = "intt"
      /\ call' = call /\ pk' = pk /\ body' = body /\ h' = h /\ sv' = sv /\ ret' = ret
      /\ tt' = InttLayer(tt, m) /\ m' = m \div 2
      /\ pc' = IF m' > 0 THEN pc ELSE "scale"
  BY DEF TransformBack
<1>2. tt \in Array /\ m \in Blocks /\ 2 * m <= n
  BY <1>1 DEF VInv, HasKey, HasValue, InNtt, Layers
<1>3. tt' \in Array
  BY <1>1, <1>2, InttLayerRange, Zenon DEF Array
<1>4. \/ pc' = "intt" /\ m' \in Blocks /\ 2 * m' <= n
      \/ pc' = "scale"
  BY <1>1, <1>2, NextLayer
<1>. QED BY <1>1, <1>3, <1>4 DEF VInv, Stages, HasKey, HasValue, InNtt, Layers

LEMMA RescaleInv ==
  ASSUME VInv, Rescale
  PROVE  VInv'
<1>1. /\ pc = "scale" /\ pc' = "sub"
      /\ call' = call /\ pk' = pk /\ body' = body /\ h' = h /\ sv' = sv /\ ret' = ret
      /\ tt' = Scale(tt)
  BY DEF Rescale
<1>2. tt \in Array
  BY <1>1 DEF VInv, HasKey, HasValue, InNtt
<1>3. tt' \in Array
  BY <1>1, <1>2, ScaleRange, Zenon
<1>. QED BY <1>1, <1>3 DEF VInv, Stages, HasKey, HasValue, InNtt, Layers

LEMMA SubPointInv ==
  ASSUME VInv, SubPoint
  PROVE  VInv'
<1>1. /\ pc = "sub" /\ pc' = "norm"
      /\ call' = call /\ pk' = pk /\ body' = body /\ h' = h /\ sv' = sv /\ ret' = ret
      /\ tt' = mq_poly_sub(tt, call.c0)
  BY DEF SubPoint
<1>2. tt \in Array /\ call.c0 \in Array
  BY <1>1, CaseType DEF VInv, HasKey, HasValue, InNtt
<1>3. tt' \in Array
  BY <1>1, <1>2, PointwiseRange, Zenon
<1>. QED BY <1>1, <1>3 DEF VInv, Stages, HasKey, HasValue, InNtt, Layers

LEMMA JudgeInv ==
  ASSUME VInv, Judge
  PROVE  VInv'
<1>1. /\ pc' = "done" /\ (ret' = 0 \/ ret' = BADSIG)
      /\ call' = call /\ pk' = pk /\ body' = body /\ h' = h /\ sv' = sv /\ tt' = tt
  BY DEF Judge, Return
<1>. QED BY <1>1 DEF VInv, Stages, HasKey, HasValue, InNtt, Layers, Codes

LEMMA VNext ==
  ASSUME VInv, [Next]_vars
  PROVE  VInv'
<1>1. CASE UNCHANGED vars
  BY <1>1 DEF VInv, vars
<1>2. CASE Next
  BY <1>2, MakePublicInv, EncodeInv, DecodeKeyInv, DecodeValueInv, TransformKeyInv,
     ToMontyInv, LoadInv, TransformValueInv, ProductInv, TransformBackInv, RescaleInv,
     SubPointInv, JudgeInv, Zenon DEF Next
<1>. QED BY <1>1, <1>2

(* For every degree, key, value, point and bytes: each array of the        *)
(* verifier holds residues whenever it holds anything, so that no masked   *)
(* correction meets a value it does not correct and uint16_t cuts none;    *)
(* what the encoders and decoders yield is in the range of its format.     *)
THEOREM TypeCorrect == Spec => []TypeOK
<1>1. Init => VInv
  BY VInit
<1>2. VInv /\ [Next]_vars => VInv'
  BY VNext
<1>3. VInv => TypeOK
  BY TypeOfInv
<1>. QED BY <1>1, <1>2, <1>3, PTL DEF Spec

-----------------------------------------------------------------------------
(* What is sent arrives, and has one encoding.                             *)

(* Arrays and sequences of the degree's length. *)
LEMMA ThereAndBack ==
  ASSUME NEW T, NEW x \in Seq(T), Len(x) = n
  PROVE  AsSeq(AsPoly(x)) = x
<1>1. n \in Nat
  BY Degree, SMT
<1>2. \A u \in 1..n : u - 1 \in Index /\ (u - 1) + 1 = u
  BY <1>1, SMT DEF Index
<1>3. \A u \in 1..n : AsPoly(x)[u - 1] = x[u]
  BY <1>2 DEF AsPoly
<1>4. AsSeq(AsPoly(x)) = [u \in 1..n |-> x[u]]
  BY <1>3 DEF AsSeq
<1>5. x = [u \in 1..n |-> x[u]]
  BY <1>1
<1>. QED BY <1>4, <1>5

LEMMA BackAndThere ==
  ASSUME NEW T, NEW a \in [Index -> T]
  PROVE  AsPoly(AsSeq(a)) = a
<1>1. n \in Nat
  BY Degree, SMT
<1>2. \A k \in Index : k + 1 \in 1..n /\ (k + 1) - 1 = k
  BY <1>1, SMT DEF Index
<1>3. \A k \in Index : AsSeq(a)[k + 1] = a[k]
  BY <1>2 DEF AsSeq
<1>. QED BY <1>3 DEF AsPoly

(* A buffer of which no bit is flipped. *)
LEMMA NothingFlipped ==
  ASSUME NEW bytes \in Seq(Byte)
  PROVE  Flipped(bytes, {}) = bytes
<1> DEFINE s == ByteBits(bytes)
<1>1. Len(bytes) \in Nat /\ DOMAIN bytes = 1..Len(bytes)
      /\ bytes = [j \in 1..Len(bytes) |-> bytes[j]]
  OBVIOUS
<1>2. ASSUME NEW j \in 1..Len(bytes)
      PROVE  Value([i \in 1..8 |-> s[8 * (j - 1) + i]]) = bytes[j]
  <2>1. \A i \in 1..8 : s[8 * (j - 1) + i] = (bytes[j] \div 2^(8 - i)) % 2
    BY BitAt
  <2>2. [i \in 1..8 |-> s[8 * (j - 1) + i]] = Bits(bytes[j], 8)
    BY <2>1 DEF Bits
  <2>3. bytes[j] \in Byte
    BY ElementOfSeq, Zenon
  <2>. QED BY <2>2, <2>3, ByteKnown
<1>3. Flipped(bytes, {}) = [j \in 1..Len(bytes) |-> Value([i \in 1..8 |-> s[8 * (j - 1) + i]])]
  BY <1>1 DEF Flipped
<1>. QED BY <1>1, <1>2, <1>3

(* The sum of the first j cells of an array. *)
SumTo(a, j) ==
  LET s[k \in 0..n] == IF k = 0 THEN 0 ELSE s[k - 1] + a[k - 1]
  IN  s[j]

LEMMA SumSteps ==
  ASSUME NEW a, \A k \in Index : a[k] \in Int
  PROVE  /\ SumOf(a) = SumTo(a, n) /\ SumTo(a, 0) = 0
         /\ \A k \in 1..n : SumTo(a, k) = SumTo(a, k - 1) + a[k - 1]
         /\ \A k \in 0..n : SumTo(a, k) \in Int
<1> DEFINE Def(w) == w = [k \in 0..n |-> IF k = 0 THEN 0 ELSE w[k - 1] + a[k - 1]]
           v == CHOOSE w : Def(w)
<1>1. n \in Nat
  BY Degree, SMT
<1>2. ASSUME NEW k \in 1..n PROVE a[k - 1] \in Int
  <2>1. k - 1 \in Index
    BY <1>1, SMT DEF Index
  <2>. QED BY <2>1
<1>3. PICK w \in [0..n -> Int] : w[0] = 0 /\ \A k \in 1..n : w[k] = w[k - 1] + a[k - 1]
  <2> DEFINE U == {r \in (1..n) \X Int \X Int : r[3] = r[2] + a[r[1] - 1]}
  <2>1. Total(n, Int, U)
    <3>1. ASSUME NEW k \in 1..n, NEW s \in Int PROVE \E t \in Int : <<k, s, t>> \in U
      <4>1. s + a[k - 1] \in Int
        BY <1>2
      <4>. QED BY <4>1
    <3>. QED BY <3>1 DEF Total
  <2>2. PICK w \in Runs(n, Int) : w[0] = 0 /\ Steps(w, n, U)
    <3> HIDE DEF U
    <3>1. 0 \in Int
      OBVIOUS
    <3>. QED BY <1>1, <2>1, <3>1, Chain, Zenon
  <2>3. \A k \in 1..n : w[k] = w[k - 1] + a[k - 1]
    BY <2>2 DEF Steps
  <2>. QED BY <2>2, <2>3 DEF Runs
<1>4. Def(w)
  <2>1. ASSUME NEW k \in 0..n PROVE w[k] = IF k = 0 THEN 0 ELSE w[k - 1] + a[k - 1]
    <3>1. CASE k = 0
      BY <1>3, <3>1
    <3>2. CASE k # 0
      <4>1. k \in 1..n
        BY <1>1, <3>2
      <4>. QED BY <1>3, <3>2, <4>1
    <3>. QED BY <3>1, <3>2
  <2>. QED BY <1>3, <2>1
<1>5. Def(v)
  <2> HIDE DEF Def
  <2>. QED BY <1>4
<1>6. SumOf(a) = v[n] /\ \A j \in 0..n : SumTo(a, j) = v[j]
  BY DEF SumOf, SumTo
<1> HIDE DEF v
<1>7. v[0] = 0 /\ \A k \in 1..n : v[k] = v[k - 1] + a[k - 1]
  <2>1. \A k \in 0..n : v[k] = IF k = 0 THEN 0 ELSE v[k - 1] + a[k - 1]
    BY <1>5
  <2>. QED BY <1>1, <2>1
<1>8. v \in [0..n -> Int]
  <2>1. v[0] \in Int
    BY <1>7
  <2>2. ASSUME NEW j \in 0..(n - 1), v[j] \in Int PROVE v[j + 1] \in Int
    <3>1. j + 1 \in 1..n /\ (j + 1) - 1 = j
      BY <1>1
    <3>2. v[j + 1] = v[j] + a[j]
      BY <1>7, <3>1
    <3>3. a[j] \in Int
      BY <1>2, <3>1
    <3>. QED BY <2>2, <3>2, <3>3
  <2>3. v = [k \in 0..n |-> v[k]]
    BY <1>5
  <2>. QED BY <1>1, <2>1, <2>2, <2>3, ChainType, Zenon
<1>9. n \in 0..n /\ 0 \in 0..n /\ \A k \in 1..n : k \in 0..n /\ k - 1 \in 0..n
  BY <1>1
<1>. QED BY <1>6, <1>7, <1>8, <1>9, Zenon

LEMMA SumRec ==
  ASSUME NEW a, \A k \in Index : a[k] \in Int
  PROVE  \E s \in [0..n -> Int] :
           s[0] = 0 /\ (\A k \in 1..n : s[k] = s[k - 1] + a[k - 1]) /\ SumOf(a) = s[n]
<1> DEFINE s == [j \in 0..n |-> SumTo(a, j)]
<1>1. n \in 0..n /\ 0 \in 0..n /\ \A k \in 1..n : k \in 0..n /\ k - 1 \in 0..n
  BY Degree, SMT
<1>2. s \in [0..n -> Int] /\ s[0] = 0 /\ SumOf(a) = s[n]
  BY <1>1, SumSteps
<1>3. \A k \in 1..n : s[k] = s[k - 1] + a[k - 1]
  BY <1>1, SumSteps
<1>. QED BY <1>2, <1>3

(* What the formats read and write.                                        *)
Reads(type, bytes) ==
  IF type = "ct" THEN trim_decode(bytes, max_sig_bits[logn], n) ELSE comp_decode(bytes, n)
Writes(type, x, room) ==
  IF type = "ct" THEN trim_encode(x, max_sig_bits[logn], room) ELSE comp_encode(x, room)

(* What falcon_verify_finish asks of the bytes after the value. *)
Complete(type, bytes) ==
  /\ Reads(type, bytes).v # 0
  /\ \A i \in DOMAIN bytes : i > Reads(type, bytes).v => bytes[i] = 0 /\ type = "padded"

LEMMA WidthRange ==
  max_sig_bits[logn] \in 2..14
<1> DEFINE k == max_sig_bits[logn]
<1>1. k \in {10, 11, 12}
  BY Widths
<1> HIDE DEF k
<1>2. k \in 2..14
  BY <1>1
<1>. QED BY <1>2 DEF k

LEMMA ReadOnce ==
  ASSUME NEW buf \in Seq(Byte), NEW type, Reads(type, buf).v # 0
  PROVE  LET r == Reads(type, buf)
         IN  /\ r.x \in Seq(Int) /\ Len(r.x) = n /\ r.v \in Nat /\ r.v <= Len(buf)
             /\ Len(Writes(type, r.x, Len(buf))) = r.v
             /\ Begins(buf, Writes(type, r.x, Len(buf)))
<1>1. n \in Nat /\ Len(buf) \in Nat
  BY Degree, SMT
<1>2. Reads(type, buf) # Refused
  BY DEF Refused
<1>3. CASE type = "ct"
  <2>1. PICK k \in 2..14 : k = max_sig_bits[logn]
    BY WidthRange
  <2>2. Reads(type, buf) = trim_decode(buf, k, n)
        /\ \A x : Writes(type, x, Len(buf)) = trim_encode(x, k, Len(buf))
    BY <1>3, <2>1 DEF Reads, Writes
  <2>3. trim_decode(buf, k, n) # Refused
    BY <1>2, <2>2
  <2>4. PICK r : r = trim_decode(buf, k, n)
    OBVIOUS
  <2>5. r.x \in Seq(Int) /\ Len(r.x) = n /\ r.v = Bytes(k * n)
    BY <1>1, <2>3, <2>4, TrimAccepted
  <2>6. Bytes(k * n) <= Len(buf) /\ Bytes(k * n) \in Nat
    <3>1. k * n \in Nat
      BY <1>1
    <3>2. Bytes(k * n) \in Nat
      BY <3>1, BytesIs
    <3>3. ~(Bytes(k * n) > Len(buf))
      BY <2>3 DEF trim_decode
    <3>. QED BY <1>1, <3>2, <3>3
  <2>7. Len(trim_encode(r.x, k, Len(buf))) = r.v /\ Begins(buf, trim_encode(r.x, k, Len(buf)))
    BY <1>1, <2>3, <2>4, <2>6, TrimOneEncoding
  <2>. QED BY <2>2, <2>4, <2>5, <2>6, <2>7
<1>4. CASE type # "ct"
  <2>1. Reads(type, buf) = comp_decode(buf, n)
        /\ \A x : Writes(type, x, Len(buf)) = comp_encode(x, Len(buf))
    BY <1>4 DEF Reads, Writes
  <2>2. comp_decode(buf, n) # Refused
    BY <1>2, <2>1
  <2>3. PICK r : r = comp_decode(buf, n)
    OBVIOUS
  <2>4. /\ r.x \in Seq(Coefficient) /\ Len(r.x) = n
        /\ \E c : /\ IsJoin(c, CompPieces(r.x)) /\ Starts(buf, c[n])
                  /\ r.v = Bytes(Len(c[n])) /\ Bytes(Len(c[n])) <= Len(buf)
    BY <1>1, <2>2, <2>3, CompAccepted
  <2>5. r.v \in Nat /\ r.v <= Len(buf)
    <3>1. PICK c : /\ IsJoin(c, CompPieces(r.x))
                   /\ r.v = Bytes(Len(c[n])) /\ Bytes(Len(c[n])) <= Len(buf)
      BY <2>4
    <3>2. CompPieces(r.x) \in Seq(Seq(Bit)) /\ Len(CompPieces(r.x)) = n
      BY <2>4, CompPiecesType
    <3>3. c[n] \in Seq(Bit)
      BY <1>1, <3>1, <3>2 DEF IsJoin
    <3>4. Len(c[n]) \in Nat
      BY <3>3, LenProperties
    <3>5. Bytes(Len(c[n])) \in Nat
      BY <3>4, BytesIs
    <3>. QED BY <3>1, <3>5
  <2>6. Len(comp_encode(r.x, Len(buf))) = r.v /\ Begins(buf, comp_encode(r.x, Len(buf)))
    BY <1>1, <2>2, <2>3, <2>5, CompOneEncoding
  <2>7. r.x \in Seq(Int)
    <3>1. \A t \in Coefficient : t \in Int
      BY DEF Coefficient
    <3>. QED BY <2>4, <3>1
  <2>. QED BY <2>1, <2>3, <2>4, <2>5, <2>6, <2>7
<1>. QED BY <1>3, <1>4

LEMMA WrittenOnce ==
  ASSUME NEW x \in Seq(Int), Len(x) = n, NEW room \in Nat, NEW buf \in Seq(Byte), NEW type,
         Writes(type, x, room) # <<>>, Begins(buf, Writes(type, x, room))
  PROVE  Reads(type, buf) = [x |-> x, v |-> Len(Writes(type, x, room))]
<1>1. CASE type = "ct"
  <2>1. PICK k \in 2..14 : k = max_sig_bits[logn]
    BY WidthRange
  <2>2. Reads(type, buf) = trim_decode(buf, k, n)
        /\ Writes(type, x, room) = trim_encode(x, k, room)
    BY <1>1, <2>1 DEF Reads, Writes
  <2>3. trim_encode(x, k, room) # <<>> /\ Begins(buf, trim_encode(x, k, room))
    BY <2>2
  <2>4. /\ trim_decode(buf, k, Len(x)) = [x |-> x, v |-> Bytes(k * Len(x))]
        /\ Len(trim_encode(x, k, room)) = Bytes(k * Len(x))
    BY <2>3, TrimRoundTrip
  <2>. QED BY <2>2, <2>4
<1>2. CASE type # "ct"
  <2>1. Reads(type, buf) = comp_decode(buf, n)
        /\ Writes(type, x, room) = comp_encode(x, room)
    BY <1>2 DEF Reads, Writes
  <2>2. comp_encode(x, room) # <<>> /\ Begins(buf, comp_encode(x, room))
    BY <2>1
  <2>3. comp_decode(buf, Len(x)) = [x |-> x, v |-> Len(comp_encode(x, room))]
    BY <2>2, CompRoundTrip
  <2>. QED BY <2>1, <2>3
<1>. QED BY <1>1, <1>2

LEMMA WritesType ==
  ASSUME NEW x \in Seq(Int), NEW room \in Nat, NEW type
  PROVE  /\ Writes(type, x, room) \in Seq(Byte)
         /\ type # "ct" => Len(Writes(type, x, room)) <= room
<1>1. /\ comp_encode(x, room) \in Seq(Byte)
      /\ Len(comp_encode(x, room)) <= room
  BY CompEncodeType
<1>2. trim_encode(x, max_sig_bits[logn], room) \in Seq(Byte)
  <2>1. max_sig_bits[logn] \in 0..14
    BY WidthRange, SMT
  <2>. QED BY <2>1, TrimEncodeType
<1>. QED BY <1>1, <1>2 DEF Writes

(* A value is encoded if and only if it is in range and fits.              *)
LEMMA Encoded ==
  ASSUME call \in Cases
  PROVE  Writes(call.type, AsSeq(call.s2), call.room) # <<>> <=> Encodable
<1> DEFINE x == AsSeq(call.s2)
           room == call.room
<1>. SUFFICES Writes(call.type, x, room) # <<>> <=> Encodable
  OBVIOUS
<1>1. /\ \A k \in Index : call.s2[k] \in Int
      /\ room \in Nat
  BY CaseType
<1>2. n \in Nat /\ n >= 1 /\ \A u \in 1..n : u - 1 \in Index
  BY Degree, SMT DEF Index
<1>3. \A k \in Index : k + 1 \in 1..n /\ (k + 1) - 1 = k
  BY <1>2, SMT DEF Index
<1>4. x \in Seq(Int) /\ Len(x) = n /\ DOMAIN x = 1..n /\ \A u \in 1..n : x[u] = call.s2[u - 1]
  <2>1. x \in Seq(Int)
    BY <1>1, AsSeqType
  <2>. QED BY <1>2, <2>1 DEF AsSeq
<1> HIDE DEF x
<1>5. \A k \in Index : x[k + 1] = call.s2[k]
  BY <1>3, <1>4
<1>6. CASE call.type = "ct"
  <2>1. PICK w \in {10, 11, 12} : w = max_sig_bits[logn]
    BY Widths
  <2>2. w \in 1..14
    OBVIOUS
  <2>3. PICK top \in Nat : top = 2^(w - 1)
    <3>1. 2^(w - 1) \in Nat
      <4>1. CASE w = 10  BY <4>1
      <4>2. CASE w = 11  BY <4>2
      <4>3. CASE w = 12  BY <4>3
      <4>. QED BY <4>1, <4>2, <4>3
    <3>. QED BY <3>1
  <2> DEFINE inside == \A k \in Index : -top < call.s2[k] /\ call.s2[k] < top
             out == Written(Pieces(x, w))
  <2>4. Encodable <=> inside /\ Bytes(n * w) <= room
    BY <1>6, <2>1, <2>3 DEF Encodable
  <2>5. Writes(call.type, x, room) = trim_encode(x, w, room)
    BY <1>6, <2>1 DEF Writes
  <2>6. trim_encode(x, w, room) =
          IF (\E u \in 1..n : x[u] \notin (-(top - 1))..(top - 1)) \/ Bytes(w * n) > room
          THEN <<>> ELSE out
    BY <1>4, <2>3 DEF trim_encode, Pieces
  <2>7. (\E u \in 1..n : x[u] \notin (-(top - 1))..(top - 1)) <=> ~inside
    <3>1. ASSUME NEW u \in 1..n
          PROVE  x[u] \notin (-(top - 1))..(top - 1)
                   <=> ~(-top < call.s2[u - 1] /\ call.s2[u - 1] < top)
      <4>1. PICK z \in Int : z = call.s2[u - 1]
        BY <1>1, <1>2
      <4>2. x[u] = z
        BY <1>4, <4>1
      <4>. QED BY <4>1, <4>2
    <3>2. ASSUME ~inside PROVE \E u \in 1..n : x[u] \notin (-(top - 1))..(top - 1)
      <4>1. PICK k \in Index : ~(-top < call.s2[k] /\ call.s2[k] < top)
        BY <3>2
      <4>. QED BY <1>3, <3>1, <4>1
    <3>3. ASSUME inside, NEW u \in 1..n PROVE ~(x[u] \notin (-(top - 1))..(top - 1))
      BY <1>2, <3>1, <3>3
    <3>. QED BY <3>2, <3>3
  <2>8. Len(out) = Bytes(w * n)
    BY <1>4, <2>2, WrittenFields
  <2>9. Bytes(w * n) = Bytes(n * w) /\ Bytes(n * w) \in Nat /\ Bytes(n * w) > 0
    <3>1. w * n = n * w /\ n * w \in Nat /\ n * w >= 1
      BY <1>2, SMT
    <3>. QED BY <3>1 DEF Bytes
  <2>10. out # <<>>
    BY <2>8, <2>9
  <2> HIDE DEF inside, out
  <2>11. ~(Bytes(w * n) > room) <=> Bytes(n * w) <= room
    BY <1>1, <2>9
  <2>. QED BY <2>4, <2>5, <2>6, <2>7, <2>10, <2>11
<1>7. CASE call.type # "ct"
  <2> DEFINE inside == \A k \in Index : -2048 < call.s2[k] /\ call.s2[k] < 2048
             z == [k \in Index |-> Len(CompPiece(call.s2[k]))]
  <2>1. Encodable <=> inside /\ Bytes(SumOf(z)) <= room
    BY <1>7 DEF Encodable, Size
  <2>2. Writes(call.type, x, room) = comp_encode(x, room)
    BY <1>7 DEF Writes
  <2>3. inside <=> \A u \in 1..n : x[u] \in Coefficient
    <3>1. \A t \in Int : t \in Coefficient <=> -2048 < t /\ t < 2048
      BY DEF Coefficient
    <3>2. ASSUME inside, NEW u \in 1..n PROVE x[u] \in Coefficient
      BY <1>1, <1>2, <1>4, <3>1, <3>2
    <3>3. ASSUME \A u \in 1..n : x[u] \in Coefficient, NEW k \in Index
          PROVE  -2048 < call.s2[k] /\ call.s2[k] < 2048
      BY <1>1, <1>3, <1>5, <3>1, <3>3
    <3>. QED BY <3>2, <3>3
  <2>4. CASE ~inside
    <3>1. \E u \in DOMAIN x : x[u] \notin Coefficient
      BY <1>4, <2>3, <2>4
    <3>2. comp_encode(x, room) = <<>>
      BY <3>1 DEF comp_encode
    <3>. QED BY <2>1, <2>2, <2>4, <3>2
  <2>5. CASE inside
    <3>1. x \in Seq(Coefficient)
      <4>1. x \in [1..n -> Coefficient]
        BY <1>4, <2>3, <2>5
      <4>. QED BY <1>2, <4>1, ArrayIsSeq
    <3>2. \A k \in Index : z[k] \in Int
      <4>1. ASSUME NEW k \in Index PROVE Len(CompPiece(call.s2[k])) \in Int
        <5>1. CompPiece(call.s2[k]) \in Seq(Bit)
          BY <1>1, CompPieceType
        <5>. QED BY <5>1, LenProperties
      <4>. QED BY <4>1
    <3>3. PICK y \in [0..n -> Int] :
            y[0] = 0 /\ (\A k \in 1..n : y[k] = y[k - 1] + z[k - 1]) /\ SumOf(z) = y[n]
      <4> HIDE DEF z
      <4>. QED BY <3>2, SumRec
    <3>4. \A u \in 1..Len(x) : y[u] = y[u - 1] + Len(CompPiece(x[u]))
      BY <1>2, <1>4, <3>3
    <3> HIDE DEF z
    <3>5. /\ y[n] \in Nat /\ Bytes(y[n]) > 0
          /\ Bytes(y[n]) <= room => Len(comp_encode(x, room)) = Bytes(y[n])
          /\ Bytes(y[n]) > room => comp_encode(x, room) = <<>>
      <4>1. Len(x) = n /\ n > 0
        BY <1>2, <1>4
      <4>2. y[0] = 0
        BY <3>3
      <4>. QED BY <1>1, <3>1, <3>4, <4>1, <4>2, CompRefuses
    <3>6. Bytes(y[n]) \in Nat
      BY <3>5, BytesIs
    <3>7. Bytes(y[n]) <= room <=> ~(Bytes(y[n]) > room)
      BY <1>1, <3>6
    <3>8. Bytes(y[n]) <= room => comp_encode(x, room) # <<>>
      BY <3>5, <3>6
    <3>. QED BY <2>1, <2>2, <2>5, <3>3, <3>5, <3>7, <3>8
  <2>. QED BY <2>4, <2>5
<1>. QED BY <1>6, <1>7

(* What is sent of a call.                                                 *)
Published(c) == modq_encode(AsSeq(compute_public(c.f, c.g).val), Bytes(14 * n))
Emitted(c) ==
  LET e == Writes(c.type, AsSeq(c.s2), c.room)
  IN  e \o (IF c.type = "padded" THEN Zeros(c.room - Len(e)) ELSE <<>>)

KeyAccepted(bytes) == Len(bytes) = Bytes(14 * n) /\ modq_decode(bytes, n).v = Len(bytes)

(* What was sent, and what has been read of it. *)
Delivery ==
  /\ pc \notin {"make", "done"} => /\ compute_public(call.f, call.g).ok
                                   /\ pk = Flipped(Published(call), call.keyflips)
  /\ pc \in {"key"} \cup HasKey => /\ Encodable
                                   /\ body = Flipped(Emitted(call), call.sigflips)
  /\ pc \in HasKey => KeyAccepted(pk)
  /\ pc = "value" \/ (pc = "ntt h" /\ m = 1) => h = PublicKey
  /\ pc \in HasValue => Complete(call.type, body) /\ sv = AsPoly(Reads(call.type, body).x)
  /\ Arrives

LEMMA EncodableKept ==
  ASSUME call' = call
  PROVE  Encodable' <=> Encodable
BY DEF Encodable

LEMMA PublicKeyKept ==
  ASSUME pk' = pk
  PROVE  PublicKey' = PublicKey
BY DEF PublicKey

LEMMA DeliveryInit ==
  Init => Delivery
BY DEF Init, Delivery, HasKey, HasValue, Arrives

LEMMA MakePublicDelivery ==
  ASSUME VInv, Delivery, MakePublic
  PROVE  Delivery'
<1>1. /\ pc = "make" /\ call' = call /\ body' = body /\ h' = h /\ sv' = sv /\ m' = m
      /\ \/ /\ compute_public(call.f, call.g).ok
            /\ pk' = Flipped(Published(call), call.keyflips)
            /\ pc' = "encode" /\ ret' = ret
         \/ /\ ~compute_public(call.f, call.g).ok
            /\ pc' = "done" /\ ret' = FORMAT /\ pk' = pk
  BY DEF MakePublic, Return, Published
<1>2. Encodable' <=> Encodable
  BY <1>1, EncodableKept
<1>3. FORMAT # SIZE
  BY DEF FORMAT, SIZE
<1>4. Arrives'
  BY <1>1, <1>2, <1>3 DEF Delivery, Arrives
<1>. QED BY <1>1, <1>4 DEF Delivery, HasKey, HasValue

LEMMA EncodeDelivery ==
  ASSUME VInv, Delivery, Encode
  PROVE  Delivery'
<1> DEFINE e == Writes(call.type, AsSeq(call.s2), call.room)
<1>1. /\ pc = "encode" /\ call' = call /\ pk' = pk /\ h' = h /\ sv' = sv /\ m' = m
      /\ \/ e = <<>> /\ pc' = "done" /\ ret' = SIZE /\ body' = body
         \/ /\ e # <<>> /\ body' = Flipped(Emitted(call), call.sigflips)
            /\ pc' = "key" /\ ret' = ret
  BY DEF Encode, Return, Writes, Emitted
<1>2. Encodable' <=> Encodable
  BY <1>1, EncodableKept
<1>3. FORMAT # SIZE
  BY DEF FORMAT, SIZE
<1>4. e # <<>> <=> Encodable
  <2>1. call \in Cases
    BY DEF VInv
  <2>. QED BY <2>1, Encoded
<1> HIDE DEF e
<1>5. Arrives'
  BY <1>1, <1>2, <1>3, <1>4 DEF Delivery, Arrives
<1>. QED BY <1>1, <1>2, <1>4, <1>5 DEF Delivery, HasKey, HasValue

(* A key whose bits arrive is accepted, and is the one that was made. *)
LEMMA KeyArrives ==
  ASSUME VInv, compute_public(call.f, call.g).ok, NEW bytes, bytes = Published(call)
  PROVE  /\ KeyAccepted(bytes)
         /\ AsPoly(modq_decode(bytes, n).x) = compute_public(call.f, call.g).val
<1>1. call.f \in SmallPoly /\ call.g \in SmallPoly
  BY CaseType DEF VInv
<1>2. PICK a \in Array : a = compute_public(call.f, call.g).val
  BY <1>1, PublicRange
<1>3. n \in Nat /\ \A u \in 1..n : u - 1 \in Index
  BY Degree, SMT DEF Index
<1> DEFINE x == AsSeq(a)
           room == Bytes(14 * n)
<1>4. \A k \in Index : a[k] \in Int
  BY <1>2, ZqIsInt, Zenon DEF Array
<1>5. x \in Seq(Int)
  BY <1>4, AsSeqType
<1>6. Len(x) = n /\ \A u \in 1..n : x[u] \in Residue
  <2>1. \A u \in 1..n : a[u - 1] \in Residue
    BY <1>3, ResidueIsZq, Zenon DEF Array
  <2>. QED BY <1>3, <2>1 DEF AsSeq
<1> HIDE DEF x
<1>7. room \in Nat
  <2>1. 14 * n \in Nat
    BY <1>3
  <2>. QED BY <2>1, BytesIs
<1>8. bytes = modq_encode(x, room)
  BY <1>2 DEF Published, x
<1>9. bytes \in Seq(Byte)
  BY <1>5, <1>8, ModqEncodeType
<1>10. Begins(bytes, modq_encode(x, room))
  BY <1>8, <1>9 DEF Begins
<1>11. Bytes(14 * Len(x)) <= room
  BY <1>6, <1>7
<1> HIDE DEF room
<1>12. /\ modq_decode(bytes, Len(x)) = [x |-> x, v |-> Bytes(14 * Len(x))]
       /\ Len(modq_encode(x, room)) = Bytes(14 * Len(x))
  BY <1>5, <1>6, <1>7, <1>9, <1>10, <1>11, ModqRoundTrip
<1>13. KeyAccepted(bytes)
  BY <1>6, <1>8, <1>12 DEF KeyAccepted
<1>14. AsPoly(x) = a
  BY BackAndThere, Zenon DEF x, Array
<1>15. modq_decode(bytes, n).x = x
  BY <1>6, <1>12
<1>. QED BY <1>2, <1>13, <1>14, <1>15

LEMMA PublishedType ==
  ASSUME VInv, compute_public(call.f, call.g).ok
  PROVE  Published(call) \in Seq(Byte)
<1>1. call.f \in SmallPoly /\ call.g \in SmallPoly
  BY CaseType DEF VInv
<1>2. PICK a \in Array : a = compute_public(call.f, call.g).val
  BY <1>1, PublicRange
<1>3. \A k \in Index : a[k] \in Int
  BY <1>2, ZqIsInt, Zenon DEF Array
<1>4. AsSeq(a) \in Seq(Int)
  BY <1>3, AsSeqType
<1>. QED BY <1>2, <1>4, ModqEncodeType DEF Published

LEMMA DecodeKeyDelivery ==
  ASSUME VInv, Delivery, DecodeKey
  PROVE  Delivery'
<1>1. /\ pc = "key" /\ call' = call /\ pk' = pk /\ body' = body /\ sv' = sv /\ m' = m
      /\ \/ KeyAccepted(pk) /\ h' = PublicKey /\ pc' = "value" /\ ret' = ret
         \/ ~KeyAccepted(pk) /\ pc' = "done" /\ ret' = FORMAT /\ h' = h
  BY DEF DecodeKey, Return, KeyAccepted, PublicKey
<1>2. Encodable' <=> Encodable
  BY <1>1, EncodableKept
<1>3. FORMAT # SIZE
  BY DEF FORMAT, SIZE
<1>4. PublicKey' = PublicKey
  BY <1>1, PublicKeyKept
<1>5. call.keyflips = {} => KeyAccepted(pk)
  <2> SUFFICES ASSUME call.keyflips = {} PROVE KeyAccepted(pk)
    OBVIOUS
  <2>1. compute_public(call.f, call.g).ok /\ pk = Flipped(Published(call), {})
    BY <1>1 DEF Delivery
  <2>2. Published(call) \in Seq(Byte)
    BY <2>1, PublishedType
  <2>3. pk = Published(call)
    BY <2>1, <2>2, NothingFlipped
  <2>. QED BY <2>1, <2>3, KeyArrives
<1>6. Arrives'
  BY <1>1, <1>2, <1>3, <1>5 DEF Delivery, Arrives
<1>. QED BY <1>1, <1>2, <1>4, <1>6 DEF Delivery, HasKey, HasValue

(* What falcon_verify_finish makes of the bytes of the value. *)
LEMMA ValueStep ==
  ASSUME VInv, DecodeValue
  PROVE  \/ /\ Complete(call.type, body) /\ sv' = AsPoly(Reads(call.type, body).x)
            /\ m' = 1 /\ pc' = "ntt h" /\ ret' = ret
         \/ /\ ~Complete(call.type, body)
            /\ pc' = "done" /\ ret' = FORMAT /\ sv' = sv /\ m' = m
<1> DEFINE r    == Reads(call.type, body)
           rest == SubSeq(body, r.v + 1, Len(body))
           bad  == r.v = 0 \/ (rest # <<>> /\ call.type # "padded")
                           \/ \E i \in DOMAIN rest : rest[i] # 0
<1>1. \/ /\ ~bad /\ sv' = AsPoly(r.x)
         /\ m' = 1 /\ pc' = "ntt h" /\ ret' = ret
      \/ bad /\ pc' = "done" /\ ret' = FORMAT /\ sv' = sv /\ m' = m
  BY DEF DecodeValue, Return, Reads
<1>2. body \in Seq(Byte) /\ Len(body) \in Nat /\ DOMAIN body = 1..Len(body)
  BY LenProperties DEF VInv
<1>3. ASSUME r.v # 0
      PROVE  bad <=> ~\A i \in DOMAIN body : i > r.v => body[i] = 0 /\ call.type = "padded"
  <2>1. PICK v \in Nat : v = r.v /\ v <= Len(body)
    BY <1>2, <1>3, ReadOnce
  <2> DEFINE z == SubSeq(body, v + 1, Len(body))
  <2>2. /\ z \in Seq(Byte) /\ Len(z) = Len(body) - v
        /\ \A i \in 1..(Len(body) - v) : z[i] = body[v + i]
    BY <1>2, <2>1
  <2>3. DOMAIN z = 1..(Len(body) - v) /\ (z # <<>> <=> Len(body) > v)
    <3> HIDE DEF z
    <3>1. DOMAIN z = 1..Len(z) /\ (z # <<>> <=> Len(z) # 0)
      BY <2>2
    <3>. QED BY <1>2, <2>1, <2>2, <3>1
  <2> HIDE DEF z
  <2>4. bad <=> (z # <<>> /\ call.type # "padded") \/ \E i \in DOMAIN z : z[i] # 0
    BY <1>3, <2>1 DEF z
  <2>5. ASSUME NEW i \in DOMAIN body, i > v, ~(body[i] = 0 /\ call.type = "padded")
        PROVE  (z # <<>> /\ call.type # "padded") \/ \E j \in DOMAIN z : z[j] # 0
    <3>1. i - v \in DOMAIN z /\ v + (i - v) = i /\ Len(body) > v
      BY <1>2, <2>1, <2>3, <2>5
    <3>2. z[i - v] = body[i]
      BY <2>2, <2>3, <3>1
    <3>. QED BY <2>3, <2>5, <3>1, <3>2
  <2>6. ASSUME z # <<>>, call.type # "padded"
        PROVE  \E i \in DOMAIN body : i > v /\ ~(body[i] = 0 /\ call.type = "padded")
    <3>1. v + 1 \in DOMAIN body /\ v + 1 > v
      BY <1>2, <2>1, <2>3, <2>6
    <3>. QED BY <2>6, <3>1
  <2>7. ASSUME NEW j \in DOMAIN z, z[j] # 0
        PROVE  \E i \in DOMAIN body : i > v /\ ~(body[i] = 0 /\ call.type = "padded")
    <3>1. v + j \in DOMAIN body /\ v + j > v
      BY <1>2, <2>1, <2>3
    <3>2. body[v + j] # 0
      BY <2>2, <2>3, <2>7
    <3>. QED BY <3>1, <3>2
  <2>. QED BY <2>1, <2>4, <2>5, <2>6, <2>7
<1> HIDE DEF bad
<1>4. r.v = 0 => bad
  BY DEF bad
<1>5. bad <=> ~Complete(call.type, body)
  BY <1>3, <1>4 DEF Complete
<1>. QED BY <1>1, <1>5

(* A value whose bits arrive is accepted, and is what was sent. *)
LEMMA ValueArrives ==
  ASSUME VInv, Encodable, NEW bytes, bytes = Emitted(call)
  PROVE  /\ bytes \in Seq(Byte)
         /\ Complete(call.type, bytes)
         /\ AsPoly(Reads(call.type, bytes).x) = call.s2
<1>1. /\ \A k \in Index : call.s2[k] \in Int
      /\ call.room \in Nat /\ call.s2 = [k \in Index |-> call.s2[k]]
  <2>1. call \in Cases
    BY DEF VInv
  <2>2. call.s2 \in ValuePoly
    BY <2>1, CasesAssumption
  <2>. QED BY <2>1, <2>2, CaseType DEF ValuePoly
<1>2. n \in Nat
  BY Degree, SMT
<1> DEFINE x   == AsSeq(call.s2)
           e   == Writes(call.type, x, call.room)
           pad == IF call.type = "padded" THEN Zeros(call.room - Len(e)) ELSE <<>>
<1>3. x \in Seq(Int)
  BY <1>1, AsSeqType
<1>4. Len(x) = n
  BY <1>2 DEF AsSeq
<1>5. e # <<>>
  <2>1. call \in Cases
    BY DEF VInv
  <2>. QED BY <2>1, Encoded
<1>6. AsPoly(x) = call.s2
  <2>1. call.s2 \in [Index -> Int]
    BY <1>1
  <2>. QED BY <2>1, BackAndThere
<1> HIDE DEF x
<1>7. e \in Seq(Byte) /\ (call.type # "ct" => Len(e) <= call.room) /\ Len(e) \in Nat
  <2>1. e \in Seq(Byte) /\ (call.type # "ct" => Len(e) <= call.room)
    BY <1>1, <1>3, WritesType
  <2>. QED BY <2>1, LenProperties
<1>8. bytes = e \o pad
  BY DEF Emitted, x
<1>9. PICK l \in Nat : l = Len(e)
  BY <1>7
<1>10. /\ pad \in Seq(Byte) /\ \A i \in 1..Len(pad) : pad[i] = 0
       /\ Len(pad) \in Nat
       /\ call.type # "padded" => Len(pad) = 0
  <2>1. CASE call.type = "padded"
    <3>1. call.room - l \in Nat
      BY <1>1, <1>7, <1>9, <2>1
    <3>2. /\ Zeros(call.room - l) \in Seq(Byte)
          /\ Len(Zeros(call.room - l)) = call.room - l
      BY <3>1, ZeroBits
    <3>3. \A i \in 1..(call.room - l) : Zeros(call.room - l)[i] = 0
      BY DEF Zeros
    <3>. QED BY <1>9, <2>1, <3>1, <3>2, <3>3
  <2>2. CASE call.type # "padded"
    BY <2>2
  <2>. QED BY <2>1, <2>2
<1>11. /\ bytes \in Seq(Byte) /\ Len(bytes) = Len(e) + Len(pad)
       /\ \A i \in 1..Len(e) : bytes[i] = e[i]
       /\ \A i \in 1..Len(pad) : bytes[Len(e) + i] = pad[i]
  <2> HIDE DEF e, pad
  <2>. QED BY <1>7, <1>8, <1>10
<1> HIDE DEF pad
<1>12. Begins(bytes, e)
  BY <1>7, <1>10, <1>11 DEF Begins
<1>13. Reads(call.type, bytes) = [x |-> x, v |-> Len(e)]
  BY <1>1, <1>3, <1>4, <1>5, <1>11, <1>12, WrittenOnce
<1> HIDE DEF e
<1>14. Len(e) # 0
  BY <1>5, <1>7
<1>15. ASSUME NEW i \in DOMAIN bytes, i > Len(e) PROVE bytes[i] = 0 /\ call.type = "padded"
  <2>1. DOMAIN bytes = 1..Len(bytes)
    BY <1>11
  <2>2. i - Len(e) \in 1..Len(pad) /\ Len(e) + (i - Len(e)) = i
    BY <1>7, <1>10, <1>11, <1>15, <2>1
  <2>3. bytes[i] = pad[i - Len(e)]
    BY <1>11, <2>2
  <2>4. Len(pad) # 0
    BY <1>10, <2>2
  <2>. QED BY <1>10, <2>2, <2>3, <2>4
<1>16. Complete(call.type, bytes)
  BY <1>13, <1>14, <1>15 DEF Complete
<1>. QED BY <1>6, <1>11, <1>13, <1>16

LEMMA DecodeValueDelivery ==
  ASSUME VInv, Delivery, DecodeValue
  PROVE  Delivery'
<1>1. pc = "value" /\ call' = call /\ pk' = pk /\ body' = body /\ h' = h
  BY DEF DecodeValue
<1>2. \/ /\ Complete(call.type, body) /\ sv' = AsPoly(Reads(call.type, body).x)
         /\ m' = 1 /\ pc' = "ntt h" /\ ret' = ret
      \/ /\ ~Complete(call.type, body)
         /\ pc' = "done" /\ ret' = FORMAT /\ sv' = sv /\ m' = m
  BY ValueStep
<1>3. Encodable' <=> Encodable
  BY <1>1, EncodableKept
<1>4. FORMAT # SIZE
  BY DEF FORMAT, SIZE
<1>5. PublicKey' = PublicKey
  BY <1>1, PublicKeyKept
<1>6. Encodable /\ body = Flipped(Emitted(call), call.sigflips)
  BY <1>1 DEF Delivery, HasKey
<1>7. call.sigflips = {} =>
        Complete(call.type, body) /\ AsPoly(Reads(call.type, body).x) = call.s2
  <2> SUFFICES ASSUME call.sigflips = {}
               PROVE  Complete(call.type, body) /\ AsPoly(Reads(call.type, body).x) = call.s2
    OBVIOUS
  <2>1. Emitted(call) \in Seq(Byte)
    BY <1>6, ValueArrives
  <2>2. body = Emitted(call)
    BY <1>6, <2>1, NothingFlipped
  <2>. QED BY <1>6, <2>2, ValueArrives
<1>8. Arrives'
  BY <1>1, <1>2, <1>3, <1>4, <1>6, <1>7 DEF Delivery, Arrives
<1>. QED BY <1>1, <1>2, <1>3, <1>5, <1>8 DEF Delivery, HasKey, HasValue

LEMMA CodesDiffer ==
  0 # FORMAT /\ 0 # SIZE /\ BADSIG # FORMAT /\ BADSIG # SIZE
BY DEF FORMAT, SIZE, BADSIG

LEMMA DegreeNat ==
  n \in Nat /\ Bytes(14 * n) # 0
<1>1. n = 2 \/ n = 4 \/ n = 8 \/ n = 16
  BY Degree, SMT
<1>. QED BY <1>1, SMT DEF Bytes

(* From then on the bytes and the value stay as they are. *)
LEMMA DeliveryKept ==
  ASSUME Delivery, pc \in HasValue,
         call' = call, pk' = pk, body' = body, sv' = sv,
         \/ pc' \in HasValue /\ ret' = ret
         \/ pc' = "done" /\ ret' \in {0, BADSIG},
         ~(pc' = "ntt h" /\ m' = 1)
  PROVE  Delivery'
<1>1. Encodable' <=> Encodable
  BY EncodableKept
<1>2. pc # "done" /\ pc # "make" /\ pc' # "value" /\ pc' # "make"
  BY DEF HasValue, HasKey
<1>3. 0 # FORMAT /\ 0 # SIZE /\ BADSIG # FORMAT /\ BADSIG # SIZE
  BY CodesDiffer, Zenon
<1>4. pc' # "done" => pc' \in HasValue
  OBVIOUS
<1>5. Arrives'
  BY <1>1, <1>2, <1>3, <1>4 DEF Delivery, Arrives, HasValue, HasKey
<1>6. pc \in HasKey
  BY DEF HasValue
<1>. QED BY <1>1, <1>2, <1>4, <1>5, <1>6 DEF Delivery

LEMMA TransformKeyDelivery ==
  ASSUME VInv, Delivery, TransformKey
  PROVE  Delivery'
<1>1. /\ pc = "ntt h" /\ call' = call /\ pk' = pk /\ body' = body /\ sv' = sv /\ ret' = ret
      /\ m' = 2 * m /\ (pc' = "ntt h" \/ pc' = "monty")
  BY DEF TransformKey
<1>2. m \in Blocks
  BY <1>1 DEF VInv, Layers
<1>3. m' # 1
  <2>1. \A j \in Blocks : 2 * j # 1
    BY SMT DEF Blocks
  <2>. QED BY <1>1, <1>2, <2>1
<1>4. pc \in HasValue /\ pc' \in HasValue
  BY <1>1 DEF HasValue, HasKey
<1>. QED BY <1>1, <1>3, <1>4, DeliveryKept

LEMMA OtherDelivery ==
  ASSUME Delivery,
         ToMonty \/ Load \/ TransformValue \/ Product \/ TransformBack \/ Rescale \/ SubPoint
         \/ Judge
  PROVE  Delivery'
<1>1. /\ call' = call /\ pk' = pk /\ body' = body /\ sv' = sv
      /\ pc \in {"monty", "load", "ntt s2", "product", "intt", "scale", "sub", "norm"}
      /\ \/ /\ ret' = ret
            /\ pc' \in {"load", "ntt s2", "product", "intt", "scale", "sub", "norm"}
         \/ pc' = "done" /\ ret' \in {0, BADSIG}
  <2>1. CASE ToMonty  BY <2>1 DEF ToMonty
  <2>2. CASE Load  BY <2>2 DEF Load
  <2>3. CASE TransformValue  BY <2>3 DEF TransformValue
  <2>4. CASE Product  BY <2>4 DEF Product
  <2>5. CASE TransformBack  BY <2>5 DEF TransformBack
  <2>6. CASE Rescale  BY <2>6 DEF Rescale
  <2>7. CASE SubPoint  BY <2>7 DEF SubPoint
  <2>8. CASE Judge  BY <2>8 DEF Judge, Return
  <2>. QED BY <2>1, <2>2, <2>3, <2>4, <2>5, <2>6, <2>7, <2>8
<1>2. pc \in HasValue
  BY <1>1 DEF HasValue, HasKey
<1>3. \A s \in {"load", "ntt s2", "product", "intt", "scale", "sub", "norm"} :
        s \in HasValue /\ s # "ntt h"
  BY DEF HasValue, HasKey
<1>4. \/ pc' \in HasValue /\ ret' = ret
      \/ pc' = "done" /\ ret' \in {0, BADSIG}
  BY <1>1, <1>3
<1>5. ~(pc' = "ntt h" /\ m' = 1)
  BY <1>1, <1>3
<1>. QED BY <1>1, <1>2, <1>4, <1>5, DeliveryKept

LEMMA DeliveryNext ==
  ASSUME VInv, Delivery, [Next]_vars
  PROVE  Delivery'
<1>1. CASE UNCHANGED vars
  <2>1. call' = call /\ pk' = pk
    BY <1>1 DEF vars
  <2>2. Encodable' <=> Encodable
    BY <2>1, EncodableKept
  <2>3. PublicKey' = PublicKey
    BY <2>1, PublicKeyKept
  <2>. QED BY <1>1, <2>2, <2>3 DEF Delivery, Arrives, vars
<1>2. CASE Next
  BY <1>2, MakePublicDelivery, EncodeDelivery, DecodeKeyDelivery, DecodeValueDelivery,
     TransformKeyDelivery, OtherDelivery, Zenon DEF Next
<1>. QED BY <1>1, <1>2

LEMMA DeliveryInvariant == Spec => [](VInv /\ Delivery)
<1>1. Init => VInv /\ Delivery
  BY VInit, DeliveryInit
<1>2. VInv /\ Delivery /\ [Next]_vars => (VInv /\ Delivery)'
  BY VNext, DeliveryNext
<1>. QED BY <1>1, <1>2, PTL DEF Spec

(* For every degree, key, value, format and room: only what is out of the  *)
(* format's range, or too long for the room, is not sent; what is sent and *)
(* arrives is read back as it was; and only a flipped bit is refused.      *)
THEOREM SentArrives == Spec => []Arrives
<1>1. VInv /\ Delivery => Arrives
  BY DEF Delivery
<1>. QED BY <1>1, DeliveryInvariant, PTL

LEMMA KeyWritten ==
  ASSUME NEW bytes \in Seq(Byte), KeyAccepted(bytes)
  PROVE  bytes = modq_encode(AsSeq(AsPoly(modq_decode(bytes, n).x)), Len(bytes))
<1>1. Len(bytes) = Bytes(14 * n) /\ modq_decode(bytes, n).v = Len(bytes) /\ Len(bytes) # 0
      /\ n \in Nat /\ Len(bytes) \in Nat
  BY DegreeNat, LenProperties DEF KeyAccepted
<1>2. modq_decode(bytes, n) # Refused
  <2>1. Refused.v = 0
    BY DEF Refused
  <2>. QED BY <1>1, <2>1
<1>3. PICK r : r = modq_decode(bytes, n)
  OBVIOUS
<1>4. r.x \in Seq(Int) /\ Len(r.x) = n
  BY <1>1, <1>2, <1>3, ModqAccepted
<1>5. Bytes(14 * n) <= Len(bytes)
  BY <1>1
<1>6. Len(modq_encode(r.x, Len(bytes))) = r.v /\ Begins(bytes, modq_encode(r.x, Len(bytes)))
  BY <1>1, <1>2, <1>3, <1>5, ModqOneEncoding
<1>7. PICK e \in Seq(Byte) : e = modq_encode(r.x, Len(bytes))
  BY <1>4, ModqEncodeType
<1>8. Len(e) = Len(bytes) /\ \A j \in 1..Len(e) : bytes[j] = e[j]
  BY <1>1, <1>3, <1>6, <1>7 DEF Begins
<1>9. bytes = e
  <2>1. bytes = [j \in 1..Len(bytes) |-> bytes[j]] /\ e = [j \in 1..Len(e) |-> e[j]]
    OBVIOUS
  <2>. QED BY <1>8, <2>1, Zenon
<1>10. AsSeq(AsPoly(r.x)) = r.x
  BY <1>4, ThereAndBack
<1>. QED BY <1>3, <1>7, <1>9, <1>10

(* The bytes are those that are written for x, and in one format zeros. *)
OnlyThis(type, bytes, x) ==
  LET e == Writes(type, AsSeq(x), Len(bytes))
  IN  /\ IsPrefix(e, bytes) /\ e # <<>>
      /\ \A i \in DOMAIN bytes : i > Len(e) => bytes[i] = 0 /\ type = "padded"

LEMMA ValueWritten ==
  ASSUME NEW bytes \in Seq(Byte), NEW type, Complete(type, bytes)
  PROVE  OnlyThis(type, bytes, AsPoly(Reads(type, bytes).x))
<1>0. PICK e : e = Writes(type, AsSeq(AsPoly(Reads(type, bytes).x)), Len(bytes))
  OBVIOUS
<1>1. PICK r : r = Reads(type, bytes)
  OBVIOUS
<1>2. /\ r.v # 0
      /\ \A i \in DOMAIN bytes : i > r.v => bytes[i] = 0 /\ type = "padded"
  BY <1>1 DEF Complete
<1>3. /\ r.x \in Seq(Int) /\ Len(r.x) = n
      /\ Len(Writes(type, r.x, Len(bytes))) = r.v
      /\ Begins(bytes, Writes(type, r.x, Len(bytes)))
  BY <1>1, <1>2, ReadOnce
<1>4. AsSeq(AsPoly(r.x)) = r.x /\ Len(bytes) \in Nat
  BY <1>3, ThereAndBack, LenProperties
<1>5. e \in Seq(Byte) /\ Len(e) = r.v /\ Begins(bytes, e)
  BY <1>0, <1>1, <1>3, <1>4, WritesType
<1>6. PICK l \in Nat : l = Len(e) /\ l <= Len(bytes) /\ \A j \in 1..l : bytes[j] = e[j]
  BY <1>4, <1>5, LenProperties DEF Begins
<1>7. /\ SubSeq(bytes, 1, l) = [j \in 1..l |-> bytes[j]]
      /\ SubSeq(e, 1, l) = [j \in 1..l |-> e[j]]
  BY <1>4, <1>5, <1>6
<1>8. Len(e) <= Len(bytes) /\ SubSeq(e, 1, Len(e)) = SubSeq(bytes, 1, Len(e))
  BY <1>6, <1>7, Zenon
<1>9. e # <<>>
  BY <1>2, <1>5
<1>. QED BY <1>0, <1>2, <1>5, <1>8, <1>9 DEF IsPrefix, OnlyThis

LEMMA EncodingOfDelivery ==
  VInv /\ Delivery => OneEncoding
<1> SUFFICES ASSUME VInv, Delivery, pc = "ntt h", m = 1
             PROVE  LET e == Writes(call.type, AsSeq(sv), Len(body))
                    IN  /\ pk = modq_encode(AsSeq(h), Len(pk))
                        /\ IsPrefix(e, body) /\ e # <<>>
                        /\ \A i \in DOMAIN body :
                             i > Len(e) => body[i] = 0 /\ call.type = "padded"
  BY DEF OneEncoding, Writes
<1>1. pk \in Seq(Byte) /\ body \in Seq(Byte)
  BY DEF VInv
<1>2. /\ KeyAccepted(pk) /\ h = PublicKey
      /\ Complete(call.type, body) /\ sv = AsPoly(Reads(call.type, body).x)
  BY DEF Delivery, HasKey, HasValue
<1>3. pk = modq_encode(AsSeq(h), Len(pk))
  BY <1>1, <1>2, KeyWritten DEF PublicKey
<1>4. OnlyThis(call.type, body, AsPoly(Reads(call.type, body).x))
  BY <1>1, <1>2, ValueWritten
<1>5. OnlyThis(call.type, body, sv)
  BY <1>2, <1>4, Zenon
<1>. QED BY <1>3, <1>5, Zenon DEF OnlyThis

(* Whatever bits are flipped: a key or a value that is decoded has the     *)
(* bytes that the encoder writes for it, followed in the padded format by  *)
(* zeros only.                                                             *)
THEOREM EncodingIsUnique == Spec => []OneEncoding
BY DeliveryInvariant, EncodingOfDelivery, PTL

-----------------------------------------------------------------------------
(* The arithmetic of Z_q, and the tables of the transforms.                *)

(* Congruence modulo q, and the operations of Z_q.                         *)
Eqm(x, y)   == x \in Int /\ y \in Int /\ Divides(Q, x - y)
Plus(x, y)  == (x + y) % Q
Minus(x, y) == (x - y) % Q
Times(x, y) == (x * y) % Q

LEMMA QNat ==
  Q \in Nat /\ Q > 0 /\ Q \in Int
BY SMT DEF Q

LEMMA EqmRefl ==
  ASSUME NEW x \in Int
  PROVE  Eqm(x, x)
<1>1. x - x = Q * 0
  BY SMT DEF Q
<1>. QED BY <1>1 DEF Eqm, Divides

LEMMA EqmSym ==
  ASSUME NEW x, NEW y, Eqm(x, y)
  PROVE  Eqm(y, x)
<1>1. PICK j \in Int : x - y = Q * j
  BY DEF Eqm, Divides
<1>2. x \in Int /\ y \in Int
  BY DEF Eqm
<1>3. y - x = Q * (-j) /\ -j \in Int
  BY <1>1, <1>2, SMT DEF Q
<1>. QED BY <1>2, <1>3 DEF Eqm, Divides

LEMMA EqmTrans ==
  ASSUME NEW x, NEW y, NEW z, Eqm(x, y), Eqm(y, z)
  PROVE  Eqm(x, z)
<1>1. PICK j \in Int : x - y = Q * j
  BY DEF Eqm, Divides
<1>2. PICK k \in Int : y - z = Q * k
  BY DEF Eqm, Divides
<1>3. x \in Int /\ y \in Int /\ z \in Int
  BY DEF Eqm
<1>4. x - z = Q * (j + k) /\ j + k \in Int
  BY <1>1, <1>2, <1>3, SMT DEF Q
<1>. QED BY <1>3, <1>4 DEF Eqm, Divides

LEMMA EqmSum ==
  ASSUME NEW x, NEW y, NEW z, NEW t, Eqm(x, y), Eqm(z, t)
  PROVE  Eqm(x + z, y + t) /\ Eqm(x - z, y - t)
<1>1. PICK j \in Int : x - y = Q * j
  BY DEF Eqm, Divides
<1>2. PICK k \in Int : z - t = Q * k
  BY DEF Eqm, Divides
<1>3. x \in Int /\ y \in Int /\ z \in Int /\ t \in Int
  BY DEF Eqm
<1>4. (x + z) - (y + t) = Q * (j + k) /\ (x - z) - (y - t) = Q * (j - k)
      /\ j + k \in Int /\ j - k \in Int
  BY <1>1, <1>2, <1>3, SMT DEF Q
<1>5. x + z \in Int /\ y + t \in Int /\ x - z \in Int /\ y - t \in Int
  BY <1>3
<1>. QED BY <1>4, <1>5, Zenon DEF Eqm, Divides

LEMMA EqmProduct ==
  ASSUME NEW x, NEW y, NEW z, NEW t, Eqm(x, y), Eqm(z, t)
  PROVE  Eqm(x * z, y * t)
<1>1. PICK j \in Int : x - y = Q * j
  BY DEF Eqm, Divides
<1>2. PICK k \in Int : z - t = Q * k
  BY DEF Eqm, Divides
<1>3. x \in Int /\ y \in Int /\ z \in Int /\ t \in Int
  BY DEF Eqm
<1>4. x * z - y * t = (x - y) * z + y * (z - t)
  BY <1>3, SMT
<1>5. (Q * j) * z + y * (Q * k) = Q * (j * z + y * k)
  BY <1>3, SMT DEF Q
<1>6. j * z + y * k \in Int
  BY <1>3
<1>7. x * z - y * t = Q * (j * z + y * k)
  BY <1>1, <1>2, <1>4, <1>5, Zenon
<1>8. x * z \in Int /\ y * t \in Int
  BY <1>3
<1>. QED BY <1>6, <1>7, <1>8, Zenon DEF Eqm, Divides

LEMMA EqmSame ==
  ASSUME NEW x, NEW y, Eqm(x, y)
  PROVE  x % Q = y % Q
BY QNat, SameRemainder, Zenon DEF Eqm

LEMMA EqmMod ==
  ASSUME NEW x \in Int
  PROVE  Eqm(x % Q, x) /\ x % Q \in Zq
<1>1. /\ x % Q \in 0..(Q - 1) /\ x \div Q \in Int /\ x = Q * (x \div Q) + (x % Q)
      /\ Divides(Q, x - (x % Q))
  BY QNat, ModIs, Zenon
<1>2. x % Q \in Zq
  BY <1>1 DEF Zq
<1>3. x % Q \in Int
  BY <1>2, ZqIsInt, Zenon
<1>4. Eqm(x, x % Q)
  BY <1>1, <1>3 DEF Eqm
<1>. QED BY <1>2, <1>4, EqmSym

(* Residues that are congruent are equal. *)
LEMMA EqmZq ==
  ASSUME NEW x \in Zq, NEW y \in Zq, Eqm(x, y)
  PROVE  x = y
<1>1. x \in Int /\ 0 <= x /\ x < Q /\ y \in Int /\ 0 <= y /\ y < Q
  BY OfResidue, Zenon
<1>2. x % Q = x /\ y % Q = y
  BY <1>1, SMT DEF Q
<1>. QED BY <1>2, EqmSame, Zenon

LEMMA ZqMod ==
  ASSUME NEW x \in Zq
  PROVE  x % Q = x
<1>1. x \in Int /\ 0 <= x /\ x < Q
  BY OfResidue, Zenon
<1>. QED BY <1>1, SMT DEF Q

(* Each operation is congruent to what it reduces. *)
LEMMA EqmOps ==
  ASSUME NEW x \in Int, NEW y \in Int
  PROVE  /\ Eqm(Plus(x, y), x + y) /\ Plus(x, y) \in Zq /\ Plus(x, y) \in Int
         /\ Eqm(Minus(x, y), x - y) /\ Minus(x, y) \in Zq /\ Minus(x, y) \in Int
         /\ Eqm(Times(x, y), x * y) /\ Times(x, y) \in Zq /\ Times(x, y) \in Int
<1>1. x + y \in Int /\ x - y \in Int /\ x * y \in Int
  OBVIOUS
<1>. QED BY <1>1, EqmMod, ZqIsInt, Zenon DEF Plus, Minus, Times

(* Congruences carry through the operations. *)
LEMMA EqmPlus ==
  ASSUME NEW x, NEW y, NEW z, NEW t, Eqm(x, y), Eqm(z, t)
  PROVE  /\ Eqm(Plus(x, z), y + t) /\ Eqm(Minus(x, z), y - t) /\ Eqm(Times(x, z), y * t)
<1>1. x \in Int /\ z \in Int
  BY DEF Eqm
<1>2. Eqm(Plus(x, z), x + z) /\ Eqm(Minus(x, z), x - z) /\ Eqm(Times(x, z), x * z)
  BY <1>1, EqmOps, Zenon
<1>3. Eqm(x + z, y + t) /\ Eqm(x - z, y - t) /\ Eqm(x * z, y * t)
  BY EqmSum, EqmProduct, Zenon
<1>. QED BY <1>2, <1>3, EqmTrans, Zenon

(* The inverse of 2^16 modulo q: what a Montgomery product multiplies by.  *)
RI == 2304

LEMMA MontyTimes ==
  ASSUME NEW x \in Zq, NEW y \in Zq
  PROVE  mq_montymul(x, y) = Times(x, Times(y, RI)) /\ Times(y, RI) \in Zq
<1>1. x \in Int /\ y \in Int /\ RI \in Int
  BY ZqIsInt, SMT DEF RI
<1>2. PICK z \in Zq : z = mq_montymul(x, y)
  BY MontyExact, Zenon
<1>3. PICK j \in Int : z * B = x * y + j * Q
  BY <1>2, MontyExact, Zenon
<1>4. z \in Int /\ B \in Int /\ x * y \in Int
  BY <1>1, <1>2, ZqIsInt, SMT DEF B
<1>5. Eqm(z * B, x * y)
  <2>1. PICK p \in Int, r \in Int : p = z * B /\ r = x * y
    BY <1>4
  <2>2. p - r = Q * j
    BY <1>3, <2>1, SMT DEF Q
  <2>. QED BY <2>1, <2>2 DEF Eqm, Divides
<1>6. Eqm((z * B) * RI, (x * y) * RI)
  BY <1>1, <1>5, EqmRefl, EqmProduct, Zenon
<1>7. Eqm(z, (z * B) * RI)
  <2>1. z - (z * B) * RI = Q * (z * (-12287))
    BY <1>4, SMT DEF B, RI, Q
  <2>2. (z * B) * RI \in Int /\ z * (-12287) \in Int
    BY <1>4, SMT DEF B, RI
  <2>. QED BY <1>4, <2>1, <2>2 DEF Eqm, Divides
<1>8. Eqm(Times(y, RI), y * RI) /\ Times(y, RI) \in Zq /\ Times(y, RI) \in Int
  BY <1>1, EqmOps, Zenon
<1>9. Eqm(Times(x, Times(y, RI)), x * (y * RI)) /\ Times(x, Times(y, RI)) \in Zq
  BY <1>1, <1>8, EqmRefl, EqmPlus, EqmOps, Zenon
<1>10. x * (y * RI) = (x * y) * RI
  BY <1>1, SMT
<1>11. Eqm(z, Times(x, Times(y, RI)))
  BY <1>6, <1>7, <1>9, <1>10, EqmSym, EqmTrans, Zenon
<1>12. z = Times(x, Times(y, RI))
  BY <1>2, <1>9, <1>11, EqmZq, Zenon
<1>. QED BY <1>2, <1>8, <1>12

(* The identities that the layers rest on.                                 *)
LEMMA ShiftSum ==
  ASSUME NEW u \in Zq, NEW v \in Zq, NEW s \in Zq
  PROVE  /\ Plus(Times(Times(s, s), v), Times(u, s)) = Times(s, Plus(u, Times(v, s)))
         /\ Minus(Times(Times(s, s), v), Times(u, s)) = Times(Minus(0, s), Minus(u, Times(v, s)))
<1>1. u \in Int /\ v \in Int /\ s \in Int /\ Times(s, s) \in Int /\ 0 \in Int
  BY ZqIsInt, EqmOps
<1>2. Eqm(u, u) /\ Eqm(v, v) /\ Eqm(s, s) /\ Eqm(0, 0)
  BY <1>1, EqmRefl, Zenon
<1>3. Eqm(Times(s, s), s * s)
  BY <1>2, EqmPlus, Zenon
<1>4. Eqm(Times(Times(s, s), v), (s * s) * v) /\ Eqm(Times(u, s), u * s) /\ Eqm(Times(v, s), v * s)
      /\ Eqm(Minus(0, s), 0 - s)
  BY <1>2, <1>3, EqmPlus, Zenon
<1>5. /\ Eqm(Plus(Times(Times(s, s), v), Times(u, s)), (s * s) * v + u * s)
      /\ Eqm(Minus(Times(Times(s, s), v), Times(u, s)), (s * s) * v - u * s)
      /\ Eqm(Plus(u, Times(v, s)), u + v * s) /\ Eqm(Minus(u, Times(v, s)), u - v * s)
  BY <1>2, <1>4, EqmPlus, Zenon
<1>6. /\ Eqm(Times(s, Plus(u, Times(v, s))), s * (u + v * s))
      /\ Eqm(Times(Minus(0, s), Minus(u, Times(v, s))), (0 - s) * (u - v * s))
  BY <1>2, <1>4, <1>5, EqmPlus, Zenon
<1>7. s * (u + v * s) = (s * s) * v + u * s /\ (0 - s) * (u - v * s) = (s * s) * v - u * s
  BY <1>1, SMT
<1>8. \A p, r, t : Eqm(p, t) /\ Eqm(r, t) => Eqm(p, r)
  BY EqmSym, EqmTrans, Zenon
<1>9. /\ Eqm(Plus(Times(Times(s, s), v), Times(u, s)), Times(s, Plus(u, Times(v, s))))
      /\ Eqm(Minus(Times(Times(s, s), v), Times(u, s)), Times(Minus(0, s), Minus(u, Times(v, s))))
  BY <1>5, <1>6, <1>7, <1>8, Zenon
<1>10. \A p \in Int, r \in Int : Plus(p, r) \in Zq /\ Minus(p, r) \in Zq /\ Times(p, r) \in Zq
         /\ Plus(p, r) \in Int /\ Minus(p, r) \in Int /\ Times(p, r) \in Int
  BY EqmOps, Zenon
<1>11. Times(v, s) \in Int /\ Times(Times(s, s), v) \in Int /\ Times(u, s) \in Int /\ Minus(0, s) \in Int
  BY <1>1, <1>10, Zenon
<1>12. Plus(u, Times(v, s)) \in Int /\ Minus(u, Times(v, s)) \in Int
  BY <1>1, <1>10, <1>11, Zenon
<1>13. /\ Plus(Times(Times(s, s), v), Times(u, s)) \in Zq /\ Minus(Times(Times(s, s), v), Times(u, s)) \in Zq
       /\ Times(s, Plus(u, Times(v, s))) \in Zq
       /\ Times(Minus(0, s), Minus(u, Times(v, s))) \in Zq
  BY <1>1, <1>10, <1>11, <1>12, Zenon
<1>. QED BY <1>9, <1>13, EqmZq, Zenon

(* A layer is linear.                                                      *)
LEMMA LinearSum ==
  ASSUME NEW a \in Zq, NEW b \in Zq, NEW d \in Zq, NEW e \in Zq, NEW c \in Zq, NEW s \in Zq
  PROVE  /\ Plus(Plus(a, Times(c, b)), Times(Plus(d, Times(c, e)), s))
              = Plus(Plus(a, Times(d, s)), Times(c, Plus(b, Times(e, s))))
         /\ Minus(Plus(a, Times(c, b)), Times(Plus(d, Times(c, e)), s))
              = Plus(Minus(a, Times(d, s)), Times(c, Minus(b, Times(e, s))))
<1>1. a \in Int /\ b \in Int /\ d \in Int /\ e \in Int /\ c \in Int /\ s \in Int
  BY ZqIsInt
<1>2. Eqm(a, a) /\ Eqm(b, b) /\ Eqm(c, c) /\ Eqm(d, d) /\ Eqm(e, e) /\ Eqm(s, s)
  BY <1>1, EqmRefl, Zenon
<1> DEFINE p == Plus(a, Times(c, b))
           r == Plus(d, Times(c, e))
<1>3. Eqm(p, a + c * b) /\ Eqm(r, d + c * e)
  <2>1. Eqm(Times(c, b), c * b) /\ Eqm(Times(c, e), c * e)
    BY <1>2, EqmPlus, Zenon
  <2>. QED BY <1>2, <2>1, EqmPlus, Zenon
<1> HIDE DEF p, r
<1>4. Eqm(Times(r, s), (d + c * e) * s)
  BY <1>2, <1>3, EqmPlus, Zenon
<1>5. /\ Eqm(Plus(p, Times(r, s)), (a + c * b) + (d + c * e) * s)
      /\ Eqm(Minus(p, Times(r, s)), (a + c * b) - (d + c * e) * s)
  BY <1>3, <1>4, EqmPlus, Zenon
<1>6. Eqm(Times(d, s), d * s) /\ Eqm(Times(e, s), e * s)
  BY <1>2, EqmPlus, Zenon
<1>7. /\ Eqm(Plus(a, Times(d, s)), a + d * s) /\ Eqm(Minus(a, Times(d, s)), a - d * s)
      /\ Eqm(Plus(b, Times(e, s)), b + e * s) /\ Eqm(Minus(b, Times(e, s)), b - e * s)
  BY <1>2, <1>6, EqmPlus, Zenon
<1>8. /\ Eqm(Times(c, Plus(b, Times(e, s))), c * (b + e * s))
      /\ Eqm(Times(c, Minus(b, Times(e, s))), c * (b - e * s))
  BY <1>2, <1>7, EqmPlus, Zenon
<1>9. /\ Eqm(Plus(Plus(a, Times(d, s)), Times(c, Plus(b, Times(e, s)))),
            (a + d * s) + c * (b + e * s))
      /\ Eqm(Plus(Minus(a, Times(d, s)), Times(c, Minus(b, Times(e, s)))),
            (a - d * s) + c * (b - e * s))
  BY <1>7, <1>8, EqmPlus, Zenon
<1>10. /\ (a + c * b) + (d + c * e) * s = (a + d * s) + c * (b + e * s)
       /\ (a + c * b) - (d + c * e) * s = (a - d * s) + c * (b - e * s)
  BY <1>1, SMT
<1>11. \A i, j, k : Eqm(i, k) /\ Eqm(j, k) => Eqm(i, j)
  BY EqmSym, EqmTrans, Zenon
<1>12. /\ Eqm(Plus(p, Times(r, s)), Plus(Plus(a, Times(d, s)), Times(c, Plus(b, Times(e, s)))))
       /\ Eqm(Minus(p, Times(r, s)), Plus(Minus(a, Times(d, s)), Times(c, Minus(b, Times(e, s)))))
  BY <1>5, <1>9, <1>10, <1>11, Zenon
<1>13. /\ Plus(p, Times(r, s)) % Q = Plus(p, Times(r, s))
       /\ Minus(p, Times(r, s)) % Q = Minus(p, Times(r, s))
  <2>1. p \in Int /\ Times(r, s) \in Int
    BY <1>3, <1>4 DEF Eqm
  <2>. QED BY <2>1, EqmOps, ZqMod, Zenon
<1>14. \A i \in Int, j \in Int : Plus(i, j) % Q = Plus(i, j)
  BY EqmOps, ZqMod, Zenon
<1>15. /\ Plus(a, Times(d, s)) \in Int /\ Times(c, Plus(b, Times(e, s))) \in Int
       /\ Minus(a, Times(d, s)) \in Int /\ Times(c, Minus(b, Times(e, s))) \in Int
  BY <1>7, <1>8 DEF Eqm
<1>. QED BY <1>12, <1>13, <1>14, <1>15, EqmSame, Zenon DEF p, r

(* The factor of block i in the layer with nb blocks, and its inverse; the *)
(* block is a polynomial modulo X^l - Zeta(nb, i), l being its length.     *)
Root(nb, i)  == Times(GMb[nb + i + 1], RI)
IRoot(nb, i) == Times(iGMb[nb + i + 1], RI)
Zeta(nb, i)  ==
  IF nb = 1 THEN Q - 1
  ELSE IF i % 2 = 0 THEN Root(nb \div 2, i \div 2) ELSE Minus(0, Root(nb \div 2, i \div 2))

LEMMA RootValues ==
  /\ Root(1, 0) = 10810 /\ Root(2, 0) = 7143 /\ Root(2, 1) = 4043
  /\ Root(4, 0) = 10984 /\ Root(4, 1) = 722 /\ Root(4, 2) = 5736
  /\ Root(4, 3) = 8155 /\ Root(8, 0) = 3542 /\ Root(8, 1) = 8785
  /\ Root(8, 2) = 9744 /\ Root(8, 3) = 3621 /\ Root(8, 4) = 10643
  /\ Root(8, 5) = 1212 /\ Root(8, 6) = 3195 /\ Root(8, 7) = 5860
BY SMT DEF Root, GMb, Times, RI, Q

LEMMA IRootValues ==
  /\ IRoot(1, 0) = 1479 /\ IRoot(2, 0) = 8246 /\ IRoot(2, 1) = 5146
  /\ IRoot(4, 0) = 4134 /\ IRoot(4, 1) = 6553 /\ IRoot(4, 2) = 11567
  /\ IRoot(4, 3) = 1305 /\ IRoot(8, 0) = 6429 /\ IRoot(8, 1) = 9094
  /\ IRoot(8, 2) = 11077 /\ IRoot(8, 3) = 1646 /\ IRoot(8, 4) = 8668
  /\ IRoot(8, 5) = 2545 /\ IRoot(8, 6) = 3504 /\ IRoot(8, 7) = 8747
BY SMT DEF IRoot, iGMb, Times, RI, Q

LEMMA ZetaValues ==
  /\ Zeta(1, 0) = 12288 /\ Zeta(2, 0) = 10810 /\ Zeta(2, 1) = 1479
  /\ Zeta(4, 0) = 7143 /\ Zeta(4, 1) = 5146 /\ Zeta(4, 2) = 4043
  /\ Zeta(4, 3) = 8246 /\ Zeta(8, 0) = 10984 /\ Zeta(8, 1) = 1305
  /\ Zeta(8, 2) = 722 /\ Zeta(8, 3) = 11567 /\ Zeta(8, 4) = 5736
  /\ Zeta(8, 5) = 6553 /\ Zeta(8, 6) = 8155 /\ Zeta(8, 7) = 4134
<1>1. Zeta(1, 0) = 12288
  BY SMT DEF Zeta, Q
<1>2. Zeta(2, 0) = 10810
  <2>1. 2 \div 2 = 1 /\ 0 \div 2 = 0 /\ 0 % 2 = 0 /\ 2 # 1
    BY SMT
  <2>. QED BY <2>1, RootValues, SMT DEF Zeta
<1>3. Zeta(2, 1) = 1479
  <2>1. 2 \div 2 = 1 /\ 1 \div 2 = 0 /\ 1 % 2 = 1 /\ 2 # 1
    BY SMT
  <2>2. Zeta(2, 1) = Minus(0, Root(1, 0))
    BY <2>1, SMT DEF Zeta
  <2>. QED BY <2>2, RootValues, SMT DEF Minus, Q
<1>4. Zeta(4, 0) = 7143
  <2>1. 4 \div 2 = 2 /\ 0 \div 2 = 0 /\ 0 % 2 = 0 /\ 4 # 1
    BY SMT
  <2>. QED BY <2>1, RootValues, SMT DEF Zeta
<1>5. Zeta(4, 1) = 5146
  <2>1. 4 \div 2 = 2 /\ 1 \div 2 = 0 /\ 1 % 2 = 1 /\ 4 # 1
    BY SMT
  <2>2. Zeta(4, 1) = Minus(0, Root(2, 0))
    BY <2>1, SMT DEF Zeta
  <2>. QED BY <2>2, RootValues, SMT DEF Minus, Q
<1>6. Zeta(4, 2) = 4043
  <2>1. 4 \div 2 = 2 /\ 2 \div 2 = 1 /\ 2 % 2 = 0 /\ 4 # 1
    BY SMT
  <2>. QED BY <2>1, RootValues, SMT DEF Zeta
<1>7. Zeta(4, 3) = 8246
  <2>1. 4 \div 2 = 2 /\ 3 \div 2 = 1 /\ 3 % 2 = 1 /\ 4 # 1
    BY SMT
  <2>2. Zeta(4, 3) = Minus(0, Root(2, 1))
    BY <2>1, SMT DEF Zeta
  <2>. QED BY <2>2, RootValues, SMT DEF Minus, Q
<1>8. Zeta(8, 0) = 10984
  <2>1. 8 \div 2 = 4 /\ 0 \div 2 = 0 /\ 0 % 2 = 0 /\ 8 # 1
    BY SMT
  <2>. QED BY <2>1, RootValues, SMT DEF Zeta
<1>9. Zeta(8, 1) = 1305
  <2>1. 8 \div 2 = 4 /\ 1 \div 2 = 0 /\ 1 % 2 = 1 /\ 8 # 1
    BY SMT
  <2>2. Zeta(8, 1) = Minus(0, Root(4, 0))
    BY <2>1, SMT DEF Zeta
  <2>. QED BY <2>2, RootValues, SMT DEF Minus, Q
<1>10. Zeta(8, 2) = 722
  <2>1. 8 \div 2 = 4 /\ 2 \div 2 = 1 /\ 2 % 2 = 0 /\ 8 # 1
    BY SMT
  <2>. QED BY <2>1, RootValues, SMT DEF Zeta
<1>11. Zeta(8, 3) = 11567
  <2>1. 8 \div 2 = 4 /\ 3 \div 2 = 1 /\ 3 % 2 = 1 /\ 8 # 1
    BY SMT
  <2>2. Zeta(8, 3) = Minus(0, Root(4, 1))
    BY <2>1, SMT DEF Zeta
  <2>. QED BY <2>2, RootValues, SMT DEF Minus, Q
<1>12. Zeta(8, 4) = 5736
  <2>1. 8 \div 2 = 4 /\ 4 \div 2 = 2 /\ 4 % 2 = 0 /\ 8 # 1
    BY SMT
  <2>. QED BY <2>1, RootValues, SMT DEF Zeta
<1>13. Zeta(8, 5) = 6553
  <2>1. 8 \div 2 = 4 /\ 5 \div 2 = 2 /\ 5 % 2 = 1 /\ 8 # 1
    BY SMT
  <2>2. Zeta(8, 5) = Minus(0, Root(4, 2))
    BY <2>1, SMT DEF Zeta
  <2>. QED BY <2>2, RootValues, SMT DEF Minus, Q
<1>14. Zeta(8, 6) = 8155
  <2>1. 8 \div 2 = 4 /\ 6 \div 2 = 3 /\ 6 % 2 = 0 /\ 8 # 1
    BY SMT
  <2>. QED BY <2>1, RootValues, SMT DEF Zeta
<1>15. Zeta(8, 7) = 4134
  <2>1. 8 \div 2 = 4 /\ 7 \div 2 = 3 /\ 7 % 2 = 1 /\ 8 # 1
    BY SMT
  <2>2. Zeta(8, 7) = Minus(0, Root(4, 3))
    BY <2>1, SMT DEF Zeta
  <2>. QED BY <2>2, RootValues, SMT DEF Minus, Q
<1>. QED BY <1>1, <1>2, <1>3, <1>4, <1>5, <1>6, <1>7, <1>8, <1>9, <1>10, <1>11, <1>12, <1>13, <1>14, <1>15

(* The factors are square roots of what the blocks are reduced by, and the *)
(* tables of the two transforms are inverse to each other.                 *)
RootOk(nb, i) ==
  /\ Root(nb, i) \in Int /\ 0 <= Root(nb, i) /\ Root(nb, i) < Q
  /\ IRoot(nb, i) \in Int /\ 0 <= IRoot(nb, i) /\ IRoot(nb, i) < Q
  /\ Times(Root(nb, i), Root(nb, i)) = Zeta(nb, i)
  /\ Times(Root(nb, i), IRoot(nb, i)) = 1

LEMMA Roots ==
  ASSUME NEW nb \in Blocks, NEW i \in 0..(nb - 1)
  PROVE  /\ Root(nb, i) \in Zq /\ IRoot(nb, i) \in Zq
         /\ Times(Root(nb, i), Root(nb, i)) = Zeta(nb, i)
         /\ Times(Root(nb, i), IRoot(nb, i)) = 1
<1>1. /\ RootOk(1, 0) /\ RootOk(2, 0) /\ RootOk(2, 1)
  BY RootValues, IRootValues, ZetaValues, SMT DEF RootOk, Times, Q
<1>2. /\ RootOk(4, 0) /\ RootOk(4, 1) /\ RootOk(4, 2) /\ RootOk(4, 3)
  BY RootValues, IRootValues, ZetaValues, SMT DEF RootOk, Times, Q
<1>3. /\ RootOk(8, 0) /\ RootOk(8, 1) /\ RootOk(8, 2) /\ RootOk(8, 3)
      /\ RootOk(8, 4) /\ RootOk(8, 5) /\ RootOk(8, 6) /\ RootOk(8, 7)
  BY RootValues, IRootValues, ZetaValues, SMT DEF RootOk, Times, Q
<1>4. RootOk(nb, i)
  <2>1. CASE nb = 1
    <3>1. i = 0
      BY <2>1
    <3>. QED BY <1>1, <2>1, <3>1
  <2>2. CASE nb = 2
    <3>1. i = 0 \/ i = 1
      BY <2>2
    <3>. QED BY <1>1, <2>2, <3>1
  <2>3. CASE nb = 4
    <3>1. i = 0 \/ i = 1 \/ i = 2 \/ i = 3
      BY <2>3
    <3>. QED BY <1>2, <2>3, <3>1
  <2>4. CASE nb = 8
    <3>1. i = 0 \/ i = 1 \/ i = 2 \/ i = 3 \/ i = 4 \/ i = 5 \/ i = 6 \/ i = 7
      BY <2>4
    <3>. QED BY <1>3, <2>4, <3>1
  <2>. QED BY <2>1, <2>2, <2>3, <2>4 DEF Blocks
<1>. QED BY <1>4, IsResidue, Zenon DEF RootOk

LEMMA ZetaNext ==
  ASSUME NEW nb \in Blocks, NEW i \in 0..(nb - 1)
  PROVE  /\ Zeta(2 * nb, 2 * i) = Root(nb, i)
         /\ Zeta(2 * nb, 2 * i + 1) = Minus(0, Root(nb, i))
         /\ Zeta(nb, i) \in Zq
<1>1. 2 * nb # 1 /\ (2 * nb) \div 2 = nb
  BY SMT DEF Blocks
<1>2. i \in Int /\ (2 * i) % 2 = 0 /\ (2 * i) \div 2 = i /\ (2 * i + 1) % 2 # 0
      /\ (2 * i + 1) \div 2 = i
  <2>1. \A k \in Int : (2 * k) % 2 = 0 /\ (2 * k) \div 2 = k /\ (2 * k + 1) % 2 # 0
                        /\ (2 * k + 1) \div 2 = k
    BY SMT
  <2>2. nb \in Int /\ i \in Int
    BY DEF Blocks
  <2>. QED BY <2>1, <2>2
<1>3. Zeta(nb, i) \in Zq
  <2>1. Times(Root(nb, i), Root(nb, i)) = Zeta(nb, i) /\ Root(nb, i) \in Zq
    BY Roots
  <2>2. Root(nb, i) \in Int
    BY <2>1, ZqIsInt, Zenon
  <2>. QED BY <2>1, <2>2, EqmOps, Zenon
<1>. QED BY <1>1, <1>2, <1>3, Zenon DEF Zeta

(* The cells of the two halves of a block.                                 *)
Low(ht, i, j)  == 2 * ht * i + j
High(ht, i, j) == 2 * ht * i + ht + j

LEMMA Cells ==
  ASSUME NEW nb \in Blocks, NEW ht \in Blocks, n = 2 * nb * ht,
         NEW i \in 0..(nb - 1), NEW j \in 0..(ht - 1)
  PROVE  LET lo == Low(ht, i, j)
             hi == High(ht, i, j)
         IN  /\ lo \in Index /\ hi \in Index /\ hi = lo + ht /\ lo = hi - ht
             /\ lo \div ht = 2 * i /\ hi \div ht = 2 * i + 1
             /\ lo \div (2 * ht) = i /\ hi \div (2 * ht) = i
             /\ lo % ht = j /\ hi % ht = j
             /\ lo % (2 * ht) = j /\ hi % (2 * ht) = ht + j
             /\ nb + i + 1 \in 1..16 /\ 2 * i \in 0..(2 * nb - 1) /\ 2 * i + 1 \in 0..(2 * nb - 1)
<1>1. n \in Int /\ i \in Int /\ j \in Int /\ 0 <= i /\ i <= nb - 1 /\ 0 <= j /\ j <= ht - 1
      /\ nb \in Int /\ ht \in Int /\ n <= 16 /\ 1 <= nb /\ nb <= 8
  BY Degree, SMT DEF Blocks
<1>3. CASE ht = 1
  BY <1>1, <1>3, SMT DEF Low, High, Index
<1>4. CASE ht = 2
  BY <1>1, <1>4, SMT DEF Low, High, Index
<1>5. CASE ht = 4
  BY <1>1, <1>5, SMT DEF Low, High, Index
<1>6. CASE ht = 8
  BY <1>1, <1>6, SMT DEF Low, High, Index
<1>. QED BY <1>3, <1>4, <1>5, <1>6 DEF Blocks

(* Every cell is one of these.                                             *)
LEMMA CellOf ==
  ASSUME NEW nb \in Blocks, NEW ht \in Blocks, n = 2 * nb * ht, NEW k \in Index
  PROVE  \E i \in 0..(nb - 1), j \in 0..(ht - 1) : k = Low(ht, i, j) \/ k = High(ht, i, j)
<1> DEFINE i == k \div (2 * ht)
           j == k % ht
<1>1. n \in Int /\ k \in Int /\ 0 <= k /\ k < n /\ nb \in Int /\ ht \in Int
  BY Degree, SMT DEF Blocks, Index
<1>2. i \in 0..(nb - 1) /\ j \in 0..(ht - 1) /\ (k = Low(ht, i, j) \/ k = High(ht, i, j))
  <2>1. CASE ht = 1
    BY <1>1, <2>1, SMT DEF Low, High
  <2>2. CASE ht = 2
    BY <1>1, <2>2, SMT DEF Low, High
  <2>3. CASE ht = 4
    BY <1>1, <2>3, SMT DEF Low, High
  <2>4. CASE ht = 8
    BY <1>1, <2>4, SMT DEF Low, High
  <2>. QED BY <2>1, <2>2, <2>3, <2>4 DEF Blocks
<1>. QED BY <1>2

-----------------------------------------------------------------------------
(* The transforms layer by layer: what a layer does to sums, multiples and *)
(* multiples of X.                                                         *)

LEMMA HalfIs ==
  ASSUME NEW nb \in Blocks, NEW ht \in Blocks, n = 2 * nb * ht
  PROVE  (n \div nb) \div 2 = ht /\ 2 * nb <= n
<1>1. CASE ht = 1
  BY <1>1, SMT DEF Blocks
<1>2. CASE ht = 2
  BY <1>2, SMT DEF Blocks
<1>3. CASE ht = 4
  BY <1>3, SMT DEF Blocks
<1>4. CASE ht = 8
  BY <1>4, SMT DEF Blocks
<1>. QED BY <1>1, <1>2, <1>3, <1>4 DEF Blocks

LEMMA ArrayCell ==
  ASSUME NEW a \in Array, NEW k \in Index
  PROVE  a[k] \in Zq /\ a[k] \in Int
BY ZqIsInt, Zenon DEF Array

(* Arrays are the same if they are cell by cell.                           *)
Agree(a, b, nb, ht) ==
  \A i \in 0..(nb - 1), j \in 0..(ht - 1) :
    a[Low(ht, i, j)] = b[Low(ht, i, j)] /\ a[High(ht, i, j)] = b[High(ht, i, j)]

LEMMA SameCells ==
  ASSUME NEW nb \in Blocks, NEW ht \in Blocks, n = 2 * nb * ht,
         NEW a \in Array, NEW b, b = [k \in Index |-> b[k]], Agree(a, b, nb, ht)
  PROVE  a = b
<1>1. ASSUME NEW k \in Index PROVE a[k] = b[k]
  BY CellOf DEF Agree
<1>2. a = [k \in Index |-> a[k]]
  BY DEF Array
<1>. QED BY <1>1, <1>2

(* The butterflies of mq_NTT, and those of mq_iNTT, over Z_q.              *)
Butterflies(a, b, nb, ht) ==
  \A i \in 0..(nb - 1), j \in 0..(ht - 1) :
    /\ b[Low(ht, i, j)] = Plus(a[Low(ht, i, j)], Times(a[High(ht, i, j)], Root(nb, i)))
    /\ b[High(ht, i, j)] = Minus(a[Low(ht, i, j)], Times(a[High(ht, i, j)], Root(nb, i)))

Backward(a, b, nb, ht) ==
  \A i \in 0..(nb - 1), j \in 0..(ht - 1) :
    /\ b[Low(ht, i, j)] = Plus(a[Low(ht, i, j)], a[High(ht, i, j)])
    /\ b[High(ht, i, j)] = Times(Minus(a[Low(ht, i, j)], a[High(ht, i, j)]), IRoot(nb, i))

LEMMA LayerCells ==
  ASSUME NEW nb \in Blocks, NEW ht \in Blocks, n = 2 * nb * ht, NEW a \in Array
  PROVE  Butterflies(a, NttLayer(a, nb), nb, ht)
<1>. SUFFICES ASSUME NEW i \in 0..(nb - 1), NEW j \in 0..(ht - 1),
                     NEW lo, lo = Low(ht, i, j), NEW hi, hi = High(ht, i, j)
              PROVE  /\ NttLayer(a, nb)[lo] = Plus(a[lo], Times(a[hi], Root(nb, i)))
                     /\ NttLayer(a, nb)[hi] = Minus(a[lo], Times(a[hi], Root(nb, i)))
  BY DEF Butterflies
<1>1. /\ lo \in Index /\ hi \in Index /\ hi = lo + ht /\ lo = hi - ht
      /\ lo \div ht = 2 * i /\ hi \div ht = 2 * i + 1
      /\ lo \div (2 * ht) = i /\ hi \div (2 * ht) = i /\ nb + i + 1 \in 1..16
  BY Cells
<1>2. (n \div nb) \div 2 = ht
  BY HalfIs
<1>3. (2 * i) % 2 = 0 /\ (2 * i + 1) % 2 # 0
  <2>1. i \in Int
    BY DEF Blocks
  <2>. QED BY <2>1, SMT
<1>4. GMb[nb + i + 1] \in Zq
  BY <1>1, Tables, Zenon
<1>5. /\ NttLayer(a, nb)[lo] = mq_add(a[lo], mq_montymul(a[hi], GMb[nb + i + 1]))
      /\ NttLayer(a, nb)[hi] = mq_sub(a[lo], mq_montymul(a[hi], GMb[nb + i + 1]))
  BY <1>1, <1>2, <1>3, Zenon DEF NttLayer
<1>6. a[lo] \in Zq /\ a[hi] \in Zq
  BY <1>1, ArrayCell, Zenon
<1>7. /\ mq_montymul(a[hi], GMb[nb + i + 1]) = Times(a[hi], Root(nb, i))
      /\ mq_montymul(a[hi], GMb[nb + i + 1]) \in Zq
  BY <1>4, <1>6, MontyTimes, MontyExact, Zenon DEF Root
<1>8. PICK t \in Zq : /\ t = mq_montymul(a[hi], GMb[nb + i + 1])
                      /\ t = Times(a[hi], Root(nb, i))
  BY <1>7, Zenon
<1>9. mq_add(a[lo], t) = Plus(a[lo], t) /\ mq_sub(a[lo], t) = Minus(a[lo], t)
  BY <1>6, AddExact, SubExact, Zenon DEF Plus, Minus
<1>. QED BY <1>5, <1>8, <1>9, Zenon

LEMMA InttCells ==
  ASSUME NEW nb \in Blocks, NEW ht \in Blocks, n = 2 * nb * ht, NEW a \in Array
  PROVE  Backward(a, InttLayer(a, nb), nb, ht)
<1>. SUFFICES ASSUME NEW i \in 0..(nb - 1), NEW j \in 0..(ht - 1),
                     NEW lo, lo = Low(ht, i, j), NEW hi, hi = High(ht, i, j)
              PROVE  /\ InttLayer(a, nb)[lo] = Plus(a[lo], a[hi])
                     /\ InttLayer(a, nb)[hi] = Times(Minus(a[lo], a[hi]), IRoot(nb, i))
  BY DEF Backward
<1>1. /\ lo \in Index /\ hi \in Index /\ hi = lo + ht /\ lo = hi - ht
      /\ lo \div ht = 2 * i /\ hi \div ht = 2 * i + 1
      /\ lo \div (2 * ht) = i /\ hi \div (2 * ht) = i /\ nb + i + 1 \in 1..16
  BY Cells
<1>2. (n \div nb) \div 2 = ht
  BY HalfIs
<1>3. (2 * i) % 2 = 0 /\ (2 * i + 1) % 2 # 0
  <2>1. i \in Int
    BY DEF Blocks
  <2>. QED BY <2>1, SMT
<1>4. iGMb[nb + i + 1] \in Zq
  BY <1>1, Tables, Zenon
<1>5. /\ InttLayer(a, nb)[lo] = mq_add(a[lo], a[hi])
      /\ InttLayer(a, nb)[hi] = mq_montymul(mq_sub(a[lo], a[hi]), iGMb[nb + i + 1])
  BY <1>1, <1>2, <1>3, Zenon DEF InttLayer
<1>6. a[lo] \in Zq /\ a[hi] \in Zq
  BY <1>1, ArrayCell, Zenon
<1>7. mq_sub(a[lo], a[hi]) \in Zq /\ mq_sub(a[lo], a[hi]) = Minus(a[lo], a[hi])
  BY <1>6, SubExact, Zenon DEF Minus
<1>8. mq_montymul(mq_sub(a[lo], a[hi]), iGMb[nb + i + 1])
        = Times(Minus(a[lo], a[hi]), IRoot(nb, i))
  BY <1>4, <1>7, MontyTimes, Zenon DEF IRoot
<1>. QED BY <1>5, <1>6, <1>8, AddExact, Zenon DEF Plus

LEMMA LayerArray ==
  ASSUME NEW nb \in Blocks, NEW ht \in Blocks, n = 2 * nb * ht, NEW a \in Array
  PROVE  NttLayer(a, nb) \in Array /\ InttLayer(a, nb) \in Array
<1>1. 2 * nb <= n
  BY HalfIs
<1>. QED BY <1>1, NttLayerRange, InttLayerRange, Zenon DEF Array

-----------------------------------------------------------------------------
(* The multiplication by X in every block of length l.                     *)
XMul(a, nb, l) ==
  [k \in Index |-> IF k % l = 0 THEN Times(Zeta(nb, k \div l), a[(k + l) - 1]) ELSE a[k - 1]]

(* What it makes of a block, seen as two halves or as two blocks.           *)
Whole(a, x, nb, ht) ==
  \A i \in 0..(nb - 1), j \in 0..(ht - 1) :
    /\ x[Low(ht, i, j)] = IF j = 0 THEN Times(Zeta(nb, i), a[High(ht, i, ht - 1)])
                          ELSE a[Low(ht, i, j - 1)]
    /\ x[High(ht, i, j)] = IF j = 0 THEN a[Low(ht, i, ht - 1)]
                           ELSE a[High(ht, i, j - 1)]

Halves(a, y, nb, ht) ==
  \A i \in 0..(nb - 1), j \in 0..(ht - 1) :
    /\ y[Low(ht, i, j)] = IF j = 0 THEN Times(Root(nb, i), a[Low(ht, i, ht - 1)])
                          ELSE a[Low(ht, i, j - 1)]
    /\ y[High(ht, i, j)] = IF j = 0 THEN Times(Minus(0, Root(nb, i)), a[High(ht, i, ht - 1)])
                           ELSE a[High(ht, i, j - 1)]

LEMMA XCells ==
  ASSUME NEW nb \in Blocks, NEW ht \in Blocks, n = 2 * nb * ht,
         NEW a
  PROVE  Whole(a, XMul(a, nb, 2 * ht), nb, ht) /\ Halves(a, XMul(a, 2 * nb, ht), nb, ht)
<1>. SUFFICES ASSUME NEW i \in 0..(nb - 1), NEW j \in 0..(ht - 1)
              PROVE  LET x == XMul(a, nb, 2 * ht)
                         y == XMul(a, 2 * nb, ht)
                     IN  /\ x[Low(ht, i, j)] = IF j = 0 THEN Times(Zeta(nb, i), a[High(ht, i, ht - 1)])
                                               ELSE a[Low(ht, i, j - 1)]
                         /\ x[High(ht, i, j)] = IF j = 0 THEN a[Low(ht, i, ht - 1)]
                                                ELSE a[High(ht, i, j - 1)]
                         /\ y[Low(ht, i, j)] = IF j = 0 THEN Times(Root(nb, i), a[Low(ht, i, ht - 1)])
                                               ELSE a[Low(ht, i, j - 1)]
                         /\ y[High(ht, i, j)] = IF j = 0 THEN Times(Minus(0, Root(nb, i)), a[High(ht, i, ht - 1)])
                                                ELSE a[High(ht, i, j - 1)]
  BY DEF Whole, Halves
<1>1. PICK lo, hi : lo = Low(ht, i, j) /\ hi = High(ht, i, j)
  OBVIOUS
<1>2. /\ lo \in Index /\ hi \in Index
      /\ lo \div ht = 2 * i /\ hi \div ht = 2 * i + 1
      /\ lo \div (2 * ht) = i /\ hi \div (2 * ht) = i
      /\ lo % ht = j /\ hi % ht = j
      /\ lo % (2 * ht) = j /\ hi % (2 * ht) = ht + j
  BY <1>1, Cells
<1>3. Zeta(2 * nb, 2 * i) = Root(nb, i) /\ Zeta(2 * nb, 2 * i + 1) = Minus(0, Root(nb, i))
  BY ZetaNext
<1>4. ht \in Int /\ ht > 0 /\ i \in Int /\ j \in Int /\ 0 <= j /\ j < ht /\ ht + j # 0
  BY SMT DEF Blocks
<1>5. j = 0 => /\ (lo + 2 * ht) - 1 = High(ht, i, ht - 1) /\ hi - 1 = Low(ht, i, ht - 1)
               /\ (lo + ht) - 1 = Low(ht, i, ht - 1) /\ (hi + ht) - 1 = High(ht, i, ht - 1)
  <2>1. PICK p \in Int : p = 2 * ht * i
    BY <1>4, SMT
  <2>. QED BY <1>1, <1>4, <2>1 DEF Low, High
<1>6. j # 0 => /\ lo - 1 = Low(ht, i, j - 1) /\ hi - 1 = High(ht, i, j - 1)
  <2>1. PICK p \in Int : p = 2 * ht * i
    BY <1>4, SMT
  <2>. QED BY <1>1, <1>4, <2>1 DEF Low, High
<1>7. CASE j = 0
  BY <1>1, <1>2, <1>3, <1>4, <1>5, <1>7, Zenon DEF XMul
<1>8. CASE j # 0
  BY <1>1, <1>2, <1>3, <1>4, <1>6, <1>8, Zenon DEF XMul
<1>. QED BY <1>7, <1>8

LEMMA OpsType ==
  ASSUME NEW x \in Zq, NEW y \in Zq
  PROVE  Plus(x, y) \in Zq /\ Minus(x, y) \in Zq /\ Times(x, y) \in Zq
BY ZqIsInt, EqmOps, Zenon

LEMMA Units ==
  0 \in Zq /\ 1 \in Zq /\ 2 \in Zq
<1>1. 0 \in Int /\ 0 <= 0 /\ 0 < Q /\ 1 \in Int /\ 0 <= 1 /\ 1 < Q /\ 2 \in Int /\ 0 <= 2 /\ 2 < Q
  BY SMT DEF Q
<1>. QED BY <1>1, IsResidue, Zenon

(* Multiplying by X goes with every layer.                                 *)
LEMMA XArray ==
  ASSUME NEW nb \in Blocks, NEW ht \in Blocks, n = 2 * nb * ht, NEW a \in Array
  PROVE  XMul(a, nb, 2 * ht) \in Array
<1>1. ASSUME NEW k \in Index PROVE XMul(a, nb, 2 * ht)[k] \in Zq
  <2>1. PICK i \in 0..(nb - 1), j \in 0..(ht - 1) : k = Low(ht, i, j) \/ k = High(ht, i, j)
    BY CellOf
  <2>2. ht - 1 \in 0..(ht - 1) /\ (j # 0 => j - 1 \in 0..(ht - 1))
    BY DEF Blocks
  <2>3. \A q \in 0..(ht - 1) : a[Low(ht, i, q)] \in Zq /\ a[High(ht, i, q)] \in Zq
    BY Cells, ArrayCell, Zenon
  <2>4. Zeta(nb, i) \in Zq
    BY ZetaNext
  <2>5. Times(Zeta(nb, i), a[High(ht, i, ht - 1)]) \in Zq
    BY <2>2, <2>3, <2>4, OpsType, Zenon
  <2>6. Whole(a, XMul(a, nb, 2 * ht), nb, ht)
    BY XCells
  <2>7. PICK x : x = XMul(a, nb, 2 * ht)
    OBVIOUS
  <2>8. x[Low(ht, i, j)] \in Zq /\ x[High(ht, i, j)] \in Zq
    BY <2>2, <2>3, <2>5, <2>6, <2>7 DEF Whole
  <2>. QED BY <2>1, <2>7, <2>8, Zenon
<1>2. XMul(a, nb, 2 * ht) = [k \in Index |-> XMul(a, nb, 2 * ht)[k]]
  BY DEF XMul
<1>. QED BY <1>1, <1>2, Zenon DEF Array

LEMMA LayerX ==
  ASSUME NEW nb \in Blocks, NEW ht \in Blocks, n = 2 * nb * ht, NEW a \in Array
  PROVE  NttLayer(XMul(a, nb, 2 * ht), nb) = XMul(NttLayer(a, nb), 2 * nb, ht)
<1>1. PICK x \in Array : x = XMul(a, nb, 2 * ht)
  BY XArray
<1>2. PICK b \in Array : b = NttLayer(a, nb)
  BY LayerArray
<1>3. PICK y : y = XMul(b, 2 * nb, ht)
  OBVIOUS
<1>4. PICK c \in Array : c = NttLayer(x, nb)
  BY LayerArray
<1>5. Butterflies(a, b, nb, ht) /\ Butterflies(x, c, nb, ht)
  BY <1>2, <1>4, LayerCells, Zenon
<1>6. Whole(a, x, nb, ht) /\ Halves(b, y, nb, ht)
  BY <1>1, <1>3, XCells, Zenon
<1>7. ASSUME NEW i \in 0..(nb - 1), NEW j \in 0..(ht - 1)
      PROVE  c[Low(ht, i, j)] = y[Low(ht, i, j)] /\ c[High(ht, i, j)] = y[High(ht, i, j)]
  <2>1. PICK s \in Zq : s = Root(nb, i)
    BY Roots
  <2>2. Zeta(nb, i) = Times(s, s)
    BY <2>1, Roots
  <2>3. \A q \in 0..(ht - 1) : a[Low(ht, i, q)] \in Zq /\ a[High(ht, i, q)] \in Zq
    BY Cells, ArrayCell, Zenon
  <2>4. \A q \in 0..(ht - 1) :
          /\ b[Low(ht, i, q)] = Plus(a[Low(ht, i, q)], Times(a[High(ht, i, q)], s))
          /\ b[High(ht, i, q)] = Minus(a[Low(ht, i, q)], Times(a[High(ht, i, q)], s))
    BY <1>5, <2>1, Zenon DEF Butterflies
  <2>5. /\ c[Low(ht, i, j)] = Plus(x[Low(ht, i, j)], Times(x[High(ht, i, j)], s))
        /\ c[High(ht, i, j)] = Minus(x[Low(ht, i, j)], Times(x[High(ht, i, j)], s))
    BY <1>5, <2>1, Zenon DEF Butterflies
  <2>6. /\ x[Low(ht, i, j)] = IF j = 0 THEN Times(Times(s, s), a[High(ht, i, ht - 1)])
                              ELSE a[Low(ht, i, j - 1)]
        /\ x[High(ht, i, j)] = IF j = 0 THEN a[Low(ht, i, ht - 1)]
                               ELSE a[High(ht, i, j - 1)]
    BY <1>6, <2>2, Zenon DEF Whole
  <2>7. /\ y[Low(ht, i, j)] = IF j = 0 THEN Times(s, b[Low(ht, i, ht - 1)])
                              ELSE b[Low(ht, i, j - 1)]
        /\ y[High(ht, i, j)] = IF j = 0 THEN Times(Minus(0, s), b[High(ht, i, ht - 1)])
                               ELSE b[High(ht, i, j - 1)]
    BY <1>6, <2>1, Zenon DEF Halves
  <2>8. ht - 1 \in 0..(ht - 1) /\ (j # 0 => j - 1 \in 0..(ht - 1))
    BY DEF Blocks
  <2>9. CASE j = 0
    <3>1. PICK u \in Zq, v \in Zq : u = a[Low(ht, i, ht - 1)] /\ v = a[High(ht, i, ht - 1)]
      BY <2>3, <2>8, Zenon
    <3>2. /\ Plus(Times(Times(s, s), v), Times(u, s)) = Times(s, Plus(u, Times(v, s)))
          /\ Minus(Times(Times(s, s), v), Times(u, s)) = Times(Minus(0, s), Minus(u, Times(v, s)))
      BY ShiftSum, Zenon
    <3>3. b[Low(ht, i, ht - 1)] = Plus(u, Times(v, s))
          /\ b[High(ht, i, ht - 1)] = Minus(u, Times(v, s))
      BY <2>4, <2>8, <3>1, Zenon
    <3>4. x[Low(ht, i, j)] = Times(Times(s, s), v) /\ x[High(ht, i, j)] = u
      BY <2>6, <2>9, <3>1, Zenon
    <3>5. y[Low(ht, i, j)] = Times(s, Plus(u, Times(v, s)))
          /\ y[High(ht, i, j)] = Times(Minus(0, s), Minus(u, Times(v, s)))
      BY <2>7, <2>9, <3>3, Zenon
    <3>. QED BY <2>5, <3>2, <3>4, <3>5, Zenon
  <2>10. CASE j # 0
    BY <2>4, <2>5, <2>6, <2>7, <2>8, <2>10, Zenon
  <2>. QED BY <2>9, <2>10, Zenon
<1>8. Agree(c, y, nb, ht)
  BY <1>7, Zenon DEF Agree
<1>9. y = [k \in Index |-> y[k]]
  BY <1>3 DEF XMul
<1>10. c = y
  BY <1>8, <1>9, SameCells, Zenon
<1>. QED BY <1>1, <1>2, <1>3, <1>4, <1>10, Zenon

(* A layer is linear.                                                      *)
Comb(a, c, b) == [k \in Index |-> Plus(a[k], Times(c, b[k]))]

LEMMA CombArray ==
  ASSUME NEW a \in Array, NEW b \in Array, NEW c \in Zq
  PROVE  Comb(a, c, b) \in Array
<1>1. ASSUME NEW k \in Index PROVE Plus(a[k], Times(c, b[k])) \in Zq
  <2>1. a[k] \in Zq /\ b[k] \in Zq
    BY ArrayCell, Zenon
  <2>2. Times(c, b[k]) \in Zq
    BY <2>1, OpsType, Zenon
  <2>. QED BY <2>1, <2>2, OpsType, Zenon
<1>. QED BY <1>1, Zenon DEF Comb, Array

LEMMA LayerComb ==
  ASSUME NEW nb \in Blocks, NEW ht \in Blocks, n = 2 * nb * ht,
         NEW a \in Array, NEW b \in Array, NEW c \in Zq
  PROVE  NttLayer(Comb(a, c, b), nb) = Comb(NttLayer(a, nb), c, NttLayer(b, nb))
<1>1. PICK x \in Array : x = Comb(a, c, b)
  BY CombArray
<1>2. PICK d \in Array, e \in Array : d = NttLayer(a, nb) /\ e = NttLayer(b, nb)
  BY LayerArray
<1>3. PICK y \in Array : y = Comb(d, c, e)
  BY CombArray
<1>4. PICK p \in Array : p = NttLayer(x, nb)
  BY LayerArray
<1>5. Butterflies(a, d, nb, ht) /\ Butterflies(b, e, nb, ht) /\ Butterflies(x, p, nb, ht)
  BY <1>2, <1>4, LayerCells, Zenon
<1>6. /\ \A k \in Index : x[k] = Plus(a[k], Times(c, b[k]))
      /\ \A k \in Index : y[k] = Plus(d[k], Times(c, e[k]))
  BY <1>1, <1>3 DEF Comb
<1>7. ASSUME NEW i \in 0..(nb - 1), NEW j \in 0..(ht - 1)
      PROVE  p[Low(ht, i, j)] = y[Low(ht, i, j)] /\ p[High(ht, i, j)] = y[High(ht, i, j)]
  <2>1. PICK s \in Zq : s = Root(nb, i)
    BY Roots
  <2>2. PICK lo \in Index, hi \in Index : lo = Low(ht, i, j) /\ hi = High(ht, i, j)
    BY Cells
  <2>3. PICK al \in Zq, ah \in Zq, bl \in Zq, bh \in Zq :
          al = a[lo] /\ ah = a[hi] /\ bl = b[lo] /\ bh = b[hi]
    BY ArrayCell, Zenon
  <2>4. /\ p[lo] = Plus(x[lo], Times(x[hi], s)) /\ p[hi] = Minus(x[lo], Times(x[hi], s))
    BY <1>5, <2>1, <2>2, Zenon DEF Butterflies
  <2>5. /\ d[lo] = Plus(al, Times(ah, s)) /\ d[hi] = Minus(al, Times(ah, s))
    BY <1>5, <2>1, <2>2, <2>3, Zenon DEF Butterflies
  <2>6. /\ e[lo] = Plus(bl, Times(bh, s)) /\ e[hi] = Minus(bl, Times(bh, s))
    BY <1>5, <2>1, <2>2, <2>3, Zenon DEF Butterflies
  <2>7. x[lo] = Plus(al, Times(c, bl)) /\ x[hi] = Plus(ah, Times(c, bh))
    BY <1>6, <2>2, <2>3, Zenon
  <2>8. y[lo] = Plus(d[lo], Times(c, e[lo])) /\ y[hi] = Plus(d[hi], Times(c, e[hi]))
    BY <1>6, <2>2, Zenon
  <2>9. /\ Plus(Plus(al, Times(c, bl)), Times(Plus(ah, Times(c, bh)), s))
             = Plus(Plus(al, Times(ah, s)), Times(c, Plus(bl, Times(bh, s))))
        /\ Minus(Plus(al, Times(c, bl)), Times(Plus(ah, Times(c, bh)), s))
             = Plus(Minus(al, Times(ah, s)), Times(c, Minus(bl, Times(bh, s))))
    BY LinearSum
  <2>10. p[lo] = y[lo] /\ p[hi] = y[hi]
    BY <2>4, <2>5, <2>6, <2>7, <2>8, <2>9, Zenon
  <2>. QED BY <2>2, <2>10, Zenon
<1>8. Agree(p, y, nb, ht)
  BY <1>7, Zenon DEF Agree
<1>9. y = [k \in Index |-> y[k]]
  BY DEF Array
<1>10. p = y
  BY <1>8, <1>9, SameCells, Zenon
<1>. QED BY <1>1, <1>2, <1>3, <1>4, <1>10, Zenon

(* 1 in every block of length l. *)
Unit(l) == [k \in Index |-> IF k % l = 0 THEN 1 ELSE 0]

LEMMA UnitArray ==
  ASSUME NEW l
  PROVE  Unit(l) \in Array
BY Units, Zenon DEF Unit, Array

LEMMA LayerUnit ==
  ASSUME NEW nb \in Blocks, NEW ht \in Blocks, n = 2 * nb * ht
  PROVE  NttLayer(Unit(2 * ht), nb) = Unit(ht)
<1>1. PICK x \in Array : x = Unit(2 * ht)
  BY UnitArray
<1>2. PICK y \in Array : y = Unit(ht)
  BY UnitArray
<1>3. PICK p \in Array : p = NttLayer(x, nb)
  BY LayerArray
<1>4. \A u \in Zq, s \in Zq : Plus(u, Times(0, s)) = u /\ Minus(u, Times(0, s)) = u
  <2> SUFFICES ASSUME NEW u \in Zq, NEW s \in Zq
               PROVE  Plus(u, Times(0, s)) = u /\ Minus(u, Times(0, s)) = u
    OBVIOUS
  <2>1. u \in Int /\ 0 <= u /\ u < Q /\ s \in Int
    BY OfResidue, Zenon
  <2>2. Times(0, s) = 0
    <3>1. 0 * s = 0
      BY <2>1, SMT
    <3>. QED BY <3>1, SMT DEF Times, Q
  <2>. QED BY <2>1, <2>2, SMT DEF Plus, Minus, Q
<1>5. ASSUME NEW i \in 0..(nb - 1), NEW j \in 0..(ht - 1)
      PROVE  p[Low(ht, i, j)] = y[Low(ht, i, j)] /\ p[High(ht, i, j)] = y[High(ht, i, j)]
  <2>1. PICK s \in Zq : s = Root(nb, i)
    BY Roots
  <2>2. PICK lo, hi : lo = Low(ht, i, j) /\ hi = High(ht, i, j)
    OBVIOUS
  <2>3. /\ lo \in Index /\ hi \in Index /\ lo % ht = j /\ hi % ht = j
        /\ lo % (2 * ht) = j /\ hi % (2 * ht) = ht + j
    BY <2>2, Cells
  <2>4. ht + j # 0
    BY DEF Blocks
  <2>5. x[lo] = IF j = 0 THEN 1 ELSE 0
    BY <1>1, <2>3, Zenon DEF Unit
  <2>6. x[hi] = 0
    BY <1>1, <2>3, <2>4, Zenon DEF Unit
  <2>7. y[lo] = x[lo] /\ y[hi] = x[lo]
    BY <1>2, <2>3, <2>5, Zenon DEF Unit
  <2>8. p[lo] = Plus(x[lo], Times(x[hi], s)) /\ p[hi] = Minus(x[lo], Times(x[hi], s))
    BY <1>3, <2>1, <2>2, LayerCells, Zenon DEF Butterflies
  <2>9. x[lo] \in Zq
    BY <2>3, ArrayCell, Zenon
  <2>. QED BY <1>4, <2>1, <2>2, <2>6, <2>7, <2>8, <2>9, Zenon
<1>6. Agree(p, y, nb, ht)
  BY <1>5, Zenon DEF Agree
<1>7. y = [k \in Index |-> y[k]]
  BY DEF Array
<1>8. p = y
  BY <1>6, <1>7, SameCells, Zenon
<1>. QED BY <1>1, <1>2, <1>3, <1>8, Zenon

(* The blocks of a layer and their length. *)
LEMMA LayerSizes ==
  ASSUME NEW j \in 0..(logn - 1)
  PROVE  \E ht \in Blocks : /\ n = 2 * 2^j * ht /\ n \div 2^j = 2 * ht
                            /\ n \div 2^(j + 1) = ht /\ 2^(j + 1) = 2 * 2^j
<1>1. logn = 1 \/ logn = 2 \/ logn = 3 \/ logn = 4
  BY DegreeAssumption, SMT
<1>2. logn = 1 => n = 2
  BY SMT DEF n
<1>3. /\ 2^0 = 1 /\ 2^1 = 2 /\ 2^2 = 4 /\ 2^3 = 8 /\ 2^4 = 16
      /\ 0 + 1 = 1 /\ 1 + 1 = 2 /\ 2 + 1 = 3 /\ 3 + 1 = 4
  BY SMT
<1>4. /\ 2 * 1 = 2 /\ 2 * 2 = 4 /\ 2 * 4 = 8 /\ 2 * 8 = 16
      /\ 4 * 1 = 4 /\ 4 * 2 = 8 /\ 4 * 4 = 16 /\ 8 * 1 = 8 /\ 8 * 2 = 16 /\ 16 * 1 = 16
      /\ 2 \div 1 = 2 /\ 2 \div 2 = 1 /\ 4 \div 1 = 4 /\ 4 \div 2 = 2 /\ 4 \div 4 = 1
      /\ 8 \div 1 = 8 /\ 8 \div 2 = 4 /\ 8 \div 4 = 2 /\ 8 \div 8 = 1
      /\ 16 \div 1 = 16 /\ 16 \div 2 = 8 /\ 16 \div 4 = 4 /\ 16 \div 8 = 2 /\ 16 \div 16 = 1
  BY SMT
<1>5. 1 \in Blocks /\ 2 \in Blocks /\ 4 \in Blocks /\ 8 \in Blocks
  BY DEF Blocks
<1>6. CASE j = 0
  <2>1. n = 2 \/ n = 4 \/ n = 8 \/ n = 16
    BY Degree, SMT
  <2>. QED BY <1>3, <1>4, <1>5, <1>6, <2>1, Zenon
<1>7. CASE j = 1
  <2>1. n = 4 \/ n = 8 \/ n = 16
    BY <1>1, <1>7, DegreeOf, SMT
  <2>. QED BY <1>3, <1>4, <1>5, <1>7, <2>1, Zenon
<1>8. CASE j = 2
  <2>1. n = 8 \/ n = 16
    BY <1>1, <1>8, DegreeOf, SMT
  <2>. QED BY <1>3, <1>4, <1>5, <1>8, <2>1, Zenon
<1>9. CASE j = 3
  <2>1. n = 16
    BY <1>1, <1>9, DegreeOf, SMT
  <2>. QED BY <1>3, <1>4, <1>5, <1>9, <2>1, Zenon
<1>10. j = 0 \/ j = 1 \/ j = 2 \/ j = 3
  BY <1>1, SMT
<1>. QED BY <1>6, <1>7, <1>8, <1>9, <1>10, Zenon

(* One layer more. *)
LEMMA LayerAfter ==
  ASSUME NEW a \in Array, NEW j \in 0..(logn - 1)
  PROVE  /\ Layered(a, j + 1) = NttLayer(Layered(a, j), 2^j)
         /\ Layered(a, j) \in Array /\ Layered(a, j + 1) \in Array
<1>1. j + 1 \in 1..logn /\ (j + 1) - 1 = j /\ j \in 0..logn /\ j + 1 \in 0..logn
  BY DegreeAssumption, SMT
<1>. QED BY <1>1, LayerByLayer, Zenon

(* The layers are linear. *)
LEMMA LayeredComb ==
  ASSUME NEW a \in Array, NEW b \in Array, NEW c \in Zq
  PROVE  \A j \in 0..logn : Layered(Comb(a, c, b), j) = Comb(Layered(a, j), c, Layered(b, j))
<1>1. PICK x \in Array : x = Comb(a, c, b)
  BY CombArray
<1> DEFINE P == {j \in 0..logn : Layered(x, j) = Comb(Layered(a, j), c, Layered(b, j))}
<1>2. logn \in Nat
  BY DegreeAssumption, SMT
<1>3. 0 \in P
  BY <1>1, <1>2, LayerByLayer
<1>4. ASSUME NEW j \in 0..(logn - 1), j \in P PROVE j + 1 \in P
  <2>1. PICK d \in Array, e \in Array : d = Layered(a, j) /\ e = Layered(b, j)
    BY LayerAfter
  <2>2. /\ Layered(a, j + 1) = NttLayer(d, 2^j) /\ Layered(b, j + 1) = NttLayer(e, 2^j)
        /\ Layered(x, j + 1) = NttLayer(Comb(d, c, e), 2^j)
    BY <1>4, <2>1, LayerAfter
  <2>3. PICK ht \in Blocks, nb \in Blocks : nb = 2^j /\ n = 2 * nb * ht
    BY LayerSizes, BlockOfLayer, Zenon
  <2>4. NttLayer(Comb(d, c, e), nb) = Comb(NttLayer(d, nb), c, NttLayer(e, nb))
    BY <2>3, LayerComb, Zenon
  <2>5. j + 1 \in 0..logn
    BY <1>2
  <2>. QED BY <2>2, <2>3, <2>4, <2>5
<1> HIDE DEF P
<1>5. \A j \in 0..logn : j \in P
  BY <1>2, <1>3, <1>4, UpTo
<1>. QED BY <1>1, <1>5 DEF P

(* They turn X into its value in each block. *)
LEMMA LayeredX ==
  ASSUME NEW a \in Array
  PROVE  \A j \in 0..logn : Layered(XMul(a, 1, n), j) = XMul(Layered(a, j), 2^j, n \div 2^j)
<1>1. logn \in Nat /\ 0 \in 0..(logn - 1)
  BY DegreeAssumption, SMT
<1>2. 2^0 = 1 /\ n \div 1 = n
  BY Degree, SMT
<1>3. XMul(a, 1, n) \in Array
  <2>1. PICK ht \in Blocks : n = 2 * 2^0 * ht
    BY <1>1, LayerSizes, Zenon
  <2>2. n = 2 * 1 * ht /\ n = 2 * ht
    BY <1>2, <2>1, SMT DEF Blocks
  <2>3. 1 \in Blocks
    BY DEF Blocks
  <2>4. XMul(a, 1, 2 * ht) \in Array
    BY <2>2, <2>3, XArray, Zenon
  <2>. QED BY <2>2, <2>4
<1>4. PICK x \in Array : x = XMul(a, 1, n)
  BY <1>3
<1> DEFINE P == {j \in 0..logn : Layered(x, j) = XMul(Layered(a, j), 2^j, n \div 2^j)}
<1>5. 0 \in P
  <2>1. Layered(x, 0) = x /\ Layered(a, 0) = a
    BY LayerByLayer
  <2>. QED BY <1>1, <1>2, <1>4, <2>1
<1>6. ASSUME NEW j \in 0..(logn - 1), j \in P PROVE j + 1 \in P
  <2>1. PICK d \in Array : d = Layered(a, j)
    BY LayerAfter
  <2>2. PICK ht \in Blocks, nb \in Blocks :
          /\ nb = 2^j /\ n = 2 * nb * ht /\ n \div 2^j = 2 * ht
          /\ n \div 2^(j + 1) = ht /\ 2^(j + 1) = 2 * nb
    BY LayerSizes, BlockOfLayer, Zenon
  <2>3. Layered(a, j + 1) = NttLayer(d, nb) /\ Layered(x, j + 1) = NttLayer(Layered(x, j), nb)
    BY <2>1, <2>2, LayerAfter
  <2>4. Layered(x, j) = XMul(d, nb, 2 * ht)
    BY <1>6, <2>1, <2>2
  <2>5. NttLayer(XMul(d, nb, 2 * ht), nb) = XMul(NttLayer(d, nb), 2 * nb, ht)
    BY <2>2, LayerX, Zenon
  <2>6. j + 1 \in 0..logn
    BY <1>1
  <2>7. Layered(x, j + 1) = XMul(Layered(a, j + 1), 2^(j + 1), n \div 2^(j + 1))
    BY <2>2, <2>3, <2>4, <2>5, Zenon
  <2>. QED BY <2>6, <2>7
<1> HIDE DEF P
<1>7. \A j \in 0..logn : j \in P
  BY <1>1, <1>5, <1>6, UpTo
<1>. QED BY <1>4, <1>7 DEF P

LEMMA LayeredUnit ==
  \A j \in 0..logn : Layered(Unit(n), j) = Unit(n \div 2^j)
<1>1. logn \in Nat
  BY DegreeAssumption, SMT
<1>2. 2^0 = 1 /\ n \div 1 = n
  BY Degree, SMT
<1>3. PICK x \in Array : x = Unit(n)
  BY UnitArray
<1> DEFINE P == {j \in 0..logn : Layered(x, j) = Unit(n \div 2^j)}
<1>4. 0 \in P
  <2>1. Layered(x, 0) = x
    BY LayerByLayer
  <2>. QED BY <1>1, <1>2, <1>3, <2>1
<1>5. ASSUME NEW j \in 0..(logn - 1), j \in P PROVE j + 1 \in P
  <2>1. PICK ht \in Blocks, nb \in Blocks :
          /\ nb = 2^j /\ n = 2 * nb * ht /\ n \div 2^j = 2 * ht /\ n \div 2^(j + 1) = ht
    BY LayerSizes, BlockOfLayer, Zenon
  <2>2. Layered(x, j + 1) = NttLayer(Layered(x, j), nb)
    BY <2>1, LayerAfter
  <2>3. Layered(x, j) = Unit(2 * ht)
    BY <1>5, <2>1
  <2>4. NttLayer(Unit(2 * ht), nb) = Unit(ht)
    BY <2>1, LayerUnit, Zenon
  <2>5. j + 1 \in 0..logn
    BY <1>1
  <2>6. Layered(x, j + 1) = Unit(n \div 2^(j + 1))
    BY <2>1, <2>2, <2>3, <2>4, Zenon
  <2>. QED BY <2>5, <2>6
<1> HIDE DEF P
<1>6. \A j \in 0..logn : j \in P
  BY <1>1, <1>4, <1>5, UpTo
<1>. QED BY <1>3, <1>6 DEF P

(* What the transform makes of sums, of multiples of X and of 1, value by  *)
(* value.                                                                  *)
LEMMA LastLayer ==
  /\ logn \in 0..logn /\ 2^logn = n /\ n \div n = 1
  /\ \A k \in Index : k % 1 = 0 /\ k \div 1 = k /\ (k + 1) - 1 = k
<1>1. logn \in 0..logn /\ 2^logn = n
  BY DegreeAssumption, SMT DEF n
<1>2. n \div n = 1
  BY Degree, SMT
<1>3. \A k \in Index : k \in Int
  BY Degree, SMT DEF Index
<1>4. \A k \in Int : k % 1 = 0 /\ k \div 1 = k /\ (k + 1) - 1 = k
  BY SMT
<1>. QED BY <1>1, <1>2, <1>3, <1>4, Zenon

LEMMA NttOfComb ==
  ASSUME NEW a \in Array, NEW b \in Array, NEW c \in Zq, NEW k \in Index
  PROVE  mq_NTT(Comb(a, c, b))[k] = Plus(mq_NTT(a)[k], Times(c, mq_NTT(b)[k]))
<1>1. Layered(Comb(a, c, b), logn) = Comb(Layered(a, logn), c, Layered(b, logn))
  BY LastLayer, LayeredComb, Zenon
<1>2. mq_NTT(Comb(a, c, b)) = Comb(mq_NTT(a), c, mq_NTT(b))
  BY <1>1, CombArray, LayerByLayer
<1>. QED BY <1>2 DEF Comb

(* The value of X that stands behind each value of the transform.          *)
LEMMA Points ==
  ASSUME NEW k \in Index
  PROVE  Zeta(n, k) \in Zq
<1>1. PICK nb \in Blocks : n = 2 * nb
  BY Degree, SMT DEF Blocks
<1>2. PICK i \in 0..(nb - 1) : k = 2 * i \/ k = 2 * i + 1
  <2> DEFINE i == k \div 2
  <2>1. nb \in Int /\ k \in Int /\ 0 <= k /\ k < 2 * nb
    BY <1>1, SMT DEF Blocks, Index
  <2>2. i \in 0..(nb - 1) /\ (k = 2 * i \/ k = 2 * i + 1)
    BY <2>1, SMT
  <2>. QED BY <2>2
<1>3. PICK s \in Zq : s = Root(nb, i)
  BY Roots
<1>4. Minus(0, s) \in Zq
  BY OpsType, Units, Zenon
<1>5. Zeta(2 * nb, 2 * i) = s /\ Zeta(2 * nb, 2 * i + 1) = Minus(0, s)
  BY <1>3, ZetaNext, Zenon
<1>. QED BY <1>1, <1>2, <1>4, <1>5, Zenon

LEMMA NttOfX ==
  ASSUME NEW a \in Array, NEW k \in Index
  PROVE  mq_NTT(XMul(a, 1, n))[k] = Times(Zeta(n, k), mq_NTT(a)[k])
<1>1. Layered(XMul(a, 1, n), logn) = XMul(Layered(a, logn), n, 1)
  BY LastLayer, LayeredX, Zenon
<1>2. XMul(a, 1, n) \in Array
  <2>1. PICK ht \in Blocks : n = 2 * ht /\ n = 2 * 1 * ht
    BY Degree, SMT DEF Blocks
  <2>2. 1 \in Blocks
    BY DEF Blocks
  <2>3. XMul(a, 1, 2 * ht) \in Array
    BY <2>1, <2>2, XArray, Zenon
  <2>. QED BY <2>1, <2>3
<1>3. mq_NTT(XMul(a, 1, n)) = XMul(mq_NTT(a), n, 1)
  BY <1>1, <1>2, LayerByLayer
<1>. QED BY <1>3, LastLayer, Zenon DEF XMul

LEMMA NttOfUnit ==
  ASSUME NEW k \in Index
  PROVE  mq_NTT(Unit(n))[k] = 1
<1>1. Layered(Unit(n), logn) = Unit(1)
  BY LastLayer, LayeredUnit, Zenon
<1>2. mq_NTT(Unit(n)) = Unit(1)
  BY <1>1, UnitArray, LayerByLayer
<1>. QED BY <1>2, LastLayer, Zenon DEF Unit

-----------------------------------------------------------------------------
(* b times X^i, modulo X^n + 1. *)
Shift(b, i) ==
  [k \in Index |-> (IF i <= k THEN b[k - i] ELSE -b[k - i + n]) % Q]

LEMMA ShiftCell ==
  ASSUME NEW b \in Array, NEW i \in Index, NEW k \in Index
  PROVE  /\ i <= k => k - i \in Index /\ b[k - i] \in Zq /\ Shift(b, i)[k] = b[k - i] % Q
         /\ ~(i <= k) => /\ k - i + n \in Index /\ b[k - i + n] \in Zq
                         /\ Shift(b, i)[k] = (-b[k - i + n]) % Q
<1>1. /\ i <= k => k - i \in Index
      /\ ~(i <= k) => k - i + n \in Index
  BY Degree, SMT DEF Index
<1>. QED BY <1>1, ArrayCell, Zenon DEF Shift

LEMMA ShiftArray ==
  ASSUME NEW b \in Array, NEW i \in Index
  PROVE  Shift(b, i) \in Array
<1>1. \A x \in Zq : x % Q \in Zq /\ (-x) % Q \in Zq
  <2> SUFFICES ASSUME NEW x \in Zq PROVE x % Q \in Zq /\ (-x) % Q \in Zq
    OBVIOUS
  <2>1. x \in Int /\ -x \in Int
    BY OfResidue, SMT
  <2>. QED BY <2>1, EqmMod, Zenon
<1>2. ASSUME NEW k \in Index PROVE Shift(b, i)[k] \in Zq
  <2>1. CASE i <= k
    BY <1>1, <2>1, ShiftCell
  <2>2. CASE ~(i <= k)
    BY <1>1, <2>2, ShiftCell
  <2>. QED BY <2>1, <2>2
<1>3. Shift(b, i) = [k \in Index |-> Shift(b, i)[k]]
  BY DEF Shift
<1>. QED BY <1>2, <1>3, Zenon DEF Array

(* What is known of one shift gives the next. *)
LEMMA ShiftNext ==
  ASSUME NEW b \in Array, NEW i \in Index, i + 1 \in Index
  PROVE  XMul(Shift(b, i), 1, n) = Shift(b, i + 1)
<1>1. ASSUME NEW k \in Index PROVE XMul(Shift(b, i), 1, n)[k] = Shift(b, i + 1)[k]
  <2>1. k \in Int /\ 0 <= k /\ k < n /\ n \in Int /\ i \in Int /\ 0 <= i /\ i < n
    BY Degree, SMT DEF Index
  <2>2. k % n = k /\ k \div n = 0
    BY <2>1, Degree, SMT
  <2>3. CASE k = 0
    <3>1. (0 + n) - 1 \in Index /\ i <= (0 + n) - 1 /\ ~(i + 1 <= 0)
          /\ ((0 + n) - 1) - i = 0 - (i + 1) + n
      BY <2>1, SMT DEF Index
    <3>2. PICK x \in Zq : x = b[0 - (i + 1) + n]
      BY <2>3, <3>1, ShiftCell
    <3>3. Shift(b, i)[(0 + n) - 1] = x % Q
      BY <3>1, <3>2, ShiftCell
    <3>4. Shift(b, i + 1)[k] = (-x) % Q
      BY <2>3, <3>1, <3>2, ShiftCell
    <3>5. Zeta(1, 0) = Q - 1
      BY DEF Zeta
    <3>6. XMul(Shift(b, i), 1, n)[k] = Times(Q - 1, x % Q)
      BY <2>2, <2>3, <3>3, <3>5, Zenon DEF XMul
    <3>7. Times(Q - 1, x % Q) = (-x) % Q
      <4>1. x \in Int /\ 0 <= x /\ x < Q
        BY OfResidue, Zenon
      <4>. QED BY <4>1, SMT DEF Times, Q
    <3>. QED BY <3>4, <3>6, <3>7
  <2>4. CASE k # 0
    <3>1. k - 1 \in Index /\ (i <= k - 1 <=> i + 1 <= k)
          /\ (k - 1) - i = k - (i + 1) /\ (k - 1) - i + n = k - (i + 1) + n
      BY <2>1, <2>4, SMT DEF Index
    <3>2. XMul(Shift(b, i), 1, n)[k] = Shift(b, i)[k - 1]
      BY <2>2, <2>4, Zenon DEF XMul
    <3>. QED BY <3>1, <3>2, Zenon DEF Shift
  <2>. QED BY <2>3, <2>4
<1>2. XMul(Shift(b, i), 1, n) = [k \in Index |-> XMul(Shift(b, i), 1, n)[k]]
  BY DEF XMul
<1>3. Shift(b, i + 1) = [k \in Index |-> Shift(b, i + 1)[k]]
  BY DEF Shift
<1>. QED BY <1>1, <1>2, <1>3

LEMMA ShiftNone ==
  ASSUME NEW b \in Array
  PROVE  Shift(b, 0) = b
<1>1. 0 \in Index
  BY Degree, SMT DEF Index
<1>2. ASSUME NEW k \in Index PROVE Shift(b, 0)[k] = b[k]
  <2>1. 0 <= k /\ k - 0 = k
    BY Degree, SMT DEF Index
  <2>2. Shift(b, 0)[k] = b[k] % Q /\ b[k] \in Zq
    BY <1>1, <2>1, ShiftCell, ArrayCell
  <2>. QED BY <2>2, ZqMod, Zenon
<1>3. Shift(b, 0) = [k \in Index |-> Shift(b, 0)[k]]
  BY DEF Shift
<1>4. b = [k \in Index |-> b[k]]
  BY DEF Array
<1>. QED BY <1>2, <1>3, <1>4

-----------------------------------------------------------------------------
(* Products of the ring.                                                   *)

(* The partial sums of a product of the ring. *)
Term(a, b, k) ==
  [i \in Index |-> (IF i <= k THEN a[i] * b[k - i] ELSE -(a[i] * b[k - i + n])) % Q]

Partial(a, b, j) == [k \in Index |-> SumTo(Term(a, b, k), j) % Q]

LEMMA TermIs ==
  ASSUME NEW a \in Array, NEW b \in Array, NEW i \in Index, NEW k \in Index
  PROVE  Term(a, b, k)[i] = Times(a[i], Shift(b, i)[k]) /\ Term(a, b, k)[i] \in Zq
<1>1. PICK x \in Zq : x = a[i]
  BY ArrayCell
<1>2. x \in Int
  BY ZqIsInt
<1>3. \A y \in Zq : /\ (x * y) % Q = Times(x, y % Q) /\ (-(x * y)) % Q = Times(x, (-y) % Q)
                    /\ (x * y) % Q \in Zq /\ (-(x * y)) % Q \in Zq
  <2> SUFFICES ASSUME NEW y \in Zq
               PROVE  /\ (x * y) % Q = Times(x, y % Q) /\ (-(x * y)) % Q = Times(x, (-y) % Q)
                      /\ (x * y) % Q \in Zq /\ (-(x * y)) % Q \in Zq
    OBVIOUS
  <2>1. y \in Int /\ -y \in Int /\ x * y \in Int /\ -(x * y) \in Int /\ x * (-y) = -(x * y)
    BY <1>2, OfResidue, SMT
  <2>2. Eqm(y % Q, y) /\ Eqm((-y) % Q, -y) /\ Eqm(x, x)
    BY <1>2, <2>1, EqmMod, EqmRefl, Zenon
  <2>3. Eqm(x * (y % Q), x * y) /\ Eqm(x * ((-y) % Q), x * (-y))
    BY <2>2, EqmProduct, Zenon
  <2>4. (x * (y % Q)) % Q = (x * y) % Q /\ (x * ((-y) % Q)) % Q = (x * (-y)) % Q
    BY <2>3, EqmSame, Zenon
  <2>. QED BY <2>1, <2>4, EqmMod, Zenon DEF Times
<1>4. Term(a, b, k)[i] = (IF i <= k THEN x * b[k - i] ELSE -(x * b[k - i + n])) % Q
  BY <1>1 DEF Term
<1>5. CASE i <= k
  <2>1. PICK y \in Zq : y = b[k - i] /\ Shift(b, i)[k] = y % Q
    BY <1>5, ShiftCell
  <2>. QED BY <1>1, <1>3, <1>4, <1>5, <2>1, Zenon
<1>6. CASE ~(i <= k)
  <2>1. PICK y \in Zq : y = b[k - i + n] /\ Shift(b, i)[k] = (-y) % Q
    BY <1>6, ShiftCell
  <2>. QED BY <1>1, <1>3, <1>4, <1>6, <2>1, Zenon
<1>. QED BY <1>5, <1>6

LEMMA PartialSteps ==
  ASSUME NEW a \in Array, NEW b \in Array
  PROVE  /\ RingMul(a, b) = Partial(a, b, n)
         /\ Partial(a, b, 0) = [k \in Index |-> 0]
         /\ \A j \in Index : Partial(a, b, j + 1) = Comb(Partial(a, b, j), a[j], Shift(b, j))
<1>1. ASSUME NEW k \in Index
      PROVE  /\ \A i \in Index : Term(a, b, k)[i] \in Int
             /\ SumOf(Term(a, b, k)) = SumTo(Term(a, b, k), n) /\ SumTo(Term(a, b, k), 0) = 0
             /\ \A j \in 1..n : SumTo(Term(a, b, k), j)
                                  = SumTo(Term(a, b, k), j - 1) + Term(a, b, k)[j - 1]
             /\ \A j \in 0..n : SumTo(Term(a, b, k), j) \in Int
  <2>1. \A i \in Index : Term(a, b, k)[i] \in Int
    BY TermIs, ZqIsInt, Zenon
  <2> DEFINE t == Term(a, b, k)
  <2> HIDE DEF t
  <2>2. \A i \in Index : t[i] \in Int
    BY <2>1 DEF t
  <2>3. /\ SumOf(t) = SumTo(t, n) /\ SumTo(t, 0) = 0
        /\ \A j \in 1..n : SumTo(t, j) = SumTo(t, j - 1) + t[j - 1]
        /\ \A j \in 0..n : SumTo(t, j) \in Int
    BY <2>2, SumSteps, Zenon
  <2>. QED BY <2>1, <2>3 DEF t
<1>2. RingMul(a, b) = Partial(a, b, n)
  <2>1. RingMul(a, b) = [k \in Index |-> SumOf(Term(a, b, k)) % Q]
    BY DEF RingMul, Term
  <2>. QED BY <1>1, <2>1 DEF Partial
<1>3. Partial(a, b, 0) = [k \in Index |-> 0]
  <2>1. 0 % Q = 0
    BY SMT DEF Q
  <2>. QED BY <1>1, <2>1 DEF Partial
<1>4. ASSUME NEW j \in Index
      PROVE  Partial(a, b, j + 1) = Comb(Partial(a, b, j), a[j], Shift(b, j))
  <2>1. j + 1 \in 1..n /\ (j + 1) - 1 = j /\ j \in 0..n
    BY Degree, SMT DEF Index
  <2>2. ASSUME NEW k \in Index
        PROVE  SumTo(Term(a, b, k), j + 1) % Q
                 = Plus(SumTo(Term(a, b, k), j) % Q, Times(a[j], Shift(b, j)[k]))
    <3>1. PICK s \in Int : s = SumTo(Term(a, b, k), j)
      BY <1>1, <2>1
    <3>2. PICK t \in Zq : t = Term(a, b, k)[j] /\ t = Times(a[j], Shift(b, j)[k])
      BY TermIs
    <3>3. SumTo(Term(a, b, k), j + 1) = s + t
      BY <1>1, <2>1, <3>1, <3>2
    <3>4. Eqm(s % Q, s) /\ Eqm(t, t)
      BY <3>2, ZqIsInt, EqmMod, EqmRefl, Zenon
    <3>5. Eqm((s % Q) + t, s + t)
      BY <3>4, EqmSum, Zenon
    <3>6. ((s % Q) + t) % Q = (s + t) % Q
      BY <3>5, EqmSame, Zenon
    <3>. QED BY <3>1, <3>2, <3>3, <3>6, Zenon DEF Plus
  <2>3. Comb(Partial(a, b, j), a[j], Shift(b, j))
          = [k \in Index |-> Plus(SumTo(Term(a, b, k), j) % Q, Times(a[j], Shift(b, j)[k]))]
    BY DEF Comb, Partial
  <2>. QED BY <2>2, <2>3 DEF Partial
<1>. QED BY <1>2, <1>3, <1>4

LEMMA PartialArray ==
  ASSUME NEW a \in Array, NEW b \in Array
  PROVE  \A j \in 0..n : Partial(a, b, j) \in Array
<1>1. n \in Nat /\ (\A j \in 0..(n - 1) : j \in Index /\ j + 1 \in 0..n) /\ 0 \in 0..n
  BY Degree, SMT DEF Index
<1> DEFINE P == {j \in 0..n : Partial(a, b, j) \in Array}
<1>2. 0 \in P
  <2>1. [k \in Index |-> 0] \in Array
    BY Units DEF Array
  <2>. QED BY <1>1, <2>1, PartialSteps
<1>3. ASSUME NEW j \in 0..(n - 1), j \in P PROVE j + 1 \in P
  <2>1. j \in Index /\ j + 1 \in 0..n
    BY <1>1
  <2>2. Comb(Partial(a, b, j), a[j], Shift(b, j)) \in Array
    BY <1>3, <2>1, ArrayCell, ShiftArray, CombArray
  <2>. QED BY <2>1, <2>2, PartialSteps
<1> HIDE DEF P
<1>4. \A j \in 0..n : j \in P
  BY <1>1, <1>2, <1>3, UpTo
<1>. QED BY <1>4 DEF P

(* Z_q is a ring. *)
LEMMA RingLaws ==
  ASSUME NEW x \in Zq, NEW y \in Zq, NEW z \in Zq
  PROVE  /\ Times(x, Times(y, z)) = Times(Times(x, y), z) /\ Times(x, y) = Times(y, x)
         /\ Times(Plus(x, y), z) = Plus(Times(x, z), Times(y, z))
         /\ Plus(x, 0) = x /\ Plus(0, x) = x /\ Times(x, 1) = x /\ Times(1, x) = x
         /\ Times(0, x) = 0 /\ Times(x, 0) = 0
<1>1. x \in Int /\ y \in Int /\ z \in Int
  BY ZqIsInt, Zenon
<1>2. Eqm(x, x) /\ Eqm(y, y) /\ Eqm(z, z)
  BY <1>1, EqmRefl, Zenon
<1>3. /\ Eqm(Times(x, Times(y, z)), x * (y * z)) /\ Eqm(Times(Times(x, y), z), (x * y) * z)
      /\ Eqm(Times(Plus(x, y), z), (x + y) * z)
      /\ Eqm(Plus(Times(x, z), Times(y, z)), x * z + y * z)
  BY <1>2, EqmPlus, Zenon
<1>4. x * (y * z) = (x * y) * z /\ (x + y) * z = x * z + y * z
  BY <1>1, SMT
<1>5. /\ Eqm(Times(x, Times(y, z)), Times(Times(x, y), z))
      /\ Eqm(Times(Plus(x, y), z), Plus(Times(x, z), Times(y, z)))
  BY <1>3, <1>4, EqmSym, EqmTrans, Zenon
<1>6. /\ Times(x, Times(y, z)) \in Zq /\ Times(Times(x, y), z) \in Zq
      /\ Times(Plus(x, y), z) \in Zq /\ Plus(Times(x, z), Times(y, z)) \in Zq
  BY OpsType, Zenon
<1>7. /\ Times(x, Times(y, z)) = Times(Times(x, y), z)
      /\ Times(Plus(x, y), z) = Plus(Times(x, z), Times(y, z))
  BY <1>5, <1>6, EqmZq, Zenon
<1>8. x * y = y * x /\ x + 0 = x /\ 0 + x = x /\ x * 1 = x /\ 1 * x = x /\ 0 * x = 0 /\ x * 0 = 0
  BY <1>1, SMT
<1>9. x % Q = x /\ 0 % Q = 0
  BY ZqMod, Units, Zenon
<1>. QED BY <1>7, <1>8, <1>9, Zenon DEF Times, Plus

-----------------------------------------------------------------------------
(* One is the unit of the ring. *)
LEMMA ShiftOfUnit ==
  ASSUME NEW j \in Index, NEW k \in Index
  PROVE  Shift(Unit(n), j)[k] = IF k = j THEN 1 ELSE 0
<1>1. n \in Int /\ n > 1 /\ j \in Int /\ 0 <= j /\ j < n /\ k \in Int /\ 0 <= k /\ k < n
  BY Degree, SMT DEF Index
<1>2. 1 % Q = 1 /\ 0 % Q = 0 /\ (-0) % Q = 0
  BY SMT DEF Q
<1>3. \A i \in Index : Unit(n)[i] = IF i = 0 THEN 1 ELSE 0
  <2>1. \A i \in Index : i % n = i
    BY Degree, SMT DEF Index
  <2>. QED BY <2>1, Zenon DEF Unit
<1>4. Unit(n) \in Array
  BY UnitArray
<1>5. CASE j <= k
  <2>1. k - j \in Index /\ (k - j = 0 <=> k = j)
    BY <1>1, <1>5, SMT DEF Index
  <2>2. Shift(Unit(n), j)[k] = Unit(n)[k - j] % Q
    BY <1>4, <1>5, ShiftCell
  <2>. QED BY <1>2, <1>3, <2>1, <2>2, Zenon
<1>6. CASE ~(j <= k)
  <2>1. k - j + n \in Index /\ k - j + n # 0 /\ k # j
    BY <1>1, <1>6, SMT DEF Index
  <2>2. Shift(Unit(n), j)[k] = (-Unit(n)[k - j + n]) % Q
    BY <1>4, <1>6, ShiftCell
  <2>. QED BY <1>2, <1>3, <2>1, <2>2, Zenon
<1>. QED BY <1>5, <1>6

LEMMA TimesUnit ==
  ASSUME NEW a \in Array
  PROVE  RingMul(a, Unit(n)) = a
<1>1. n \in Nat /\ (\A j \in 0..(n - 1) : j \in Index /\ j + 1 \in 0..n) /\ 0 \in 0..n
      /\ n \in 0..n /\ \A k \in Index : k < n /\ ~(k < 0) /\ k \in Int
  BY Degree, SMT DEF Index
<1>2. Unit(n) \in Array
  BY UnitArray
<1> DEFINE P == {j \in 0..n : Partial(a, Unit(n), j) = [k \in Index |-> IF k < j THEN a[k] ELSE 0]}
<1>3. 0 \in P
  <2>1. Partial(a, Unit(n), 0) = [k \in Index |-> 0]
    BY <1>2, PartialSteps
  <2>. QED BY <1>1, <2>1
<1>4. ASSUME NEW j \in 0..(n - 1), j \in P PROVE j + 1 \in P
  <2>1. j \in Index /\ j + 1 \in 0..n /\ j \in Int
    BY <1>1
  <2>2. PICK s : s = Shift(Unit(n), j)
    OBVIOUS
  <2>3. Partial(a, Unit(n), j + 1)
          = [k \in Index |-> Plus(IF k < j THEN a[k] ELSE 0, Times(a[j], s[k]))]
    <3>1. Partial(a, Unit(n), j + 1) = Comb(Partial(a, Unit(n), j), a[j], s)
      BY <1>2, <2>1, <2>2, PartialSteps
    <3>. QED BY <1>4, <3>1 DEF Comb
  <2>4. ASSUME NEW k \in Index
        PROVE  Plus(IF k < j THEN a[k] ELSE 0, Times(a[j], s[k]))
                 = IF k < j + 1 THEN a[k] ELSE 0
    <3>1. a[k] \in Zq /\ a[j] \in Zq /\ 0 \in Zq
      BY <2>1, ArrayCell, Units, Zenon
    <3>2. s[k] = IF k = j THEN 1 ELSE 0
      BY <2>1, <2>2, ShiftOfUnit, Zenon
    <3>3. CASE k = j
      <4>1. ~(k < j) /\ k < j + 1
        BY <2>1, <3>3
      <4>2. Times(a[j], 1) = a[k] /\ Plus(0, a[k]) = a[k]
        BY <3>1, <3>3, RingLaws, Zenon
      <4>. QED BY <3>2, <3>3, <4>1, <4>2, Zenon
    <3>4. CASE k # j
      <4>1. k < j + 1 <=> k < j
        BY <1>1, <2>1, <3>4
      <4>2. Times(a[j], 0) = 0 /\ Plus(a[k], 0) = a[k] /\ Plus(0, 0) = 0
        BY <3>1, RingLaws, Zenon
      <4>. QED BY <3>2, <3>4, <4>1, <4>2, Zenon
    <3>. QED BY <3>3, <3>4
  <2>. QED BY <2>1, <2>3, <2>4
<1> HIDE DEF P
<1>5. \A j \in 0..n : j \in P
  BY <1>1, <1>3, <1>4, UpTo
<1>6. RingMul(a, Unit(n)) = [k \in Index |-> IF k < n THEN a[k] ELSE 0]
  BY <1>1, <1>2, <1>5, PartialSteps DEF P
<1>7. a = [k \in Index |-> a[k]]
  BY DEF Array
<1>. QED BY <1>1, <1>6, <1>7

-----------------------------------------------------------------------------
(* A multiple of a power of X is transformed into the multiple by the      *)
(* transform of that power.                                                *)
LEMMA NttOfShift ==
  ASSUME NEW b \in Array
  PROVE  \A j \in Index, k \in Index :
           mq_NTT(Shift(b, j))[k] = Times(mq_NTT(Shift(Unit(n), j))[k], mq_NTT(b)[k])
<1>1. n \in Nat /\ n - 1 \in Nat /\ Index = 0..(n - 1)
      /\ (\A j \in 0..((n - 1) - 1) : j \in Index /\ j + 1 \in Index) /\ 0 \in Index
  BY Degree, SMT DEF Index
<1>2. PICK u \in Array : u = Unit(n)
  BY UnitArray
<1>3. \A x \in Array, k \in Index : mq_NTT(x)[k] \in Zq
  BY NttRange, ArrayCell, Zenon
<1> DEFINE P == {j \in Index : \A k \in Index :
                   mq_NTT(Shift(b, j))[k] = Times(mq_NTT(Shift(u, j))[k], mq_NTT(b)[k])}
<1>4. 0 \in P
  <2>1. Shift(b, 0) = b /\ Shift(u, 0) = u
    BY ShiftNone
  <2>2. ASSUME NEW k \in Index PROVE mq_NTT(b)[k] = Times(mq_NTT(u)[k], mq_NTT(b)[k])
    <3>1. mq_NTT(u)[k] = 1
      BY <1>2, NttOfUnit
    <3>2. mq_NTT(b)[k] \in Zq
      BY <1>3
    <3>. QED BY <3>1, <3>2, RingLaws, Zenon
  <2>. QED BY <1>1, <2>1, <2>2
<1>5. ASSUME NEW j \in 0..((n - 1) - 1), j \in P PROVE j + 1 \in P
  <2>1. j \in Index /\ j + 1 \in Index
    BY <1>1
  <2>2. PICK x \in Array, y \in Array : x = Shift(b, j) /\ y = Shift(u, j)
    BY <2>1, ShiftArray
  <2>3. Shift(b, j + 1) = XMul(x, 1, n) /\ Shift(u, j + 1) = XMul(y, 1, n)
    BY <2>1, <2>2, ShiftNext
  <2>4. ASSUME NEW k \in Index
        PROVE  mq_NTT(Shift(b, j + 1))[k] = Times(mq_NTT(Shift(u, j + 1))[k], mq_NTT(b)[k])
    <3>1. PICK z \in Zq, v \in Zq, w \in Zq :
            z = Zeta(n, k) /\ v = mq_NTT(b)[k] /\ w = mq_NTT(y)[k]
      BY <1>3, Points, Zenon
    <3>2. mq_NTT(x)[k] = Times(w, v)
      BY <1>5, <2>2, <3>1
    <3>3. mq_NTT(Shift(b, j + 1))[k] = Times(z, Times(w, v))
      BY <2>3, <3>1, <3>2, NttOfX
    <3>4. mq_NTT(Shift(u, j + 1))[k] = Times(z, w)
      BY <2>3, <3>1, NttOfX
    <3>5. Times(z, Times(w, v)) = Times(Times(z, w), v)
      BY RingLaws, Zenon
    <3>. QED BY <3>1, <3>3, <3>4, <3>5, Zenon
  <2>. QED BY <2>1, <2>4
<1> HIDE DEF P
<1>6. \A j \in 0..(n - 1) : j \in P
  BY <1>1, <1>4, <1>5, UpTo
<1>. QED BY <1>1, <1>2, <1>6 DEF P

LEMMA NttOfZero ==
  ASSUME NEW k \in Index
  PROVE  mq_NTT([i \in Index |-> 0])[k] = 0 /\ [i \in Index |-> 0] \in Array
<1>1. PICK u \in Array : u = Unit(n)
  BY UnitArray
<1>2. Q - 1 \in Zq
  BY SMT DEF Zq, Q
<1>3. Plus(1, Times(Q - 1, 1)) = 0 /\ Plus(0, Times(Q - 1, 0)) = 0
  BY SMT DEF Plus, Times, Q
<1>4. \A i \in Index : u[i] = 0 \/ u[i] = 1
  BY <1>1 DEF Unit
<1>5. Comb(u, Q - 1, u) = [i \in Index |-> 0]
  BY <1>3, <1>4, Zenon DEF Comb
<1>6. mq_NTT(Comb(u, Q - 1, u))[k] = Plus(mq_NTT(u)[k], Times(Q - 1, mq_NTT(u)[k]))
  BY <1>2, NttOfComb, Zenon
<1>7. mq_NTT(u)[k] = 1
  BY <1>1, NttOfUnit
<1>8. [i \in Index |-> 0] \in Array
  BY Units DEF Array
<1>. QED BY <1>3, <1>5, <1>6, <1>7, <1>8, Zenon

(* The transform turns the product of the ring Z_q[X]/(X^n + 1) into the   *)
(* product of the values (vrfy.c:676-680), for every degree here.          *)
THEOREM NttProduct ==
  ASSUME NEW a \in Array, NEW b \in Array, NEW k \in Index
  PROVE  mq_NTT(RingMul(a, b))[k] = Times(mq_NTT(a)[k], mq_NTT(b)[k])
<1>1. n \in Nat /\ (\A j \in 0..(n - 1) : j \in Index /\ j + 1 \in 0..n /\ j \in 0..n)
      /\ 0 \in 0..n /\ n \in 0..n
  BY Degree, SMT DEF Index
<1>2. PICK u \in Array : u = Unit(n)
  BY UnitArray
<1>3. \A x \in Array : mq_NTT(x)[k] \in Zq
  BY NttRange, ArrayCell, Zenon
<1>4. PICK v \in Zq : v = mq_NTT(b)[k]
  BY <1>3
<1> DEFINE P == {j \in 0..n : mq_NTT(Partial(a, b, j))[k] = Times(mq_NTT(Partial(a, u, j))[k], v)}
<1>5. 0 \in P
  <2>1. Partial(a, b, 0) = [i \in Index |-> 0] /\ Partial(a, u, 0) = [i \in Index |-> 0]
    BY PartialSteps
  <2>2. Times(0, v) = 0
    BY RingLaws, Zenon
  <2>. QED BY <1>1, <2>1, <2>2, NttOfZero
<1>6. ASSUME NEW j \in 0..(n - 1), j \in P PROVE j + 1 \in P
  <2>1. j \in Index /\ j + 1 \in 0..n /\ j \in 0..n
    BY <1>1
  <2>2. PICK x \in Array, y \in Array, c \in Zq, s \in Array, t \in Array :
          /\ x = Partial(a, b, j) /\ y = Partial(a, u, j) /\ c = a[j]
          /\ s = Shift(b, j) /\ t = Shift(u, j)
    BY <2>1, PartialArray, ArrayCell, ShiftArray, Zenon
  <2>3. Partial(a, b, j + 1) = Comb(x, c, s) /\ Partial(a, u, j + 1) = Comb(y, c, t)
    BY <2>1, <2>2, PartialSteps
  <2>4. PICK p \in Zq, w \in Zq : p = mq_NTT(y)[k] /\ w = mq_NTT(t)[k]
    BY <1>3
  <2>5. mq_NTT(x)[k] = Times(p, v)
    BY <1>6, <2>2, <2>4
  <2>6. mq_NTT(s)[k] = Times(w, v)
    BY <1>2, <1>4, <2>1, <2>2, <2>4, NttOfShift, Zenon
  <2>7. /\ mq_NTT(Comb(x, c, s))[k] = Plus(Times(p, v), Times(c, Times(w, v)))
        /\ mq_NTT(Comb(y, c, t))[k] = Plus(p, Times(c, w))
    BY <2>4, <2>5, <2>6, NttOfComb
  <2>8. Plus(Times(p, v), Times(c, Times(w, v))) = Times(Plus(p, Times(c, w)), v)
    <3>1. PICK r \in Zq : r = Times(c, w)
      BY OpsType, Zenon
    <3>2. Times(c, Times(w, v)) = Times(r, v)
      BY <3>1, RingLaws
    <3>3. Times(Plus(p, r), v) = Plus(Times(p, v), Times(r, v))
      BY RingLaws
    <3>. QED BY <3>1, <3>2, <3>3, Zenon
  <2>. QED BY <2>1, <2>3, <2>7, <2>8
<1> HIDE DEF P
<1>7. \A j \in 0..n : j \in P
  BY <1>1, <1>5, <1>6, UpTo
<1>8. RingMul(a, b) = Partial(a, b, n) /\ RingMul(a, u) = Partial(a, u, n)
  BY PartialSteps
<1>9. RingMul(a, u) = a
  BY <1>2, TimesUnit
<1>. QED BY <1>1, <1>4, <1>7, <1>8, <1>9 DEF P

-----------------------------------------------------------------------------
(* mq_iNTT undoes mq_NTT.                                                  *)

(* A multiple of an array. *)
Scaled(c, a) == [k \in Index |-> Times(c, a[k])]

LEMMA ScaledArray ==
  ASSUME NEW a \in Array, NEW c \in Zq
  PROVE  Scaled(c, a) \in Array
<1>1. ASSUME NEW k \in Index PROVE Times(c, a[k]) \in Zq
  BY ArrayCell, OpsType
<1>. QED BY <1>1 DEF Scaled, Array

(* A layer and its inverse. *)
LEMMA BackSum ==
  ASSUME NEW u \in Zq, NEW v \in Zq, NEW s \in Zq, NEW t \in Zq, NEW c \in Zq,
         Times(s, t) = 1
  PROVE  /\ Plus(Times(c, Plus(u, Times(v, s))), Times(c, Minus(u, Times(v, s))))
              = Times(Times(2, c), u)
         /\ Times(Minus(Times(c, Plus(u, Times(v, s))), Times(c, Minus(u, Times(v, s)))), t)
              = Times(Times(2, c), v)
         /\ Plus(Times(c, Plus(u, v)), Times(Times(c, Times(Minus(u, v), t)), s))
              = Times(Times(2, c), u)
         /\ Minus(Times(c, Plus(u, v)), Times(Times(c, Times(Minus(u, v), t)), s))
              = Times(Times(2, c), v)
<1>1. u \in Int /\ v \in Int /\ s \in Int /\ t \in Int /\ c \in Int /\ 2 \in Int /\ 1 \in Int
  BY ZqIsInt
<1>2. Eqm(u, u) /\ Eqm(v, v) /\ Eqm(s, s) /\ Eqm(t, t) /\ Eqm(c, c) /\ Eqm(2, 2)
  BY <1>1, EqmRefl, Zenon
<1>3. Eqm(Times(v, s), v * s) /\ Eqm(Times(2, c), 2 * c) /\ Eqm(Times(s, t), s * t)
      /\ Eqm(Plus(u, v), u + v) /\ Eqm(Minus(u, v), u - v)
  BY <1>2, EqmPlus, Zenon
<1>4. Eqm(s * t, 1) /\ Eqm(t * s, 1)
  <2>1. Eqm(s * t, 1)
    BY <1>3, EqmSym, Zenon
  <2>2. s * t = t * s
    BY <1>1, SMT
  <2>. QED BY <2>1, <2>2, Zenon
<1>5. Eqm(Plus(u, Times(v, s)), u + v * s) /\ Eqm(Minus(u, Times(v, s)), u - v * s)
      /\ Eqm(Times(Minus(u, v), t), (u - v) * t)
  BY <1>2, <1>3, EqmPlus, Zenon
<1>6. /\ Eqm(Times(c, Plus(u, Times(v, s))), c * (u + v * s))
      /\ Eqm(Times(c, Minus(u, Times(v, s))), c * (u - v * s))
      /\ Eqm(Times(c, Plus(u, v)), c * (u + v))
      /\ Eqm(Times(c, Times(Minus(u, v), t)), c * ((u - v) * t))
  BY <1>2, <1>3, <1>5, EqmPlus, Zenon
<1> DEFINE p == Times(c, Plus(u, Times(v, s)))
           r == Times(c, Minus(u, Times(v, s)))
           b1 == Times(c, Plus(u, v))
           w == Times(Times(c, Times(Minus(u, v), t)), s)
<1>21. Eqm(w, (c * ((u - v) * t)) * s)
  BY <1>2, <1>6, EqmPlus, Zenon
<1>7. /\ Eqm(Plus(p, r), c * (u + v * s) + c * (u - v * s))
      /\ Eqm(Minus(p, r), c * (u + v * s) - c * (u - v * s))
      /\ Eqm(Plus(b1, w), c * (u + v) + (c * ((u - v) * t)) * s)
      /\ Eqm(Minus(b1, w), c * (u + v) - (c * ((u - v) * t)) * s)
  BY <1>6, <1>21, EqmPlus, Zenon
<1>8. Eqm(Times(Minus(p, r), t), (c * (u + v * s) - c * (u - v * s)) * t)
  BY <1>2, <1>7, EqmPlus, Zenon
<1>9. /\ c * (u + v * s) + c * (u - v * s) = (2 * c) * u
      /\ (c * (u + v * s) - c * (u - v * s)) * t = ((2 * c) * v) * (s * t)
      /\ (c * ((u - v) * t)) * s = (c * (u - v)) * (s * t)
  BY <1>1, SMT
<1>10. /\ (2 * c) * v \in Int /\ c * (u - v) \in Int /\ c * (u + v) \in Int
       /\ ((2 * c) * v) * 1 = (2 * c) * v /\ (c * (u - v)) * 1 = c * (u - v)
       /\ c * (u + v) + c * (u - v) = (2 * c) * u /\ c * (u + v) - c * (u - v) = (2 * c) * v
  BY <1>1, SMT
<1>11. /\ Eqm((2 * c) * v, (2 * c) * v) /\ Eqm(c * (u - v), c * (u - v))
       /\ Eqm(c * (u + v), c * (u + v))
  BY <1>10, EqmRefl, Zenon
<1>12. /\ Eqm(((2 * c) * v) * (s * t), (2 * c) * v)
       /\ Eqm((c * (u - v)) * (s * t), c * (u - v))
  <2>1. /\ Eqm(((2 * c) * v) * (s * t), ((2 * c) * v) * 1)
        /\ Eqm((c * (u - v)) * (s * t), (c * (u - v)) * 1)
    BY <1>4, <1>11, EqmProduct, Zenon
  <2>. QED BY <1>10, <2>1, Zenon
<1>13. /\ Eqm(c * (u + v) + (c * (u - v)) * (s * t), (2 * c) * u)
       /\ Eqm(c * (u + v) - (c * (u - v)) * (s * t), (2 * c) * v)
  <2>1. /\ Eqm(c * (u + v) + (c * (u - v)) * (s * t), c * (u + v) + c * (u - v))
        /\ Eqm(c * (u + v) - (c * (u - v)) * (s * t), c * (u + v) - c * (u - v))
    BY <1>11, <1>12, EqmSum, Zenon
  <2>. QED BY <1>10, <2>1, Zenon
<1>14. /\ Eqm(Times(Times(2, c), u), (2 * c) * u) /\ Eqm(Times(Times(2, c), v), (2 * c) * v)
  BY <1>2, <1>3, EqmPlus, Zenon
<1>15. \A x, y, z : Eqm(x, z) /\ Eqm(y, z) => Eqm(x, y)
  BY EqmSym, EqmTrans, Zenon
<1>16. Eqm(Times(Minus(p, r), t), (2 * c) * v)
  BY <1>8, <1>9, <1>12, EqmTrans, Zenon
<1>17. /\ Eqm(Plus(p, r), Times(Times(2, c), u)) /\ Eqm(Times(Minus(p, r), t), Times(Times(2, c), v))
       /\ Eqm(Plus(b1, w), Times(Times(2, c), u)) /\ Eqm(Minus(b1, w), Times(Times(2, c), v))
  BY <1>7, <1>9, <1>13, <1>14, <1>15, <1>16, Zenon
<1>18. p \in Zq /\ r \in Zq /\ w \in Zq /\ b1 \in Zq /\ Times(2, c) \in Zq
  BY OpsType, Units, Zenon
<1> HIDE DEF p, r, b1, w
<1>19. /\ Plus(p, r) \in Zq /\ Times(Times(2, c), u) \in Zq /\ Times(Times(2, c), v) \in Zq
       /\ Times(Minus(p, r), t) \in Zq
       /\ Plus(b1, w) \in Zq /\ Minus(b1, w) \in Zq
  BY <1>18, OpsType, Units, Zenon
<1>20. /\ Plus(p, r) = Times(Times(2, c), u) /\ Times(Minus(p, r), t) = Times(Times(2, c), v)
       /\ Plus(b1, w) = Times(Times(2, c), u) /\ Minus(b1, w) = Times(Times(2, c), v)
  BY <1>17, <1>19, EqmZq, Zenon
<1>. QED BY <1>20 DEF p, r, b1, w

LEMMA LayerBack ==
  ASSUME NEW nb \in Blocks, NEW ht \in Blocks, n = 2 * nb * ht, NEW a \in Array, NEW c \in Zq
  PROVE  InttLayer(Scaled(c, NttLayer(a, nb)), nb) = Scaled(Times(2, c), a)
<1>1. PICK b \in Array : b = NttLayer(a, nb)
  BY LayerArray
<1>2. PICK x \in Array : x = Scaled(c, b)
  BY ScaledArray
<1>3. PICK p \in Array : p = InttLayer(x, nb)
  BY LayerArray
<1>4. PICK d \in Zq : d = Times(2, c)
  BY OpsType, Units
<1>5. PICK y \in Array : y = Scaled(d, a)
  BY ScaledArray
<1>6. Butterflies(a, b, nb, ht)
  BY <1>1, LayerCells, Zenon
<1>7. Backward(x, p, nb, ht)
  BY <1>3, InttCells, Zenon
<1>8. (\A k \in Index : x[k] = Times(c, b[k])) /\ (\A k \in Index : y[k] = Times(d, a[k]))
  BY <1>2, <1>5 DEF Scaled
<1>9. ASSUME NEW i \in 0..(nb - 1), NEW j \in 0..(ht - 1)
      PROVE  p[Low(ht, i, j)] = y[Low(ht, i, j)] /\ p[High(ht, i, j)] = y[High(ht, i, j)]
  <2>1. PICK s \in Zq, t \in Zq : s = Root(nb, i) /\ t = IRoot(nb, i) /\ Times(s, t) = 1
    BY Roots
  <2>2. PICK lo \in Index, hi \in Index : lo = Low(ht, i, j) /\ hi = High(ht, i, j)
    BY Cells
  <2>3. PICK u \in Zq, v \in Zq : u = a[lo] /\ v = a[hi]
    BY ArrayCell, Zenon
  <2>4. b[lo] = Plus(u, Times(v, s)) /\ b[hi] = Minus(u, Times(v, s))
    BY <1>6, <2>1, <2>2, <2>3, Zenon DEF Butterflies
  <2>5. p[lo] = Plus(x[lo], x[hi]) /\ p[hi] = Times(Minus(x[lo], x[hi]), t)
    BY <1>7, <2>1, <2>2, Zenon DEF Backward
  <2>6. x[lo] = Times(c, Plus(u, Times(v, s))) /\ x[hi] = Times(c, Minus(u, Times(v, s)))
    BY <1>8, <2>4, Zenon
  <2>7. y[lo] = Times(Times(2, c), u) /\ y[hi] = Times(Times(2, c), v)
    BY <1>4, <1>8, <2>3, Zenon
  <2>8. p[lo] = y[lo] /\ p[hi] = y[hi]
    BY <2>1, <2>5, <2>6, <2>7, BackSum
  <2>. QED BY <2>2, <2>8, Zenon
<1>10. Agree(p, y, nb, ht)
  BY <1>9, Zenon DEF Agree
<1>11. y = [k \in Index |-> y[k]]
  BY DEF Array
<1>12. p = y
  BY <1>10, <1>11, SameCells, Zenon
<1>. QED BY <1>1, <1>2, <1>3, <1>4, <1>5, <1>12, Zenon

LEMMA LayerForth ==
  ASSUME NEW nb \in Blocks, NEW ht \in Blocks, n = 2 * nb * ht, NEW a \in Array, NEW c \in Zq
  PROVE  NttLayer(Scaled(c, InttLayer(a, nb)), nb) = Scaled(Times(2, c), a)
<1>1. PICK b \in Array : b = InttLayer(a, nb)
  BY LayerArray
<1>2. PICK x \in Array : x = Scaled(c, b)
  BY ScaledArray
<1>3. PICK p \in Array : p = NttLayer(x, nb)
  BY LayerArray
<1>4. PICK d \in Zq : d = Times(2, c)
  BY OpsType, Units
<1>5. PICK y \in Array : y = Scaled(d, a)
  BY ScaledArray
<1>6. Backward(a, b, nb, ht)
  BY <1>1, InttCells, Zenon
<1>7. Butterflies(x, p, nb, ht)
  BY <1>3, LayerCells, Zenon
<1>8. (\A k \in Index : x[k] = Times(c, b[k])) /\ (\A k \in Index : y[k] = Times(d, a[k]))
  BY <1>2, <1>5 DEF Scaled
<1>9. ASSUME NEW i \in 0..(nb - 1), NEW j \in 0..(ht - 1)
      PROVE  p[Low(ht, i, j)] = y[Low(ht, i, j)] /\ p[High(ht, i, j)] = y[High(ht, i, j)]
  <2>1. PICK s \in Zq, t \in Zq : s = Root(nb, i) /\ t = IRoot(nb, i) /\ Times(s, t) = 1
    BY Roots
  <2>2. PICK lo \in Index, hi \in Index : lo = Low(ht, i, j) /\ hi = High(ht, i, j)
    BY Cells
  <2>3. PICK u \in Zq, v \in Zq : u = a[lo] /\ v = a[hi]
    BY ArrayCell, Zenon
  <2>4. b[lo] = Plus(u, v) /\ b[hi] = Times(Minus(u, v), t)
    BY <1>6, <2>1, <2>2, <2>3, Zenon DEF Backward
  <2>5. p[lo] = Plus(x[lo], Times(x[hi], s)) /\ p[hi] = Minus(x[lo], Times(x[hi], s))
    BY <1>7, <2>1, <2>2, Zenon DEF Butterflies
  <2>6. x[lo] = Times(c, Plus(u, v)) /\ x[hi] = Times(c, Times(Minus(u, v), t))
    BY <1>8, <2>4, Zenon
  <2>7. y[lo] = Times(Times(2, c), u) /\ y[hi] = Times(Times(2, c), v)
    BY <1>4, <1>8, <2>3, Zenon
  <2>8. p[lo] = y[lo] /\ p[hi] = y[hi]
    BY <2>1, <2>5, <2>6, <2>7, BackSum
  <2>. QED BY <2>2, <2>8, Zenon
<1>10. Agree(p, y, nb, ht)
  BY <1>9, Zenon DEF Agree
<1>11. y = [k \in Index |-> y[k]]
  BY DEF Array
<1>12. p = y
  BY <1>10, <1>11, SameCells, Zenon
<1>. QED BY <1>1, <1>2, <1>3, <1>4, <1>5, <1>12, Zenon

(* The powers of 2 that the layers of the inverse leave as factors.        *)
LEMMA PowersOfTwo ==
  /\ \A j \in 0..logn : 2^j \in Zq /\ 2^j \in Int
  /\ \A j \in 0..(logn - 1) : 2^(j + 1) = Times(2, 2^j) /\ 2^(j + 1) = 2 * 2^j
<1>1. /\ 2^0 = 1 /\ 2^1 = 2 /\ 2^2 = 4 /\ 2^3 = 8 /\ 2^4 = 16
      /\ 0 + 1 = 1 /\ 1 + 1 = 2 /\ 2 + 1 = 3 /\ 3 + 1 = 4
      /\ 2 * 1 = 2 /\ 2 * 2 = 4 /\ 2 * 4 = 8 /\ 2 * 8 = 16
  BY SMT
<1>2. Times(2, 1) = 2 /\ Times(2, 2) = 4 /\ Times(2, 4) = 8 /\ Times(2, 8) = 16
  BY SMT DEF Times, Q
<1>3. 1 \in Zq /\ 2 \in Zq /\ 4 \in Zq /\ 8 \in Zq /\ 16 \in Zq
  BY SMT DEF Zq, Q
<1>4. ASSUME NEW j \in 0..logn PROVE 2^j \in Zq /\ 2^j \in Int
  <2>1. j = 0 \/ j = 1 \/ j = 2 \/ j = 3 \/ j = 4
    BY DegreeAssumption, SMT
  <2>. QED BY <1>1, <1>3, <2>1, ZqIsInt, Zenon
<1>5. ASSUME NEW j \in 0..(logn - 1) PROVE 2^(j + 1) = Times(2, 2^j) /\ 2^(j + 1) = 2 * 2^j
  <2>1. j = 0 \/ j = 1 \/ j = 2 \/ j = 3
    BY DegreeAssumption, SMT
  <2>. QED BY <1>1, <1>2, <2>1, Zenon
<1>. QED BY <1>4, <1>5

LEMMA UpAndDown ==
  /\ logn \in Nat /\ 0 \in 0..logn /\ logn - 0 = logn /\ logn - logn = 0
  /\ \A j \in 0..(logn - 1) :
       /\ j + 1 \in 1..logn /\ (j + 1) - 1 = j /\ j \in 0..logn /\ j + 1 \in 0..logn
       /\ logn - (j + 1) \in 0..(logn - 1) /\ logn - j = (logn - (j + 1)) + 1
       /\ logn - j \in 0..logn /\ logn - (logn - j) = j /\ logn - j \in 1..logn
       /\ (logn - j) - 1 = logn - (j + 1)
BY DegreeAssumption, SMT

LEMMA ScaledOnce ==
  ASSUME NEW a \in Array
  PROVE  Scaled(1, a) = a
<1>1. \A k \in Index : Times(1, a[k]) = a[k]
  <2> SUFFICES ASSUME NEW k \in Index PROVE Times(1, a[k]) = a[k]
    OBVIOUS
  <2>1. PICK x \in Zq : x = a[k]
    BY ArrayCell
  <2>. QED BY <2>1, RingLaws
<1>2. a = [k \in Index |-> a[k]]
  BY DEF Array
<1>. QED BY <1>1, <1>2 DEF Scaled

(* What Scale multiplies by is n in the denominator.                       *)
Shrink == Times(Halved(logn), RI)

LEMMA ShrinkIs ==
  /\ Shrink \in Zq /\ n \in Zq /\ Times(n, Shrink) = 1
  /\ \A a \in Array : Scale(a) = Scaled(Shrink, a)
<1>1. \A j \in 0..logn : Halved(j) \in Zq
  BY HalvedSteps, Zenon
<1> DEFINE P == {j \in 0..logn : Eqm(2^j * Halved(j), R)}
<1>2. R \in Int /\ 2^0 = 1 /\ 1 * R = R
  BY SMT DEF R
<1>3. 0 \in P
  BY <1>2, HalvedSteps, UpAndDown, EqmRefl
<1>4. ASSUME NEW j \in 0..(logn - 1), j \in P PROVE j + 1 \in P
  <2>1. PICK x \in Zq, y \in Zq : x = Halved(j) /\ y = Halved(j + 1) /\ y = mq_rshift1(x)
    <3>1. j \in 0..logn /\ j + 1 \in 0..logn /\ j + 1 \in 1..logn /\ (j + 1) - 1 = j
      BY UpAndDown
    <3>2. Halved(j + 1) = mq_rshift1(Halved((j + 1) - 1))
      BY <3>1, HalvedSteps
    <3>. QED BY <1>1, <3>1, <3>2, Zenon
  <2>2. (2 * y) % Q = x
    BY <2>1, HalfExact, Zenon
  <2>3. PICK p \in Int : p = 2^j /\ 2^(j + 1) = 2 * p
    BY UpAndDown, PowersOfTwo
  <2>4. x \in Int /\ y \in Int /\ 2 * y \in Int
    BY <2>1, ZqIsInt
  <2>5. Eqm(2 * y, x) /\ Eqm(p, p)
    BY <2>2, <2>4, EqmMod, EqmSym, EqmRefl, Zenon
  <2>6. Eqm(p * (2 * y), p * x)
    BY <2>5, EqmProduct, Zenon
  <2>7. p * (2 * y) = (2 * p) * y
    BY <2>4, SMT
  <2>8. Eqm(p * x, R)
    BY <1>4, <2>1, <2>3
  <2>9. Eqm(2^(j + 1) * Halved(j + 1), R)
    BY <2>1, <2>3, <2>6, <2>7, <2>8, EqmTrans, Zenon
  <2>. QED BY <2>9, UpAndDown
<1> HIDE DEF P
<1>5. \A j \in 0..logn : j \in P
  BY <1>3, <1>4, UpAndDown, UpTo
<1>6. logn \in 0..logn
  BY UpAndDown
<1>7. Eqm(n * Halved(logn), R)
  BY <1>5, <1>6 DEF P, n
<1>8. PICK w \in Zq : w = Halved(logn)
  BY <1>1, <1>6
<1>9. RI \in Zq /\ RI \in Int /\ (R * RI) % Q = 1 /\ R * RI \in Int
  BY SMT DEF RI, R, Q, Zq
<1>10. Shrink \in Zq
  BY <1>8, <1>9, OpsType, Zenon DEF Shrink
<1>11. n \in Zq /\ n \in Int /\ w \in Int
  BY <1>8, ZqIsInt, Degree, SMT DEF Zq, Q
<1>12. Times(n, Shrink) = 1
  <2>1. Eqm(RI, RI) /\ Eqm(n, n) /\ Eqm(w, w)
    BY <1>9, <1>11, EqmRefl, Zenon
  <2>2. Eqm(Times(w, RI), w * RI)
    BY <2>1, EqmPlus, Zenon
  <2>3. Eqm(n * Times(w, RI), n * (w * RI)) /\ Eqm((n * w) * RI, R * RI)
    BY <1>7, <1>8, <2>1, <2>2, EqmProduct, Zenon
  <2>4. n * (w * RI) = (n * w) * RI
    BY <1>9, <1>11, SMT
  <2>5. Eqm(n * Times(w, RI), R * RI)
    BY <2>3, <2>4, EqmTrans, Zenon
  <2>6. (n * Times(w, RI)) % Q = (R * RI) % Q
    BY <2>5, EqmSame, Zenon
  <2>. QED BY <1>8, <1>9, <2>6, Zenon DEF Times, Shrink
<1>13. ASSUME NEW a \in Array PROVE Scale(a) = Scaled(Shrink, a)
  <2>1. ASSUME NEW k \in Index PROVE mq_montymul(a[k], w) = Times(Shrink, a[k])
    <3>1. PICK x \in Zq : x = a[k]
      BY ArrayCell
    <3>2. mq_montymul(x, w) = Times(x, Times(w, RI)) /\ Times(w, RI) \in Zq
      BY MontyTimes
    <3>3. PICK s \in Zq : s = Times(w, RI)
      BY <3>2
    <3>4. Times(x, s) = Times(s, x)
      BY RingLaws
    <3>. QED BY <1>8, <3>1, <3>2, <3>3, <3>4, Zenon DEF Shrink
  <2>. QED BY <1>8, <2>1, HalvedSteps DEF Scaled
<1>. QED BY <1>10, <1>11, <1>12, <1>13

LEMMA ScaleUndone ==
  ASSUME NEW a \in Array
  PROVE  Scale(Scaled(n, a)) = a
<1>1. PICK c \in Zq, s \in Zq : c = n /\ s = Shrink /\ Times(c, s) = 1
  BY ShrinkIs
<1>2. PICK b \in Array : b = Scaled(c, a)
  BY ScaledArray
<1>3. Scale(b) = Scaled(s, b)
  BY <1>1, ShrinkIs
<1>4. ASSUME NEW k \in Index PROVE Times(s, b[k]) = a[k]
  <2>1. PICK x \in Zq : x = a[k]
    BY ArrayCell
  <2>2. b[k] = Times(c, x)
    BY <1>2, <2>1 DEF Scaled
  <2>3. Times(s, Times(c, x)) = Times(Times(s, c), x) /\ Times(s, c) = Times(c, s)
    BY RingLaws
  <2>4. Times(1, x) = x
    BY RingLaws
  <2>. QED BY <1>1, <2>1, <2>2, <2>3, <2>4, Zenon
<1>5. a = [k \in Index |-> a[k]]
  BY DEF Array
<1>6. Scaled(s, b) = a
  BY <1>4, <1>5 DEF Scaled
<1>. QED BY <1>1, <1>2, <1>3, <1>6

(* mq_iNTT undoes mq_NTT, for every degree here.                           *)
THEOREM NttUndone ==
  ASSUME NEW a \in Array
  PROVE  mq_iNTT(mq_NTT(a)) = a
<1>1. PICK b \in Array : b = mq_NTT(a)
  BY NttRange
<1> DEFINE P == {j \in 0..logn : Backed(b, j) = Scaled(2^j, Layered(a, logn - j))}
<1>2. 0 \in P
  <2>1. b = Layered(a, logn) /\ Backed(b, 0) = b /\ 2^0 = 1
    BY <1>1, LayerByLayer, BackByLayer, SMT
  <2>. QED BY <2>1, UpAndDown, ScaledOnce
<1>3. ASSUME NEW j \in 0..(logn - 1), j \in P PROVE j + 1 \in P
  <2>1. PICK i \in 0..(logn - 1) : i = logn - (j + 1) /\ logn - j = i + 1
    BY UpAndDown
  <2>2. PICK x \in Array : x = Layered(a, i)
    BY LayerAfter
  <2>3. PICK ht \in Blocks, nb \in Blocks : nb = 2^i /\ n = 2 * nb * ht
    BY LayerSizes, BlockOfLayer, Zenon
  <2>4. PICK c \in Zq : c = 2^j /\ 2^(j + 1) = Times(2, c)
    BY UpAndDown, PowersOfTwo
  <2>5. Backed(b, j) = Scaled(c, NttLayer(x, nb))
    BY <1>3, <2>1, <2>2, <2>3, <2>4, LayerAfter
  <2>6. Backed(b, j + 1) = InttLayer(Backed(b, j), nb)
    BY <2>1, <2>3, UpAndDown, BackByLayer
  <2>7. Backed(b, j + 1) = Scaled(Times(2, c), x)
    BY <2>3, <2>5, <2>6, LayerBack
  <2>8. Backed(b, j + 1) = Scaled(2^(j + 1), Layered(a, logn - (j + 1)))
    BY <2>1, <2>2, <2>4, <2>7, Zenon
  <2>. QED BY <2>8, UpAndDown
<1> HIDE DEF P
<1>4. \A j \in 0..logn : j \in P
  BY <1>2, <1>3, UpAndDown, UpTo
<1>5. Backed(b, logn) = Scaled(n, Layered(a, 0))
  <2>1. logn \in 0..logn /\ 2^logn = n /\ logn - logn = 0
    BY UpAndDown, LastLayer
  <2>. QED BY <1>4, <2>1 DEF P
<1>. QED BY <1>1, <1>5, ScaleUndone, BackByLayer, LayerByLayer

LEMMA NttOfScaled ==
  ASSUME NEW a \in Array, NEW c \in Zq
  PROVE  mq_NTT(Scaled(c, a)) = Scaled(c, mq_NTT(a))
<1>1. PICK z \in Array : z = [i \in Index |-> 0]
  BY NttOfZero, Degree, SMT DEF Index
<1>2. ASSUME NEW x \in Zq PROVE Plus(0, Times(c, x)) = Times(c, x)
  <2>1. PICK y \in Zq : y = Times(c, x)
    BY OpsType
  <2>. QED BY <2>1, RingLaws
<1>3. Comb(z, c, a) = Scaled(c, a)
  <2>1. \A k \in Index : z[k] = 0 /\ a[k] \in Zq
    BY <1>1, ArrayCell
  <2>. QED BY <1>2, <2>1 DEF Comb, Scaled
<1>4. PICK x \in Array, y \in Array : x = mq_NTT(Scaled(c, a)) /\ y = mq_NTT(a)
  BY ScaledArray, NttRange
<1>5. ASSUME NEW k \in Index PROVE x[k] = Times(c, y[k])
  <2>1. x[k] = Plus(mq_NTT(z)[k], Times(c, y[k]))
    BY <1>3, <1>4, NttOfComb
  <2>2. mq_NTT(z)[k] = 0
    BY <1>1, NttOfZero
  <2>3. y[k] \in Zq
    BY ArrayCell
  <2>. QED BY <1>2, <2>1, <2>2, <2>3
<1>6. x = [k \in Index |-> x[k]]
  BY DEF Array
<1>. QED BY <1>4, <1>5, <1>6 DEF Scaled

(* And mq_NTT undoes mq_iNTT.                                              *)
THEOREM InttUndone ==
  ASSUME NEW a \in Array
  PROVE  mq_NTT(mq_iNTT(a)) = a
<1>1. PICK b \in Array : b = Backed(a, logn)
  BY BackByLayer, UpAndDown
<1> DEFINE P == {j \in 0..logn : Layered(b, j) = Scaled(2^j, Backed(a, logn - j))}
<1>2. 0 \in P
  <2>1. Layered(b, 0) = b /\ 2^0 = 1
    BY LayerByLayer, SMT
  <2>. QED BY <1>1, <2>1, UpAndDown, ScaledOnce
<1>3. ASSUME NEW j \in 0..(logn - 1), j \in P PROVE j + 1 \in P
  <2>1. PICK x \in Array : x = Backed(a, logn - (j + 1))
    BY UpAndDown, BackByLayer
  <2>2. PICK ht \in Blocks, nb \in Blocks : nb = 2^j /\ n = 2 * nb * ht
    BY LayerSizes, BlockOfLayer, Zenon
  <2>3. PICK c \in Zq : c = 2^j /\ 2^(j + 1) = Times(2, c)
    BY UpAndDown, PowersOfTwo
  <2>4. Backed(a, logn - j) = InttLayer(x, nb)
    BY <2>1, <2>2, UpAndDown, BackByLayer
  <2>5. Layered(b, j + 1) = NttLayer(Scaled(c, InttLayer(x, nb)), nb)
    BY <1>3, <2>2, <2>3, <2>4, LayerAfter
  <2>6. Layered(b, j + 1) = Scaled(Times(2, c), x)
    BY <2>2, <2>5, LayerForth
  <2>. QED BY <2>1, <2>3, <2>6, UpAndDown
<1> HIDE DEF P
<1>4. \A j \in 0..logn : j \in P
  BY <1>2, <1>3, UpAndDown, UpTo
<1>5. Layered(b, logn) = Scaled(n, a)
  <2>1. logn \in 0..logn /\ 2^logn = n /\ logn - logn = 0
    BY UpAndDown, LastLayer
  <2>. QED BY <1>4, <2>1, BackByLayer DEF P
<1>6. mq_iNTT(a) = Scaled(Shrink, b)
  BY <1>1, BackByLayer, ShrinkIs
<1>7. mq_NTT(mq_iNTT(a)) = Scaled(Shrink, Scaled(n, a))
  BY <1>5, <1>6, NttOfScaled, LayerByLayer, ShrinkIs
<1>8. Scaled(Shrink, Scaled(n, a)) = Scale(Scaled(n, a))
  BY ScaledArray, ShrinkIs
<1>. QED BY <1>7, <1>8, ScaleUndone

-----------------------------------------------------------------------------
(* The verdict.                                                            *)

LEMMA RingMulArray ==
  ASSUME NEW a \in Array, NEW b \in Array
  PROVE  RingMul(a, b) \in Array
<1>1. n \in 0..n
  BY Degree, SMT
<1>. QED BY <1>1, PartialSteps, PartialArray

(* mq_conv_small takes an integer above -q to its residue. *)
LEMMA ConvIs ==
  ASSUME NEW a \in [Index -> Coefficient]
  PROVE  mq_poly_conv(a) = Residues(a) /\ Residues(a) \in Array
<1>1. ASSUME NEW x \in Coefficient PROVE mq_conv_small(x) = x % Q /\ x % Q \in Zq
  <2>1. x \in Int
    BY DEF Coefficient
  <2>2. -2047 <= x /\ x <= 2047
    BY DEF Coefficient
  <2>3. mq_conv_small(x) = x % Q
    BY <2>1, <2>2, SMT DEF mq_conv_small, Corrected, Q
  <2>4. x % Q \in Zq
    BY <2>1, EqmMod
  <2>. QED BY <2>3, <2>4
<1>2. ASSUME NEW k \in Index
      PROVE  mq_conv_small(a[k]) = a[k] % Q /\ a[k] % Q \in Zq
  <2>1. PICK x \in Coefficient : x = a[k]
    OBVIOUS
  <2>. QED BY <1>1, <2>1, Zenon
<1>3. Residues(a) \in Array
  BY <1>2, Zenon DEF Residues, Array
<1>4. mq_poly_conv(a) = Residues(a)
  BY <1>2 DEF mq_poly_conv, Residues
<1>. QED BY <1>3, <1>4

LEMMA MontyValues ==
  /\ R \in Zq /\ R2 \in Zq /\ RI \in Zq /\ 1 \in Zq
  /\ Times(R2, RI) = R /\ Times(R, RI) = 1
BY SMT DEF R, R2, RI, Times, Q, Zq

(* to_ntt_monty and the Montgomery product cancel. *)
LEMMA MontyCancels ==
  ASSUME NEW x \in Zq, NEW y \in Zq
  PROVE  mq_montymul(x, mq_montymul(y, R2)) = Times(x, y)
<1>1. mq_montymul(y, R2) = Times(y, R)
  BY MontyValues, MontyTimes
<1>2. PICK z \in Zq : z = Times(y, R)
  BY MontyValues, OpsType
<1>3. mq_montymul(x, z) = Times(x, Times(z, RI))
  BY MontyTimes
<1>4. Times(z, RI) = Times(y, Times(R, RI))
  BY <1>2, MontyValues, RingLaws
<1>5. Times(y, 1) = y
  BY RingLaws
<1>. QED BY <1>1, <1>2, <1>3, <1>4, <1>5, MontyValues, Zenon

LEMMA ProductOfValues ==
  ASSUME NEW a \in Array, NEW b \in Array
  PROVE  mq_poly_montymul_ntt(mq_NTT(a), mq_poly_tomonty(mq_NTT(b))) = mq_NTT(RingMul(a, b))
<1>1. PICK x \in Array, y \in Array, z \in Array :
        x = mq_NTT(a) /\ y = mq_NTT(b) /\ z = mq_NTT(RingMul(a, b))
  BY RingMulArray, NttRange
<1>2. ASSUME NEW k \in Index PROVE mq_montymul(x[k], mq_montymul(y[k], R2)) = z[k]
  <2>1. PICK u \in Zq, v \in Zq : u = x[k] /\ v = y[k]
    BY ArrayCell
  <2>2. z[k] = Times(u, v)
    BY <1>1, <2>1, NttProduct
  <2>. QED BY <2>1, <2>2, MontyCancels
<1>3. mq_poly_montymul_ntt(x, mq_poly_tomonty(y))
        = [k \in Index |-> mq_montymul(x[k], mq_montymul(y[k], R2))]
  BY DEF mq_poly_montymul_ntt, mq_poly_tomonty
<1>4. z = [k \in Index |-> z[k]]
  BY DEF Array
<1>. QED BY <1>1, <1>2, <1>3, <1>4

(* verify_raw subtracts c0 from the product, the equation the product from *)
(* c0: the values of least size differ in sign only.                       *)
LEMMA LeastIs ==
  ASSUME NEW p \in Zq, NEW c \in Zq
  PROVE  /\ Least(c - p) = -Centered(mq_sub(p, c)) /\ Centered(mq_sub(p, c)) \in Int
<1>1. p \in Int /\ 0 <= p /\ p < Q /\ c \in Int /\ 0 <= c /\ c < Q
  BY OfResidue, Zenon
<1>2. PICK s \in Int : s = mq_sub(p, c)
  BY SubExact, ZqIsInt
<1>3. s = p - c \/ s = p - c + Q
  BY <1>1, <1>2, SMT DEF mq_sub, Corrected
<1>4. 0 <= s /\ s < Q
  BY <1>2, SubExact, OfResidue, Zenon
<1>5. /\ Centered(s) \in Int /\ (Centered(s) = s \/ Centered(s) = s - Q)
      /\ -6144 <= Centered(s) /\ Centered(s) <= 6144
  <2>1. CASE s > Q \div 2
    BY <1>4, <2>1, SMT DEF Centered, Q
  <2>2. CASE ~(s > Q \div 2)
    BY <1>4, <2>2, SMT DEF Centered, Q
  <2>. QED BY <2>1, <2>2
<1>6. PICK t \in Int : t = Centered(s)
  BY <1>5
<1>7. PICK w \in Int : w = c - p
  BY <1>1
<1> DEFINE top == Q \div 2
           S   == (-top)..top
<1>8. top = 6144
  BY SMT DEF Q
<1>9. /\ t = s \/ t = s - Q
      /\ -6144 <= t /\ t <= 6144
  BY <1>5, <1>6, SMT DEF Q
<1>10. s = -w \/ s = -w + Q
  BY <1>1, <1>3, <1>7, SMT
<1>11. t = -w \/ t = -w + Q \/ t = -w - Q
  BY <1>7, <1>9, <1>10, SMT DEF Q
<1> HIDE DEF top
<1>12. -t \in S
  BY <1>8, <1>9, SMT
<1>13. (-t - w) % Q = 0
  BY <1>7, <1>11, SMT DEF Q
<1>14. ASSUME NEW z \in S, (z - w) % Q = 0 PROVE z = -t
  <2>1. z \in Int /\ -6144 <= z /\ z <= 6144
    BY <1>8, SMT
  <2>. QED BY <1>7, <1>9, <1>11, <1>14, <2>1, SMT DEF Q
<1>15. Least(w) = CHOOSE z \in S : (z - w) % Q = 0
  BY Zenon DEF Least, top
<1> HIDE DEF S
<1>16. Least(w) \in S /\ (Least(w) - w) % Q = 0
  BY <1>12, <1>13, <1>15, Zenon
<1>17. Least(w) = -t
  BY <1>14, <1>16, Zenon
<1>. QED BY <1>2, <1>6, <1>7, <1>17

(* The squares are the same. *)
LEMMA NormOfEquation ==
  ASSUME NEW p \in Array, NEW c \in Array
  PROVE  SqNorm([k \in Index |-> Centered(mq_poly_sub(p, c)[k])])
           = SqNorm([k \in Index |-> Least(c[k] - p[k])])
<1> DEFINE x == [k \in Index |-> Centered(mq_poly_sub(p, c)[k])]
           y == [k \in Index |-> Least(c[k] - p[k])]
<1>1. ASSUME NEW k \in Index PROVE x[k] * x[k] = y[k] * y[k]
  <2>1. PICK u \in Zq, v \in Zq : u = p[k] /\ v = c[k]
    BY ArrayCell
  <2>2. PICK t \in Int : t = Centered(mq_sub(u, v)) /\ Least(v - u) = -t
    BY LeastIs
  <2>3. x[k] = t /\ y[k] = -t
    BY <2>1, <2>2 DEF mq_poly_sub
  <2>4. (-t) * (-t) = t * t
    BY SMT
  <2>. QED BY <2>3, <2>4
<1> HIDE DEF x, y
<1>2. [k \in Index |-> x[k] * x[k]] = [k \in Index |-> y[k] * y[k]]
  BY <1>1
<1>3. SqNorm(x) = SqNorm(y)
  BY <1>2 DEF SqNorm
<1>. QED BY <1>3 DEF x, y

(* In the middle of a transform of a, and of one back to p.                *)
Forward(a, x, nb) == \E j \in 0..(logn - 1) : nb = 2^j /\ x = Layered(a, j)

Backwards(p, x, nb) ==
  \E j \in 0..(logn - 1) :
    nb = 2^j /\ x = Scaled(2^(logn - (j + 1)), Layered(p, j + 1))

LEMMA ForwardStart ==
  ASSUME NEW a \in Array
  PROVE  Forward(a, a, 1)
<1>1. 0 \in 0..(logn - 1) /\ 2^0 = 1
  BY DegreeAssumption, SMT
<1>. QED BY <1>1, LayerByLayer DEF Forward

LEMMA LastBlocks ==
  ASSUME NEW j \in 0..(logn - 1)
  PROVE  /\ 2 * 2^j < n => j + 1 \in 0..(logn - 1)
         /\ ~(2 * 2^j < n) => j + 1 = logn
         /\ 2^j \div 2 > 0 => j - 1 \in 0..(logn - 1) /\ 2^j \div 2 = 2^(j - 1)
         /\ ~(2^j \div 2 > 0) => j = 0
<1>1. /\ 2^0 = 1 /\ 2^1 = 2 /\ 2^2 = 4 /\ 2^3 = 8 /\ 2^4 = 16
      /\ 0 + 1 = 1 /\ 1 + 1 = 2 /\ 2 + 1 = 3 /\ 3 + 1 = 4
      /\ 1 - 1 = 0 /\ 2 - 1 = 1 /\ 3 - 1 = 2
      /\ 1 \div 2 = 0 /\ 2 \div 2 = 1 /\ 4 \div 2 = 2 /\ 8 \div 2 = 4
  BY SMT
<1>2. logn = 1 => n = 2
  BY SMT DEF n
<1>3. \/ logn = 1 /\ n = 2
      \/ logn = 2 /\ n = 4
      \/ logn = 3 /\ n = 8
      \/ logn = 4 /\ n = 16
  <2>1. logn = 1 \/ logn = 2 \/ logn = 3 \/ logn = 4
    BY DegreeAssumption, SMT
  <2>. QED BY <1>2, <2>1, DegreeOf, Zenon
<1>4. j \in Int /\ 0 <= j
  OBVIOUS
<1>5. CASE j = 0
  <2>1. 2^j = 1
    BY <1>1, <1>5, Zenon
  <2>. QED BY <1>3, <1>5, <2>1, SMT
<1>6. CASE j = 1
  <2>1. 2^j = 2 /\ 2^(j - 1) = 1
    BY <1>1, <1>6, Zenon
  <2>. QED BY <1>3, <1>6, <2>1, SMT
<1>7. CASE j = 2
  <2>1. 2^j = 4 /\ 2^(j - 1) = 2
    BY <1>1, <1>7, Zenon
  <2>. QED BY <1>3, <1>7, <2>1, SMT
<1>8. CASE j = 3
  <2>1. 2^j = 8 /\ 2^(j - 1) = 4
    BY <1>1, <1>8, Zenon
  <2>. QED BY <1>3, <1>8, <2>1, SMT
<1>9. j = 0 \/ j = 1 \/ j = 2 \/ j = 3
  BY <1>3, SMT
<1>. QED BY <1>5, <1>6, <1>7, <1>8, <1>9, Zenon

LEMMA ForwardStep ==
  ASSUME NEW a \in Array, NEW x, NEW nb, Forward(a, x, nb)
  PROVE  /\ 2 * nb < n => Forward(a, NttLayer(x, nb), 2 * nb)
         /\ ~(2 * nb < n) => NttLayer(x, nb) = mq_NTT(a)
<1>1. PICK j \in 0..(logn - 1) : nb = 2^j /\ x = Layered(a, j)
  BY DEF Forward
<1>2. Layered(a, j + 1) = NttLayer(x, nb)
  BY <1>1, LayerAfter
<1>3. 2^(j + 1) = 2 * nb
  BY <1>1, PowersOfTwo
<1>4. ASSUME 2 * nb < n PROVE Forward(a, NttLayer(x, nb), 2 * nb)
  <2>1. j + 1 \in 0..(logn - 1)
    BY <1>1, <1>4, LastBlocks
  <2>. QED BY <1>2, <1>3, <2>1 DEF Forward
<1>5. ASSUME ~(2 * nb < n) PROVE NttLayer(x, nb) = mq_NTT(a)
  <2>1. j + 1 = logn
    BY <1>1, <1>5, LastBlocks
  <2>. QED BY <1>2, <2>1, LayerByLayer
<1>. QED BY <1>4, <1>5

LEMMA BackwardsStart ==
  ASSUME NEW p \in Array
  PROVE  Backwards(p, mq_NTT(p), n \div 2)
<1>1. PICK j \in 0..(logn - 1) : j = logn - 1
  BY UpAndDown, DegreeAssumption, SMT
<1>2. j + 1 = logn /\ logn - (j + 1) = 0
  BY <1>1, UpAndDown
<1>3. n \div 2 = 2^j
  <2>1. 2^(j + 1) = 2 * 2^j /\ 2^logn = n /\ 2^j \in Int
    BY PowersOfTwo, LastLayer, UpAndDown
  <2>. QED BY <1>2, <2>1
<1>4. mq_NTT(p) = Scaled(2^(logn - (j + 1)), Layered(p, j + 1))
  <2>1. 2^0 = 1
    BY SMT
  <2>2. mq_NTT(p) = Layered(p, logn) /\ Scaled(1, mq_NTT(p)) = mq_NTT(p)
    BY LayerByLayer, NttRange, ScaledOnce
  <2>. QED BY <1>2, <2>1, <2>2
<1>. QED BY <1>3, <1>4 DEF Backwards

LEMMA BackwardsStep ==
  ASSUME NEW p \in Array, NEW x, NEW nb, Backwards(p, x, nb)
  PROVE  /\ nb \div 2 > 0 => Backwards(p, InttLayer(x, nb), nb \div 2)
         /\ ~(nb \div 2 > 0) => InttLayer(x, nb) = Scaled(n, p)
<1>1. PICK j \in 0..(logn - 1) :
        nb = 2^j /\ x = Scaled(2^(logn - (j + 1)), Layered(p, j + 1))
  BY DEF Backwards
<1>2. PICK i \in 0..(logn - 1) : i = logn - (j + 1) /\ i + 1 = logn - j
  BY UpAndDown
<1>3. PICK c \in Zq : c = 2^i /\ 2^(i + 1) = Times(2, c)
  BY UpAndDown, PowersOfTwo
<1>4. PICK y \in Array : y = Layered(p, j) /\ Layered(p, j + 1) = NttLayer(y, nb)
  BY <1>1, LayerAfter
<1>5. PICK ht \in Blocks, nc \in Blocks : nc = nb /\ n = 2 * nc * ht
  BY <1>1, LayerSizes, BlockOfLayer, Zenon
<1>6. x = Scaled(c, NttLayer(y, nc))
  BY <1>1, <1>2, <1>3, <1>4, <1>5
<1>7. InttLayer(x, nc) = Scaled(Times(2, c), y)
  BY <1>5, <1>6, LayerBack
<1>8. InttLayer(x, nb) = Scaled(2^(logn - j), Layered(p, j))
  BY <1>2, <1>3, <1>4, <1>5, <1>7
<1>9. ASSUME nb \div 2 > 0 PROVE Backwards(p, InttLayer(x, nb), nb \div 2)
  <2>1. j - 1 \in 0..(logn - 1) /\ nb \div 2 = 2^(j - 1)
    BY <1>1, <1>9, LastBlocks
  <2>2. (j - 1) + 1 = j
    BY <2>1, DegreeAssumption, SMT
  <2>3. InttLayer(x, nb) = Scaled(2^(logn - ((j - 1) + 1)), Layered(p, (j - 1) + 1))
    BY <1>8, <2>2, Zenon
  <2>. QED BY <2>1, <2>3, Zenon DEF Backwards
<1>10. ASSUME ~(nb \div 2 > 0) PROVE InttLayer(x, nb) = Scaled(n, p)
  <2>1. j = 0
    BY <1>1, <1>10, LastBlocks
  <2>2. logn - 0 = logn /\ 2^logn = n /\ Layered(p, 0) = p
    BY UpAndDown, LastLayer, LayerByLayer
  <2>. QED BY <1>8, <2>1, <2>2, Zenon
<1>. QED BY <1>9, <1>10

(* The key that is accepted.                                               *)
LEMMA KeyIsArray ==
  ASSUME NEW bytes \in Seq(Byte), KeyAccepted(bytes)
  PROVE  AsPoly(modq_decode(bytes, n).x) \in Array
<1>1. modq_decode(bytes, n).v # 0
  BY DegreeNat DEF KeyAccepted
<1>. QED BY <1>1, KeyDecoded

(* s2*h in the ring, for the key and the value in the bytes. *)
Image == RingMul(Residues(sv), PublicKey)

(* What each stage has made of the key and of the value.                   *)
Transforms ==
  /\ pc = "ntt h" => Forward(PublicKey, h, m)
  /\ pc = "monty" => h = mq_NTT(PublicKey)
  /\ pc \in {"load", "ntt s2", "product"} => h = mq_poly_tomonty(mq_NTT(PublicKey))
  /\ pc = "ntt s2" => Forward(Residues(sv), tt, m)
  /\ pc = "product" => tt = mq_NTT(Residues(sv))
  /\ pc = "intt" => Backwards(Image, tt, m)
  /\ pc = "scale" => tt = Scaled(n, Image)
  /\ pc = "sub" => tt = Image
  /\ pc = "norm" => tt = mq_poly_sub(Image, call.c0)
  /\ VerdictOfEquation

LEMMA InputsOfTransforms ==
  ASSUME VInv, Delivery, pc \in HasValue
  PROVE  PublicKey \in Array /\ Residues(sv) \in Array /\ Image \in Array
         /\ mq_poly_conv(sv) = Residues(sv) /\ call.c0 \in Array
<1>1. pk \in Seq(Byte) /\ KeyAccepted(pk) /\ sv \in [Index -> Coefficient] /\ call.c0 \in Array
  BY CaseType DEF VInv, Delivery, HasValue
<1>2. PublicKey \in Array
  BY <1>1, KeyIsArray DEF PublicKey
<1>3. Residues(sv) \in Array /\ mq_poly_conv(sv) = Residues(sv)
  BY <1>1, ConvIs
<1>. QED BY <1>1, <1>2, <1>3, RingMulArray DEF Image

LEMMA ImageKept ==
  ASSUME pk' = pk, sv' = sv
  PROVE  PublicKey' = PublicKey /\ Image' = Image /\ Residues(sv)' = Residues(sv)
<1>1. PublicKey' = PublicKey
  BY PublicKeyKept
<1>. QED BY <1>1 DEF Image

(* Nothing is said before a value has been read, and of a refused call.    *)
LEMMA TransformsBefore ==
  ASSUME \/ pc' \in {"make", "encode", "key", "value"}
         \/ pc' = "done" /\ ret' \in {FORMAT, SIZE}
  PROVE  Transforms'
<1>1. ~(pc' = "done" /\ ret' \in {0, BADSIG})
  BY CodesDiffer
<1>. QED BY <1>1 DEF Transforms, VerdictOfEquation

LEMMA EarlyTransforms ==
  ASSUME MakePublic \/ Encode \/ DecodeKey
  PROVE  Transforms'
<1>1. \/ pc' \in {"make", "encode", "key", "value"}
      \/ pc' = "done" /\ ret' \in {FORMAT, SIZE}
  <2>1. CASE MakePublic  BY <2>1 DEF MakePublic, Return
  <2>2. CASE Encode  BY <2>2 DEF Encode, Return
  <2>3. CASE DecodeKey  BY <2>3 DEF DecodeKey, Return
  <2>. QED BY <2>1, <2>2, <2>3
<1>. QED BY <1>1, TransformsBefore

LEMMA DecodeValueTransforms ==
  ASSUME VInv, Delivery, DecodeValue
  PROVE  Transforms'
<1>1. pc = "value" /\ pk' = pk /\ h' = h
  BY DEF DecodeValue
<1>2. CASE pc' = "ntt h" /\ m' = 1
  <2>1. h = PublicKey /\ h \in Array /\ PublicKey' = PublicKey
    BY <1>1, PublicKeyKept DEF VInv, Delivery, HasKey
  <2>2. Forward(PublicKey, h, 1)
    BY <2>1, ForwardStart
  <2>3. Forward(PublicKey, h, m)'
    BY <1>1, <1>2, <2>1, <2>2
  <2>. QED BY <1>2, <2>3 DEF Transforms, VerdictOfEquation
<1>3. CASE pc' = "done" /\ ret' = FORMAT
  BY <1>3, TransformsBefore
<1>. QED BY <1>2, <1>3, ValueStep

LEMMA TransformKeyTransforms ==
  ASSUME VInv, Delivery, Transforms, TransformKey
  PROVE  Transforms'
<1>1. /\ pc = "ntt h" /\ pk' = pk /\ sv' = sv /\ h' = NttLayer(h, m) /\ m' = 2 * m
      /\ pc' = IF m' < n THEN pc ELSE "monty"
  BY DEF TransformKey
<1>2. PublicKey \in Array /\ PublicKey' = PublicKey
  BY <1>1, InputsOfTransforms, ImageKept DEF HasValue, HasKey
<1>3. Forward(PublicKey, h, m)
  BY <1>1 DEF Transforms
<1>4. /\ 2 * m < n => Forward(PublicKey, NttLayer(h, m), 2 * m)
      /\ ~(2 * m < n) => NttLayer(h, m) = mq_NTT(PublicKey)
  BY <1>2, <1>3, ForwardStep
<1>5. CASE m' < n
  <2>1. Forward(PublicKey, h, m)' /\ pc' = "ntt h"
    BY <1>1, <1>2, <1>4, <1>5
  <2>. QED BY <2>1 DEF Transforms, VerdictOfEquation
<1>6. CASE ~(m' < n)
  <2>1. (h = mq_NTT(PublicKey))' /\ pc' = "monty"
    BY <1>1, <1>2, <1>4, <1>6
  <2>. QED BY <2>1 DEF Transforms, VerdictOfEquation
<1>. QED BY <1>5, <1>6

LEMMA ToMontyTransforms ==
  ASSUME VInv, Delivery, Transforms, ToMonty
  PROVE  Transforms'
<1>1. pc = "monty" /\ pk' = pk /\ sv' = sv /\ h' = mq_poly_tomonty(h) /\ pc' = "load"
  BY DEF ToMonty
<1>2. h = mq_NTT(PublicKey) /\ PublicKey' = PublicKey
  BY <1>1, ImageKept DEF Transforms
<1>3. (h = mq_poly_tomonty(mq_NTT(PublicKey)))'
  BY <1>1, <1>2
<1>. QED BY <1>1, <1>3 DEF Transforms, VerdictOfEquation

LEMMA LoadTransforms ==
  ASSUME VInv, Delivery, Transforms, Load
  PROVE  Transforms'
<1>1. /\ pc = "load" /\ pk' = pk /\ sv' = sv /\ h' = h /\ pc' = "ntt s2" /\ m' = 1
      /\ tt' = mq_poly_conv(sv)
  BY DEF Load
<1>2. /\ Residues(sv) \in Array /\ mq_poly_conv(sv) = Residues(sv)
      /\ PublicKey' = PublicKey /\ Residues(sv)' = Residues(sv)
  BY <1>1, InputsOfTransforms, ImageKept DEF HasValue, HasKey
<1>3. (h = mq_poly_tomonty(mq_NTT(PublicKey)))'
  BY <1>1, <1>2 DEF Transforms
<1>4. Forward(Residues(sv), Residues(sv), 1)
  BY <1>2, ForwardStart
<1>5. Forward(Residues(sv), tt, m)'
  BY <1>1, <1>2, <1>4
<1>. QED BY <1>1, <1>3, <1>5 DEF Transforms, VerdictOfEquation

LEMMA TransformValueTransforms ==
  ASSUME VInv, Delivery, Transforms, TransformValue
  PROVE  Transforms'
<1>1. /\ pc = "ntt s2" /\ pk' = pk /\ sv' = sv /\ h' = h /\ tt' = NttLayer(tt, m) /\ m' = 2 * m
      /\ pc' = IF m' < n THEN pc ELSE "product"
  BY DEF TransformValue
<1>2. /\ Residues(sv) \in Array
      /\ PublicKey' = PublicKey /\ Residues(sv)' = Residues(sv)
  BY <1>1, InputsOfTransforms, ImageKept DEF HasValue, HasKey
<1>3. (h = mq_poly_tomonty(mq_NTT(PublicKey)))' /\ Forward(Residues(sv), tt, m)
  BY <1>1, <1>2 DEF Transforms
<1>4. /\ 2 * m < n => Forward(Residues(sv), NttLayer(tt, m), 2 * m)
      /\ ~(2 * m < n) => NttLayer(tt, m) = mq_NTT(Residues(sv))
  BY <1>2, <1>3, ForwardStep
<1>5. CASE m' < n
  <2>1. Forward(Residues(sv), tt, m)' /\ pc' = "ntt s2"
    BY <1>1, <1>2, <1>4, <1>5
  <2>. QED BY <1>3, <2>1 DEF Transforms, VerdictOfEquation
<1>6. CASE ~(m' < n)
  <2>1. (tt = mq_NTT(Residues(sv)))' /\ pc' = "product"
    BY <1>1, <1>2, <1>4, <1>6
  <2>. QED BY <1>3, <2>1 DEF Transforms, VerdictOfEquation
<1>. QED BY <1>5, <1>6

LEMMA ProductTransforms ==
  ASSUME VInv, Delivery, Transforms, Product
  PROVE  Transforms'
<1>1. /\ pc = "product" /\ pk' = pk /\ sv' = sv /\ pc' = "intt" /\ m' = n \div 2
      /\ tt' = mq_poly_montymul_ntt(tt, h)
  BY DEF Product
<1>2. /\ PublicKey \in Array /\ Residues(sv) \in Array /\ Image \in Array /\ Image' = Image
  BY <1>1, InputsOfTransforms, ImageKept DEF HasValue, HasKey
<1>3. h = mq_poly_tomonty(mq_NTT(PublicKey)) /\ tt = mq_NTT(Residues(sv))
  BY <1>1 DEF Transforms
<1>4. tt' = mq_NTT(Image)
  BY <1>1, <1>2, <1>3, ProductOfValues DEF Image
<1>5. Backwards(Image, mq_NTT(Image), n \div 2)
  BY <1>2, BackwardsStart
<1>6. Backwards(Image, tt, m)'
  BY <1>1, <1>2, <1>4, <1>5
<1>. QED BY <1>1, <1>6 DEF Transforms, VerdictOfEquation

LEMMA TransformBackTransforms ==
  ASSUME VInv, Delivery, Transforms, TransformBack
  PROVE  Transforms'
<1>1. /\ pc = "intt" /\ pk' = pk /\ sv' = sv /\ tt' = InttLayer(tt, m) /\ m' = m \div 2
      /\ pc' = IF m' > 0 THEN pc ELSE "scale"
  BY DEF TransformBack
<1>2. Image \in Array /\ Image' = Image
  BY <1>1, InputsOfTransforms, ImageKept DEF HasValue, HasKey
<1>3. Backwards(Image, tt, m)
  BY <1>1 DEF Transforms
<1>4. /\ m \div 2 > 0 => Backwards(Image, InttLayer(tt, m), m \div 2)
      /\ ~(m \div 2 > 0) => InttLayer(tt, m) = Scaled(n, Image)
  BY <1>2, <1>3, BackwardsStep
<1>5. CASE m' > 0
  <2>1. Backwards(Image, tt, m)' /\ pc' = "intt"
    BY <1>1, <1>2, <1>4, <1>5
  <2>. QED BY <2>1 DEF Transforms, VerdictOfEquation
<1>6. CASE ~(m' > 0)
  <2>1. (tt = Scaled(n, Image))' /\ pc' = "scale"
    BY <1>1, <1>2, <1>4, <1>6
  <2>. QED BY <2>1 DEF Transforms, VerdictOfEquation
<1>. QED BY <1>5, <1>6

LEMMA RescaleTransforms ==
  ASSUME VInv, Delivery, Transforms, Rescale
  PROVE  Transforms'
<1>1. pc = "scale" /\ pk' = pk /\ sv' = sv /\ tt' = Scale(tt) /\ pc' = "sub"
  BY DEF Rescale
<1>2. Image \in Array /\ Image' = Image
  BY <1>1, InputsOfTransforms, ImageKept DEF HasValue, HasKey
<1>3. tt = Scaled(n, Image)
  BY <1>1 DEF Transforms
<1>4. (tt = Image)'
  BY <1>1, <1>2, <1>3, ScaleUndone
<1>. QED BY <1>1, <1>4 DEF Transforms, VerdictOfEquation

LEMMA SubPointTransforms ==
  ASSUME VInv, Delivery, Transforms, SubPoint
  PROVE  Transforms'
<1>1. /\ pc = "sub" /\ pk' = pk /\ sv' = sv /\ call' = call
      /\ tt' = mq_poly_sub(tt, call.c0) /\ pc' = "norm"
  BY DEF SubPoint
<1>2. (tt = mq_poly_sub(Image, call.c0))'
  BY <1>1, ImageKept DEF Transforms
<1>. QED BY <1>1, <1>2 DEF Transforms, VerdictOfEquation

LEMMA JudgeTransforms ==
  ASSUME VInv, Delivery, Transforms, Judge
  PROVE  Transforms'
<1> DEFINE s == SqNorm([k \in Index |-> Centered(tt[k])]) + SqNorm(sv)
<1>1. /\ pc = "norm" /\ pk' = pk /\ sv' = sv /\ call' = call
      /\ pc' = "done" /\ ret' = IF s <= 3 * l2bound[logn] THEN 0 ELSE BADSIG
  BY DEF Judge, Return
<1>2. Image \in Array /\ call.c0 \in Array /\ PublicKey' = PublicKey
  BY <1>1, InputsOfTransforms, ImageKept DEF HasValue, HasKey
<1>3. tt = mq_poly_sub(Image, call.c0)
  BY <1>1 DEF Transforms
<1>4. SqNorm([k \in Index |-> Centered(tt[k])]) = SqNorm(S1)
  <2>1. S1 = [k \in Index |-> Least(call.c0[k] - Image[k])]
    BY DEF S1, Image
  <2>. QED BY <1>2, <1>3, <2>1, NormOfEquation
<1>5. s = SqNorm(S1) + SqNorm(sv)
  BY <1>4
<1>6. S1' = S1
  BY <1>1, <1>2 DEF S1
<1>7. BADSIG # 0
  BY DEF BADSIG
<1> HIDE DEF s
<1>8. ret' = 0 <=> s <= 3 * l2bound[logn]
  BY <1>1, <1>7
<1>9. VerdictOfEquation'
  BY <1>1, <1>5, <1>6, <1>8 DEF VerdictOfEquation
<1>. QED BY <1>1, <1>9 DEF Transforms

LEMMA TransformsNext ==
  ASSUME VInv, Delivery, Transforms, [Next]_vars
  PROVE  Transforms'
<1>1. CASE UNCHANGED vars
  <2>1. PublicKey' = PublicKey /\ Image' = Image /\ Residues(sv)' = Residues(sv)
    BY <1>1, ImageKept DEF vars
  <2>2. S1' = S1
    BY <1>1, <2>1 DEF S1, vars
  <2>. QED BY <1>1, <2>1, <2>2 DEF Transforms, VerdictOfEquation, vars
<1>2. CASE Next
  BY <1>2, EarlyTransforms, DecodeValueTransforms, TransformKeyTransforms, ToMontyTransforms,
     LoadTransforms, TransformValueTransforms, ProductTransforms, TransformBackTransforms,
     RescaleTransforms, SubPointTransforms, JudgeTransforms, Zenon DEF Next
<1>. QED BY <1>1, <1>2

(* For every degree here, key, value, point and bytes: the verdict of      *)
(* verify_raw is that of the signature equation s1 + s2*h = c0 over the    *)
(* ring, for the key and the value that are in the bytes (vrfy.c:653-703). *)
THEOREM VerdictIsEquation == Spec => []VerdictOfEquation
<1>1. Init => Transforms
  BY DEF Init, Transforms, VerdictOfEquation
<1>2. VInv /\ Delivery /\ Transforms /\ [Next]_vars => Transforms'
  BY TransformsNext
<1>3. Transforms => VerdictOfEquation
  BY DEF Transforms
<1>. QED BY <1>1, <1>2, <1>3, DeliveryInvariant, PTL DEF Spec

-----------------------------------------------------------------------------
(* Powers of residues, and Fermat's theorem for q.                         *)

(* The powers of a residue, by their exponents.                            *)
Exponents == 0..(Q - 1)

IsPowers(y, w) ==
  w[0] = 1 /\ \A i \in 1..(Q - 1) : w[i] = Times(y, w[i - 1])

Powers(y) == CHOOSE w \in [Exponents -> Zq] : IsPowers(y, w)
Raised(y, i) == Powers(y)[i]

LEMMA PowersExist ==
  ASSUME NEW y \in Zq
  PROVE  Powers(y) \in [Exponents -> Zq] /\ IsPowers(y, Powers(y))
<1> DEFINE U == {r \in (1..(Q - 1)) \X Zq \X Zq : r[3] = Times(y, r[2])}
<1>1. Q - 1 \in Nat /\ 1 \in Zq
  BY MontyValues, SMT DEF Q
<1>2. Total(Q - 1, Zq, U)
  <2>1. ASSUME NEW k \in 1..(Q - 1), NEW s \in Zq PROVE \E t \in Zq : <<k, s, t>> \in U
    <3>1. Times(y, s) \in Zq
      BY OpsType
    <3>. QED BY <3>1
  <2>. QED BY <2>1 DEF Total
<1>3. PICK w \in Runs(Q - 1, Zq) : w[0] = 1 /\ Steps(w, Q - 1, U)
  <2> HIDE DEF U
  <2>. QED BY <1>1, <1>2, Chain, Zenon
<1>4. w \in [Exponents -> Zq]
  BY DEF Runs, Exponents
<1>5. IsPowers(y, w)
  <2>1. \A i \in 1..(Q - 1) : w[i] = Times(y, w[i - 1])
    BY <1>3, Zenon DEF Steps
  <2>. QED BY <1>3, <2>1 DEF IsPowers
<1>. QED BY <1>4, <1>5, Zenon DEF Powers

LEMMA RaisedIs ==
  ASSUME NEW y \in Zq
  PROVE  /\ Raised(y, 0) = 1
         /\ \A i \in Exponents : Raised(y, i) \in Zq
         /\ \A i \in 0..(Q - 2) : Raised(y, i + 1) = Times(y, Raised(y, i))
<1>1. Powers(y) \in [Exponents -> Zq] /\ IsPowers(y, Powers(y))
  BY PowersExist
<1>2. ASSUME NEW i \in 0..(Q - 2) PROVE i + 1 \in 1..(Q - 1) /\ (i + 1) - 1 = i
  BY SMT DEF Q
<1>3. ASSUME NEW i \in 0..(Q - 2) PROVE Powers(y)[i + 1] = Times(y, Powers(y)[i])
  <2>1. Powers(y)[i + 1] = Times(y, Powers(y)[(i + 1) - 1])
    BY <1>1, <1>2 DEF IsPowers
  <2>. QED BY <1>2, <2>1
<1>4. Powers(y)[0] = 1 /\ \A i \in Exponents : Powers(y)[i] \in Zq
  BY <1>1 DEF IsPowers
<1>. QED BY <1>3, <1>4 DEF Raised

LEMMA RaisedSum ==
  ASSUME NEW y \in Zq, NEW i \in Exponents, NEW j \in Exponents, i + j \in Exponents
  PROVE  Raised(y, i + j) = Times(Raised(y, i), Raised(y, j))
<1> DEFINE P == {k \in 0..i : Raised(y, k + j) = Times(Raised(y, k), Raised(y, j))}
<1>1. i \in Nat /\ j \in Nat /\ 0 \in 0..i /\ i \in 0..i /\ 0 + j = j /\ i + j <= Q - 1
  BY SMT DEF Exponents, Q
<1>2. PICK z \in Zq : z = Raised(y, j)
  BY RaisedIs
<1>3. 0 \in P
  <2>1. Times(1, z) = z
    BY RingLaws
  <2>. QED BY <1>1, <1>2, <2>1, RaisedIs
<1>4. ASSUME NEW k \in 0..(i - 1), k \in P PROVE k + 1 \in P
  <2>1. /\ k \in 0..(Q - 2) /\ k + j \in 0..(Q - 2) /\ (k + 1) + j = (k + j) + 1
        /\ k + 1 \in 0..i /\ k \in Exponents
    BY <1>1, SMT DEF Q, Exponents
  <2>2. PICK x \in Zq : x = Raised(y, k)
    BY <2>1, RaisedIs
  <2>3. Raised(y, k + j) = Times(x, z)
    BY <1>2, <1>4, <2>2
  <2>4. Raised(y, (k + 1) + j) = Times(y, Times(x, z)) /\ Raised(y, k + 1) = Times(y, x)
    BY <2>1, <2>2, <2>3, RaisedIs
  <2>5. Times(y, Times(x, z)) = Times(Times(y, x), z)
    BY RingLaws
  <2>. QED BY <1>2, <2>1, <2>4, <2>5
<1>5. \A k \in 0..i : k \in P
  <2> HIDE DEF P
  <2>. QED BY <1>1, <1>3, <1>4, UpTo, Zenon
<1>. QED BY <1>1, <1>5

LEMMA RaisedProduct ==
  ASSUME NEW x \in Zq, NEW y \in Zq, NEW i \in Exponents
  PROVE  Raised(Times(x, y), i) = Times(Raised(x, i), Raised(y, i))
<1> DEFINE P == {k \in 0..i : Raised(Times(x, y), k) = Times(Raised(x, k), Raised(y, k))}
<1>1. i \in Nat /\ 0 \in 0..i /\ i \in 0..i /\ i <= Q - 1
  BY SMT DEF Exponents, Q
<1>2. PICK z \in Zq : z = Times(x, y)
  BY OpsType
<1>3. 0 \in P
  <2>1. Times(1, 1) = 1
    BY MontyValues, RingLaws
  <2>. QED BY <1>1, <1>2, <2>1, RaisedIs
<1>4. ASSUME NEW k \in 0..(i - 1), k \in P PROVE k + 1 \in P
  <2>1. k \in 0..(Q - 2) /\ k + 1 \in 0..i /\ k \in Exponents
    BY <1>1, SMT DEF Q, Exponents
  <2>2. PICK u \in Zq, v \in Zq : u = Raised(x, k) /\ v = Raised(y, k)
    BY <2>1, RaisedIs
  <2>3. Raised(z, k + 1) = Times(z, Times(u, v))
    BY <1>2, <1>4, <2>1, <2>2, RaisedIs
  <2>4. Raised(x, k + 1) = Times(x, u) /\ Raised(y, k + 1) = Times(y, v)
    BY <2>1, <2>2, RaisedIs
  <2>5. Times(Times(x, y), Times(u, v)) = Times(Times(x, u), Times(y, v))
    <3>1. PICK p \in Zq, s \in Zq : p = Times(u, v) /\ s = Times(y, v)
      BY OpsType
    <3>2. Times(Times(x, y), p) = Times(x, Times(y, p))
      BY RingLaws
    <3>3. Times(y, Times(u, v)) = Times(Times(y, u), v) /\ Times(y, u) = Times(u, y)
      BY RingLaws
    <3>4. Times(Times(u, y), v) = Times(u, Times(y, v))
      BY RingLaws
    <3>5. Times(x, Times(u, s)) = Times(Times(x, u), s)
      BY RingLaws
    <3>. QED BY <3>1, <3>2, <3>3, <3>4, <3>5
  <2>. QED BY <1>2, <2>1, <2>2, <2>3, <2>4, <2>5
<1>5. \A k \in 0..i : k \in P
  <2> HIDE DEF P
  <2>. QED BY <1>1, <1>3, <1>4, UpTo, Zenon
<1>. QED BY <1>1, <1>5

LEMMA RaisedOne ==
  ASSUME NEW i \in Exponents
  PROVE  Raised(1, i) = 1
<1> DEFINE P == {k \in 0..i : Raised(1, k) = 1}
<1>1. i \in Nat /\ 0 \in 0..i /\ i \in 0..i /\ i <= Q - 1
  BY SMT DEF Exponents, Q
<1>2. 1 \in Zq /\ Times(1, 1) = 1
  BY MontyValues, RingLaws
<1>3. 0 \in P
  BY <1>1, <1>2, RaisedIs
<1>4. ASSUME NEW k \in 0..(i - 1), k \in P PROVE k + 1 \in P
  <2>1. k \in 0..(Q - 2) /\ k + 1 \in 0..i
    BY <1>1, SMT DEF Q
  <2>2. Raised(1, k + 1) = Times(1, Raised(1, k))
    BY <1>2, <2>1, RaisedIs
  <2>. QED BY <1>2, <1>4, <2>1, <2>2
<1>5. \A k \in 0..i : k \in P
  <2> HIDE DEF P
  <2>. QED BY <1>1, <1>3, <1>4, UpTo, Zenon
<1>. QED BY <1>1, <1>5

(* The residues of which the power q - 1 is 1.                             *)
Unity == {y \in Zq : Raised(y, Q - 1) = 1}

LEMMA LastExponent ==
  /\ Q - 1 \in Exponents /\ Q - 2 \in Exponents /\ Q - 2 \in 0..(Q - 2) /\ (Q - 2) + 1 = Q - 1
  /\ 0 \in Zq /\ 1 \in Zq /\ Q - 1 \in Zq /\ 1 # 0
BY SMT DEF Exponents, Q, Zq

LEMMA UnityProduct ==
  ASSUME NEW x \in Unity, NEW y \in Unity
  PROVE  Times(x, y) \in Unity
<1>1. x \in Zq /\ y \in Zq /\ Raised(x, Q - 1) = 1 /\ Raised(y, Q - 1) = 1
  BY DEF Unity
<1>2. Raised(Times(x, y), Q - 1) = Times(1, 1) /\ Times(x, y) \in Zq
  BY <1>1, LastExponent, RaisedProduct, OpsType
<1>3. Times(1, 1) = 1
  BY LastExponent, RingLaws
<1>. QED BY <1>2, <1>3 DEF Unity

(* A factor of such a residue by another is one too, *)
LEMMA UnityFactor ==
  ASSUME NEW x \in Unity, NEW y \in Zq, Times(x, y) \in Unity
  PROVE  y \in Unity
<1>1. x \in Zq /\ Raised(x, Q - 1) = 1 /\ Raised(Times(x, y), Q - 1) = 1
  BY DEF Unity
<1>2. PICK z \in Zq : z = Raised(y, Q - 1)
  BY LastExponent, RaisedIs
<1>3. Times(1, z) = 1
  BY <1>1, <1>2, LastExponent, RaisedProduct
<1>4. Times(1, z) = z
  BY RingLaws
<1>. QED BY <1>2, <1>3, <1>4 DEF Unity

(* and has an inverse. *)
LEMMA UnityInverse ==
  ASSUME NEW x \in Unity
  PROVE  \E z \in Zq : z = Raised(x, Q - 2) /\ Times(x, z) = 1
<1>1. x \in Zq /\ Raised(x, Q - 1) = 1
  BY DEF Unity
<1>2. Raised(x, (Q - 2) + 1) = Times(x, Raised(x, Q - 2)) /\ Raised(x, Q - 2) \in Zq
  BY <1>1, LastExponent, RaisedIs
<1>. QED BY <1>1, <1>2, LastExponent

LEMMA UnityNotZero ==
  ASSUME NEW x \in Unity, NEW y \in Zq, Times(x, y) = 0
  PROVE  y = 0
<1>1. PICK z \in Zq : Times(x, z) = 1
  BY UnityInverse
<1>2. x \in Zq
  BY DEF Unity
<1>3. Times(z, Times(x, y)) = Times(Times(z, x), y) /\ Times(z, x) = Times(x, z)
  BY <1>2, RingLaws
<1>4. Times(1, y) = y /\ Times(z, 0) = 0
  BY RingLaws
<1>. QED BY <1>1, <1>3, <1>4

LEMMA RaisedTwice ==
  ASSUME NEW y \in Zq, NEW i \in Exponents, NEW j \in Exponents, j = 2 * i
  PROVE  Raised(y, j) = Times(Raised(y, i), Raised(y, i))
<1>1. i + i = j
  BY SMT DEF Exponents, Q
<1>. QED BY <1>1, RaisedSum

LEMMA UnityOne ==
  /\ 1 \in Unity /\ Q - 1 \in Unity
<1>1. 1 \in Unity
  BY LastExponent, RaisedOne DEF Unity
<1>2. Times(Q - 1, Q - 1) = 1
  BY SMT DEF Times, Q
<1>3. 6144 \in Exponents /\ 2 * 6144 = Q - 1
  BY SMT DEF Exponents, Q
<1>4. PICK y \in Zq : y = Q - 1
  BY LastExponent
<1>5. Raised(y, Q - 1) = Times(Raised(y, 6144), Raised(y, 6144))
  BY <1>3, LastExponent, RaisedTwice
<1>6. Raised(Times(y, y), 6144) = Times(Raised(y, 6144), Raised(y, 6144))
  BY <1>3, RaisedProduct
<1>7. Raised(Times(y, y), 6144) = 1
  BY <1>2, <1>3, <1>4, RaisedOne
<1>8. Raised(y, Q - 1) = 1
  BY <1>5, <1>6, <1>7
<1>. QED BY <1>1, <1>4, <1>8 DEF Unity

(* q - 1 is 3 * 2^12: a cube that is squared twelve times.                 *)
Squares(y, s) ==
  /\ s[1] = Times(y, Times(y, y)) /\ s[13] = 1
  /\ s[2] = Times(s[1], s[1]) /\ s[3] = Times(s[2], s[2]) /\ s[4] = Times(s[3], s[3])
  /\ s[5] = Times(s[4], s[4]) /\ s[6] = Times(s[5], s[5]) /\ s[7] = Times(s[6], s[6])
  /\ s[8] = Times(s[7], s[7]) /\ s[9] = Times(s[8], s[8]) /\ s[10] = Times(s[9], s[9])
  /\ s[11] = Times(s[10], s[10]) /\ s[12] = Times(s[11], s[11])
  /\ s[13] = Times(s[12], s[12])

LEMMA UnityBySquares ==
  ASSUME NEW y \in Zq, NEW s, Squares(y, s)
  PROVE  y \in Unity
<1>1. /\ 0 \in 0..(Q - 2) /\ 1 \in 0..(Q - 2) /\ 2 \in 0..(Q - 2) /\ 0 + 1 = 1 /\ 1 + 1 = 2 /\ 2 + 1 = 3
  BY SMT DEF Q
<1>2. /\ 3 \in Exponents /\ 6 \in Exponents /\ 12 \in Exponents /\ 24 \in Exponents
      /\ 48 \in Exponents /\ 96 \in Exponents /\ 192 \in Exponents /\ 384 \in Exponents
      /\ 768 \in Exponents /\ 1536 \in Exponents /\ 3072 \in Exponents
      /\ 6144 \in Exponents /\ 12288 \in Exponents /\ Q - 1 = 12288
  BY SMT DEF Exponents, Q
<1>3. Raised(y, 3) = s[1]
  <2>1. Times(y, 1) = y
    BY LastExponent, RingLaws
  <2>2. Raised(y, 1) = y /\ Raised(y, 2) = Times(y, y) /\ Raised(y, 3) = Times(y, Raised(y, 2))
    BY <1>1, <2>1, RaisedIs
  <2>. QED BY <2>2 DEF Squares

<1>4. Raised(y, 6) = s[2]
  <2>1. 6 = 2 * 3
    OBVIOUS
  <2>2. Raised(y, 6) = Times(Raised(y, 3), Raised(y, 3))
    BY <1>2, <2>1, RaisedTwice
  <2>3. s[2] = Times(s[1], s[1])
    BY Zenon DEF Squares
  <2>. QED BY <1>3, <2>2, <2>3, SMT
<1>5. Raised(y, 12) = s[3]
  <2>1. 12 = 2 * 6
    OBVIOUS
  <2>2. Raised(y, 12) = Times(Raised(y, 6), Raised(y, 6))
    BY <1>2, <2>1, RaisedTwice
  <2>3. s[3] = Times(s[2], s[2])
    BY Zenon DEF Squares
  <2>. QED BY <1>4, <2>2, <2>3, SMT
<1>6. Raised(y, 24) = s[4]
  <2>1. 24 = 2 * 12
    OBVIOUS
  <2>2. Raised(y, 24) = Times(Raised(y, 12), Raised(y, 12))
    BY <1>2, <2>1, RaisedTwice
  <2>3. s[4] = Times(s[3], s[3])
    BY Zenon DEF Squares
  <2>. QED BY <1>5, <2>2, <2>3, SMT
<1>7. Raised(y, 48) = s[5]
  <2>1. 48 = 2 * 24
    OBVIOUS
  <2>2. Raised(y, 48) = Times(Raised(y, 24), Raised(y, 24))
    BY <1>2, <2>1, RaisedTwice
  <2>3. s[5] = Times(s[4], s[4])
    BY Zenon DEF Squares
  <2>. QED BY <1>6, <2>2, <2>3, SMT
<1>8. Raised(y, 96) = s[6]
  <2>1. 96 = 2 * 48
    OBVIOUS
  <2>2. Raised(y, 96) = Times(Raised(y, 48), Raised(y, 48))
    BY <1>2, <2>1, RaisedTwice
  <2>3. s[6] = Times(s[5], s[5])
    BY Zenon DEF Squares
  <2>. QED BY <1>7, <2>2, <2>3, SMT
<1>9. Raised(y, 192) = s[7]
  <2>1. 192 = 2 * 96
    OBVIOUS
  <2>2. Raised(y, 192) = Times(Raised(y, 96), Raised(y, 96))
    BY <1>2, <2>1, RaisedTwice
  <2>3. s[7] = Times(s[6], s[6])
    BY Zenon DEF Squares
  <2>. QED BY <1>8, <2>2, <2>3, SMT
<1>10. Raised(y, 384) = s[8]
  <2>1. 384 = 2 * 192
    OBVIOUS
  <2>2. Raised(y, 384) = Times(Raised(y, 192), Raised(y, 192))
    BY <1>2, <2>1, RaisedTwice
  <2>3. s[8] = Times(s[7], s[7])
    BY Zenon DEF Squares
  <2>. QED BY <1>9, <2>2, <2>3, SMT
<1>11. Raised(y, 768) = s[9]
  <2>1. 768 = 2 * 384
    OBVIOUS
  <2>2. Raised(y, 768) = Times(Raised(y, 384), Raised(y, 384))
    BY <1>2, <2>1, RaisedTwice
  <2>3. s[9] = Times(s[8], s[8])
    BY Zenon DEF Squares
  <2>. QED BY <1>10, <2>2, <2>3, SMT
<1>12. Raised(y, 1536) = s[10]
  <2>1. 1536 = 2 * 768
    OBVIOUS
  <2>2. Raised(y, 1536) = Times(Raised(y, 768), Raised(y, 768))
    BY <1>2, <2>1, RaisedTwice
  <2>3. s[10] = Times(s[9], s[9])
    BY Zenon DEF Squares
  <2>. QED BY <1>11, <2>2, <2>3, SMT
<1>13. Raised(y, 3072) = s[11]
  <2>1. 3072 = 2 * 1536
    OBVIOUS
  <2>2. Raised(y, 3072) = Times(Raised(y, 1536), Raised(y, 1536))
    BY <1>2, <2>1, RaisedTwice
  <2>3. s[11] = Times(s[10], s[10])
    BY Zenon DEF Squares
  <2>. QED BY <1>12, <2>2, <2>3, SMT
<1>14. Raised(y, 6144) = s[12]
  <2>1. 6144 = 2 * 3072
    OBVIOUS
  <2>2. Raised(y, 6144) = Times(Raised(y, 3072), Raised(y, 3072))
    BY <1>2, <2>1, RaisedTwice
  <2>3. s[12] = Times(s[11], s[11])
    BY Zenon DEF Squares
  <2>. QED BY <1>13, <2>2, <2>3, SMT
<1>15. Raised(y, 12288) = s[13]
  <2>1. 12288 = 2 * 6144
    OBVIOUS
  <2>2. Raised(y, 12288) = Times(Raised(y, 6144), Raised(y, 6144))
    BY <1>2, <2>1, RaisedTwice
  <2>3. s[13] = Times(s[12], s[12])
    BY Zenon DEF Squares
  <2>. QED BY <1>14, <2>2, <2>3, SMT
<1>16. Raised(y, Q - 1) = 1
  <2>1. s[13] = 1
    BY Zenon DEF Squares
  <2>. QED BY <1>2, <1>15, <2>1, SMT
<1>. QED BY <1>16 DEF Unity

LEMMA UnityDirect ==
  /\ 2 \in Unity /\ 3 \in Unity /\ 5 \in Unity /\ 7 \in Unity /\ 11 \in Unity
  /\ 13 \in Unity /\ 17 \in Unity /\ 19 \in Unity /\ 29 \in Unity
<1>1. 2 \in Unity
  <2> DEFINE s == <<8, 64, 4096, 2731, 11227, 9545, 8668,
                    11567, 5146, 10810, 12288, 1, 1>>
  <2>1. Squares(2, s) /\ 2 \in Zq
    BY SMT DEF Squares, Times, Q, Zq
  <2>. QED BY <2>1, UnityBySquares
<1>2. 3 \in Unity
  <2> DEFINE s == <<27, 729, 3014, 2625, 8785, 1305, 7143,
                    10810, 12288, 1, 1, 1, 1>>
  <2>1. Squares(3, s) /\ 3 \in Zq
    BY SMT DEF Squares, Times, Q, Zq
  <2>. QED BY <2>1, UnityBySquares
<1>3. 5 \in Unity
  <2> DEFINE s == <<125, 3336, 7351, 2468, 7969, 7698, 1646,
                    5736, 4043, 1479, 12288, 1, 1>>
  <2>1. Squares(5, s) /\ 5 \in Zq
    BY SMT DEF Squares, Times, Q, Zq
  <2>. QED BY <2>1, UnityBySquares
<1>4. 7 \in Unity
  <2> DEFINE s == <<343, 7048, 2166, 9447, 3091, 5728, 10643,
                    5736, 4043, 1479, 12288, 1, 1>>
  <2>1. Squares(7, s) /\ 7 \in Zq
    BY SMT DEF Squares, Times, Q, Zq
  <2>. QED BY <2>1, UnityBySquares
<1>5. 11 \in Unity
  <2> DEFINE s == <<1331, 1945, 10302, 3400, 8340, 12149, 7311,
                    5860, 4134, 8246, 1479, 12288, 1>>
  <2>1. Squares(11, s) /\ 11 \in Zq
    BY SMT DEF Squares, Times, Q, Zq
  <2>. QED BY <2>1, UnityBySquares
<1>6. 13 \in Unity
  <2> DEFINE s == <<2197, 9521, 5777, 9094, 8155, 8246, 1479,
                    12288, 1, 1, 1, 1, 1>>
  <2>1. Squares(13, s) /\ 13 \in Zq
    BY SMT DEF Squares, Times, Q, Zq
  <2>. QED BY <2>1, UnityBySquares
<1>7. 17 \in Unity
  <2> DEFINE s == <<4913, 1973, 9405, 10092, 9521, 5777, 9094,
                    8155, 8246, 1479, 12288, 1, 1>>
  <2>1. Squares(17, s) /\ 17 \in Zq
    BY SMT DEF Squares, Times, Q, Zq
  <2>. QED BY <2>1, UnityBySquares
<1>8. 19 \in Unity
  <2> DEFINE s == <<6859, 3589, 2049, 7852, 12280, 81, 6561,
                    10643, 5736, 4043, 1479, 12288, 1>>
  <2>1. Squares(19, s) /\ 19 \in Zq
    BY SMT DEF Squares, Times, Q, Zq
  <2>. QED BY <2>1, UnityBySquares
<1>9. 29 \in Unity
  <2> DEFINE s == <<12100, 11143, 10682, 1759, 9542, 563, 9744,
                    722, 5146, 10810, 12288, 1, 1>>
  <2>1. Squares(29, s) /\ 29 \in Zq
    BY SMT DEF Squares, Times, Q, Zq
  <2>. QED BY <2>1, UnityBySquares
<1>. QED BY <1>1, <1>2, <1>3, <1>4, <1>5, <1>6, <1>7, <1>8, <1>9

(* A residue that is a product of such, or the opposite of one.            *)
ProductOfFour(y, a, b, c, d) ==
  (((a * b) * c) * d - y) % Q = 0 \/ (((a * b) * c) * d + y) % Q = 0

LEMMA UnityOfFour ==
  ASSUME NEW y \in Zq, NEW a \in Unity, NEW b \in Unity, NEW c \in Unity, NEW d \in Unity,
         ProductOfFour(y, a, b, c, d)
  PROVE  y \in Unity
<1>1. PICK z \in Unity : z = Times(Times(Times(a, b), c), d)
  BY UnityProduct
<1>2. a \in Int /\ b \in Int /\ c \in Int /\ d \in Int /\ y \in Int /\ z \in Zq
  BY ZqIsInt DEF Unity
<1>3. PICK w \in Int : w = ((a * b) * c) * d
  BY <1>2
<1>4. Eqm(z, w)
  BY <1>1, <1>2, <1>3, EqmRefl, EqmPlus
<1>5. CASE (w - y) % Q = 0
  <2>1. Eqm(w, y)
    <3>1. PICK t \in Int : w - y = Q * t
      BY <1>2, <1>5, SMT DEF Q
    <3>. QED BY <1>2, <3>1 DEF Eqm, Divides
  <2>2. z = y
    BY <1>2, <1>4, <2>1, EqmTrans, EqmZq
  <2>. QED BY <2>2
<1>6. CASE (w + y) % Q = 0
  <2>1. PICK u \in Unity : u = Times(Q - 1, z)
    BY UnityOne, UnityProduct
  <2>2. u \in Zq /\ Q - 1 \in Int
    BY LastExponent, ZqIsInt DEF Unity
  <2>3. Eqm(u, (Q - 1) * w)
    BY <1>4, <2>1, <2>2, EqmRefl, EqmPlus
  <2>4. Eqm((Q - 1) * w, y)
    <3>1. PICK t \in Int : w + y = Q * t
      BY <1>2, <1>6, SMT DEF Q
    <3>2. (Q - 1) * w - y = Q * (w - t) /\ w - t \in Int /\ (Q - 1) * w \in Int
      BY <1>2, <3>1, SMT DEF Q
    <3>. QED BY <1>2, <3>2 DEF Eqm, Divides
  <2>5. u = y
    BY <1>2, <2>2, <2>3, <2>4, EqmTrans, EqmZq
  <2>. QED BY <2>5
<1>. QED BY <1>3, <1>5, <1>6 DEF ProductOfFour

(* The other primes below 111, each with four smaller residues of which it *)
(* is the product modulo q, or the opposite of the product.                *)
Relations ==
  {<<23, 2, 18, 18, 19>>, <<31, 1, 20, 22, 28>>, <<37, 10, 22, 22, 33>>, <<41, 3, 23, 23, 31>>,
   <<43, 7, 23, 33, 37>>, <<47, 1, 17, 37, 39>>, <<53, 1, 7, 38, 46>>, <<59, 1, 6, 42, 49>>,
   <<61, 1, 13, 19, 50>>, <<67, 1, 15, 31, 53>>, <<71, 7, 13, 13, 52>>, <<73, 1, 13, 29, 65>>,
   <<79, 1, 3, 55, 74>>, <<83, 1, 5, 69, 71>>, <<89, 1, 4, 50, 61>>, <<97, 1, 7, 47, 75>>,
   <<101, 1, 3, 59, 70>>, <<103, 1, 5, 55, 89>>, <<107, 1, 7, 77, 91>>, <<109, 1, 2, 58, 105>>}

LEMMA RelationsHold ==
  ASSUME NEW r \in Relations
  PROVE  /\ r[1] \in Zq /\ ProductOfFour(r[1], r[2], r[3], r[4], r[5])
         /\ \A i \in 2..5 : r[i] \in 1..(r[1] - 1)
<1>1. ProductOfFour(r[1], r[2], r[3], r[4], r[5])
  BY SMT DEF Relations, ProductOfFour, Q
<1>2. r[1] \in Zq
  BY SMT DEF Relations, Zq, Q
<1>3. \A i \in 2..5 : r[i] \in 1..(r[1] - 1)
  <2>1. r[2] \in 1..(r[1] - 1) /\ r[3] \in 1..(r[1] - 1) /\ r[4] \in 1..(r[1] - 1) /\ r[5] \in 1..(r[1] - 1)
    BY SMT DEF Relations
  <2>. QED BY <2>1, SMT
<1>. QED BY <1>1, <1>2, <1>3

LEMMA UnityRelated ==
  ASSUME NEW r \in Relations, \A z \in 1..(r[1] - 1) : z \in Unity
  PROVE  r[1] \in Unity
<1>1. r[2] \in Unity /\ r[3] \in Unity /\ r[4] \in Unity /\ r[5] \in Unity
  BY RelationsHold
<1>. QED BY <1>1, RelationsHold, UnityOfFour

LEMMA SmallUnity ==
  ASSUME NEW y \in 1..110, \A z \in 1..(y - 1) : z \in Unity
  PROVE  y \in Unity
<1>1. CASE y \in {1, 2, 3, 5, 7, 11, 13, 17, 19, 29}
  BY <1>1, UnityOne, UnityDirect
<1>2. CASE \E r \in Relations : r[1] = y
  BY <1>2, UnityRelated
<1>3. CASE \E a \in {2, 3, 5, 7} : a # y /\ \E b \in 1..(y - 1) : a * b = y
  <2>1. PICK a \in {2, 3, 5, 7}, b \in 1..(y - 1) : a * b = y
    BY <1>3
  <2>2. a \in Unity /\ b \in Unity
    BY <2>1, UnityDirect
  <2>3. Times(a, b) = y
    <3>1. y % Q = y
      BY SMT DEF Q
    <3>. QED BY <2>1, <3>1 DEF Times
  <2>. QED BY <2>2, <2>3, UnityProduct
<1>4. \/ y \in {1, 2, 3, 5, 7, 11, 13, 17, 19, 29}
      \/ y \in {23, 31, 37, 41, 43, 47, 53, 59, 61, 67, 71, 73, 79, 83, 89, 97, 101, 103, 107, 109}
      \/ \E a \in {2, 3, 5, 7} : a # y /\ y % a = 0
  BY SMT
<1>5. CASE y \in {23, 31, 37, 41, 43, 47, 53, 59, 61, 67, 71, 73, 79, 83, 89, 97, 101, 103, 107, 109}
  <2>1. \E r \in Relations : r[1] = y
    BY <1>5, SMT DEF Relations
  <2>. QED BY <1>2, <2>1
<1>6. CASE \E a \in {2, 3, 5, 7} : a # y /\ y % a = 0
  <2>1. PICK a \in {2, 3, 5, 7} : a # y /\ y % a = 0
    BY <1>6
  <2>2. \E b \in 1..(y - 1) : a * b = y
    <3>1. CASE a = 2
      <4>1. y \div 2 \in 1..(y - 1) /\ 2 * (y \div 2) = y
        BY <2>1, <3>1, SMT
      <4>. QED BY <3>1, <4>1
    <3>2. CASE a = 3
      <4>1. y \div 3 \in 1..(y - 1) /\ 3 * (y \div 3) = y
        BY <2>1, <3>2, SMT
      <4>. QED BY <3>2, <4>1
    <3>3. CASE a = 5
      <4>1. y \div 5 \in 1..(y - 1) /\ 5 * (y \div 5) = y
        BY <2>1, <3>3, SMT
      <4>. QED BY <3>3, <4>1
    <3>4. CASE a = 7
      <4>1. y \div 7 \in 1..(y - 1) /\ 7 * (y \div 7) = y
        BY <2>1, <3>4, SMT
      <4>. QED BY <3>4, <4>1
    <3>. QED BY <3>1, <3>2, <3>3, <3>4
  <2>. QED BY <1>3, <2>1, <2>2
<1>. QED BY <1>1, <1>4, <1>5, <1>6

(* q = y * k + r with k and r below y: y is -r/k.                          *)
LEMMA LargeUnity ==
  ASSUME NEW y \in 111..(Q - 1), \A z \in 1..(y - 1) : z \in Unity
  PROVE  y \in Unity
<1>1. PICK k \in Int, r \in Int : 0 <= r /\ r < y /\ Q = y * k + r
  <2>1. y \in Int /\ y > 0 /\ Q \in Int
    BY SMT DEF Q
  <2>2. Q = y * (Q \div y) + (Q % y) /\ 0 <= Q % y /\ Q % y < y /\ Q \div y \in Int /\ Q % y \in Int
    BY <2>1, SMT
  <2>. QED BY <2>2
<1>2. y \in Int /\ 111 <= y /\ y < Q
  BY SMT DEF Q
<1>3. k \in 1..(y - 1)
  <2>1. k >= 1
    <3>1. SUFFICES ASSUME k <= 0 PROVE FALSE
      OBVIOUS
    <3>2. y * k <= 0
      BY <1>2, <3>1, SMT
    <3>. QED BY <1>1, <1>2, <3>2, SMT
  <2>2. k < 111
    <3>1. SUFFICES ASSUME k >= 111 PROVE FALSE
      BY <1>1, SMT
    <3>2. y * k >= 111 * 111
      BY <1>2, <3>1, SMT
    <3>. QED BY <1>1, <1>2, <3>2, SMT DEF Q
  <2>. QED BY <1>1, <1>2, <2>1, <2>2, SMT
<1>4. k \in Unity /\ k \in Zq /\ y \in Zq /\ r \in Zq /\ Q - 1 \in Zq
  <2>1. k \in Zq /\ y \in Zq /\ r \in Zq
    BY <1>1, <1>2, <1>3, SMT DEF Zq
  <2>. QED BY <1>3, <2>1, LastExponent
<1>5. Times(k, y) = Times(Q - 1, r)
  <2>1. Eqm(Times(k, y), k * y) /\ Eqm(Times(Q - 1, r), (Q - 1) * r)
    BY <1>4, ZqIsInt, EqmOps
  <2>2. Eqm(k * y, (Q - 1) * r)
    <3>1. k * y - (Q - 1) * r = Q * (1 - r)
      <4>1. k * y = Q - r
        BY <1>1, <1>2, SMT
      <4>2. Q - r - (Q - 1) * r = Q * (1 - r)
        BY <1>1, SMT DEF Q
      <4>. QED BY <4>1, <4>2
    <3>2. k * y \in Int /\ (Q - 1) * r \in Int /\ 1 - r \in Int
      BY <1>1, <1>2, SMT DEF Q
    <3>. QED BY <3>1, <3>2 DEF Eqm, Divides
  <2>3. Times(k, y) \in Zq /\ Times(Q - 1, r) \in Zq
    BY <1>4, OpsType
  <2>. QED BY <2>1, <2>2, <2>3, EqmSym, EqmTrans, EqmZq
<1>6. r # 0
  <2>1. SUFFICES ASSUME r = 0 PROVE FALSE
    OBVIOUS
  <2>2. Times(k, y) = 0
    BY <1>4, <1>5, <2>1, RingLaws
  <2>. QED BY <1>2, <1>4, <2>2, UnityNotZero
<1>7. r \in Unity
  <2>1. r \in 1..(y - 1)
    BY <1>1, <1>2, <1>6, SMT
  <2>. QED BY <2>1
<1>8. Times(k, y) \in Unity
  BY <1>5, <1>7, UnityOne, UnityProduct
<1>. QED BY <1>4, <1>8, UnityFactor

(* Fermat's theorem for q.                                                 *)
THEOREM Fermat ==
  ASSUME NEW y \in Zq, y # 0
  PROVE  Raised(y, Q - 1) = 1
<1> DEFINE P == {j \in 0..(Q - 1) : \A z \in 1..j : z \in Unity}
<1>1. Q - 1 \in Nat /\ y \in 1..(Q - 1) /\ Q - 1 \in 0..(Q - 1) /\ 1..0 = {}
  BY SMT DEF Q, Zq
<1>2. 0 \in P
  BY <1>1
<1>3. ASSUME NEW j \in 0..((Q - 1) - 1), j \in P PROVE j + 1 \in P
  <2>1. j + 1 \in 1..(Q - 1) /\ (j + 1) - 1 = j /\ j + 1 \in 0..(Q - 1)
    BY SMT DEF Q
  <2>2. \A z \in 1..((j + 1) - 1) : z \in Unity
    BY <1>3, <2>1
  <2>3. j + 1 \in Unity
    <3>1. PICK x \in 1..(Q - 1) : x = j + 1
      BY <2>1
    <3>2. x \in 1..110 \/ x \in 111..(Q - 1)
      BY SMT DEF Q
    <3>. QED BY <2>2, <3>1, <3>2, SmallUnity, LargeUnity
  <2>4. \A z \in 1..(j + 1) : z = j + 1 \/ z \in 1..j
    BY SMT
  <2>. QED BY <1>3, <2>1, <2>3, <2>4
<1>4. \A j \in 0..(Q - 1) : j \in P
  <2> HIDE DEF P
  <2>. QED BY <1>1, <1>2, <1>3, UpTo, Zenon
<1>. QED BY <1>1, <1>4 DEF Unity

-----------------------------------------------------------------------------
(* Division.                                                               *)

(* The Montgomery form of a power.                                         *)
Mont(y, i) == Times(R, Raised(y, i))

LEMMA MontIs ==
  ASSUME NEW y \in Zq
  PROVE  /\ mq_montymul(y, R2) = Mont(y, 1)
         /\ \A x \in Zq : mq_montymul(Mont(y, Q - 2), x) = Times(Raised(y, Q - 2), x)
<1>1. /\ 0 \in 0..(Q - 2) /\ 0 + 1 = 1
  BY SMT DEF Q
<1>2. Raised(y, 1) = y
  <2>1. Times(y, 1) = y
    BY RingLaws, MontyValues
  <2>. QED BY <1>1, <2>1, RaisedIs
<1>3. mq_montymul(y, R2) = Mont(y, 1)
  <2>1. mq_montymul(y, R2) = Times(y, R)
    BY MontyValues, MontyTimes
  <2>. QED BY <1>2, <2>1, MontyValues, RingLaws DEF Mont
<1>4. ASSUME NEW x \in Zq
      PROVE  mq_montymul(Mont(y, Q - 2), x) = Times(Raised(y, Q - 2), x)
  <2>1. PICK p \in Zq : p = Raised(y, Q - 2)
    BY LastExponent, RaisedIs
  <2>2. PICK z \in Zq : z = Times(R, p)
    BY MontyValues, OpsType
  <2>3. mq_montymul(z, x) = Times(Times(R, p), Times(x, RI))
    BY <2>2, MontyTimes
  <2>4. PICK t \in Zq : t = Times(x, RI)
    BY MontyValues, OpsType
  <2>5. Times(R, p) = Times(p, R) /\ Times(Times(p, R), t) = Times(p, Times(R, t))
    BY MontyValues, RingLaws
  <2>6. Times(R, Times(x, RI)) = x
    <3>1. Times(x, RI) = Times(RI, x) /\ Times(R, Times(RI, x)) = Times(Times(R, RI), x)
      BY MontyValues, RingLaws
    <3>2. Times(1, x) = x
      BY RingLaws
    <3>. QED BY <3>1, <3>2, MontyValues
  <2>. QED BY <2>1, <2>2, <2>3, <2>4, <2>5, <2>6 DEF Mont
<1>. QED BY <1>3, <1>4

LEMMA MontClimbs ==
  ASSUME NEW y \in Zq, NEW i \in Exponents, NEW j \in Exponents, NEW k \in Exponents, k = i + j
  PROVE  mq_montymul(Mont(y, i), Mont(y, j)) = Mont(y, k)
<1>1. PICK u \in Zq, v \in Zq : u = Raised(y, i) /\ v = Raised(y, j)
  BY RaisedIs
<1>2. PICK x \in Zq, z \in Zq : x = Times(R, u) /\ z = Times(R, v)
  BY MontyValues, OpsType
<1>3. mq_montymul(x, z) = Times(x, Times(z, RI))
  BY MontyTimes
<1>4. Times(z, RI) = v
  <2>1. Times(R, v) = Times(v, R) /\ Times(Times(v, R), RI) = Times(v, Times(R, RI))
    BY MontyValues, RingLaws
  <2>2. Times(v, 1) = v
    BY RingLaws
  <2>. QED BY <1>2, <2>1, <2>2, MontyValues
<1>5. Times(Times(R, u), v) = Times(R, Times(u, v))
  BY MontyValues, RingLaws
<1>6. Raised(y, k) = Times(u, v)
  BY <1>1, RaisedSum
<1>. QED BY <1>1, <1>2, <1>3, <1>4, <1>5, <1>6 DEF Mont

(* The addition chain of mq_div_12289 is one for q - 2 (vrfy.c:435-499).   *)
LEMMA DivIsPower ==
  ASSUME NEW x \in Zq, NEW y \in Zq
  PROVE  mq_div_12289(x, y) = Times(Raised(y, Q - 2), x)
<1> DEFINE y0  == mq_montymul(y, R2)
           y1  == mq_montysqr(y0)
           y2  == mq_montymul(y1, y0)
           y3  == mq_montymul(y2, y1)
           y4  == mq_montysqr(y3)
           y5  == mq_montysqr(y4)
           y6  == mq_montysqr(y5)
           y7  == mq_montysqr(y6)
           y8  == mq_montysqr(y7)
           y9  == mq_montymul(y8, y2)
           y10 == mq_montymul(y9, y8)
           y11 == mq_montysqr(y10)
           y12 == mq_montysqr(y11)
           y13 == mq_montymul(y12, y9)
           y14 == mq_montysqr(y13)
           y15 == mq_montysqr(y14)
           y16 == mq_montymul(y15, y10)
           y17 == mq_montysqr(y16)
           y18 == mq_montymul(y17, y0)
<1>1. mq_div_12289(x, y) = mq_montymul(y18, x)
  BY Zenon DEF mq_div_12289
<1>2. Q - 2 = 12287
  BY SMT DEF Q
<1>3. y0 = Mont(y, 1)
  BY MontIs
<1> HIDE DEF y0
<1>4. y1 = Mont(y, 2)
  <2>1. 1 \in Exponents /\ 2 \in Exponents /\ 2 = 1 + 1
    BY SMT DEF Exponents, Q
  <2>2. mq_montymul(Mont(y, 1), Mont(y, 1)) = Mont(y, 2)
    BY <2>1, MontClimbs
  <2>. QED BY <1>3, <2>2 DEF mq_montysqr
<1> HIDE DEF y1
<1>5. y2 = Mont(y, 3)
  <2>1. 1 \in Exponents /\ 2 \in Exponents /\ 3 \in Exponents /\ 3 = 2 + 1
    BY SMT DEF Exponents, Q
  <2>2. mq_montymul(Mont(y, 2), Mont(y, 1)) = Mont(y, 3)
    BY <2>1, MontClimbs
  <2>. QED BY <1>4, <1>3, <2>2 DEF mq_montysqr
<1> HIDE DEF y2
<1>6. y3 = Mont(y, 5)
  <2>1. 2 \in Exponents /\ 3 \in Exponents /\ 5 \in Exponents /\ 5 = 3 + 2
    BY SMT DEF Exponents, Q
  <2>2. mq_montymul(Mont(y, 3), Mont(y, 2)) = Mont(y, 5)
    BY <2>1, MontClimbs
  <2>. QED BY <1>5, <1>4, <2>2 DEF mq_montysqr
<1> HIDE DEF y3
<1>7. y4 = Mont(y, 10)
  <2>1. 5 \in Exponents /\ 10 \in Exponents /\ 10 = 5 + 5
    BY SMT DEF Exponents, Q
  <2>2. mq_montymul(Mont(y, 5), Mont(y, 5)) = Mont(y, 10)
    BY <2>1, MontClimbs
  <2>. QED BY <1>6, <2>2 DEF mq_montysqr
<1> HIDE DEF y4
<1>8. y5 = Mont(y, 20)
  <2>1. 10 \in Exponents /\ 20 \in Exponents /\ 20 = 10 + 10
    BY SMT DEF Exponents, Q
  <2>2. mq_montymul(Mont(y, 10), Mont(y, 10)) = Mont(y, 20)
    BY <2>1, MontClimbs
  <2>. QED BY <1>7, <2>2 DEF mq_montysqr
<1> HIDE DEF y5
<1>9. y6 = Mont(y, 40)
  <2>1. 20 \in Exponents /\ 40 \in Exponents /\ 40 = 20 + 20
    BY SMT DEF Exponents, Q
  <2>2. mq_montymul(Mont(y, 20), Mont(y, 20)) = Mont(y, 40)
    BY <2>1, MontClimbs
  <2>. QED BY <1>8, <2>2 DEF mq_montysqr
<1> HIDE DEF y6
<1>10. y7 = Mont(y, 80)
  <2>1. 40 \in Exponents /\ 80 \in Exponents /\ 80 = 40 + 40
    BY SMT DEF Exponents, Q
  <2>2. mq_montymul(Mont(y, 40), Mont(y, 40)) = Mont(y, 80)
    BY <2>1, MontClimbs
  <2>. QED BY <1>9, <2>2 DEF mq_montysqr
<1> HIDE DEF y7
<1>11. y8 = Mont(y, 160)
  <2>1. 80 \in Exponents /\ 160 \in Exponents /\ 160 = 80 + 80
    BY SMT DEF Exponents, Q
  <2>2. mq_montymul(Mont(y, 80), Mont(y, 80)) = Mont(y, 160)
    BY <2>1, MontClimbs
  <2>. QED BY <1>10, <2>2 DEF mq_montysqr
<1> HIDE DEF y8
<1>12. y9 = Mont(y, 163)
  <2>1. 3 \in Exponents /\ 160 \in Exponents /\ 163 \in Exponents /\ 163 = 160 + 3
    BY SMT DEF Exponents, Q
  <2>2. mq_montymul(Mont(y, 160), Mont(y, 3)) = Mont(y, 163)
    BY <2>1, MontClimbs
  <2>. QED BY <1>11, <1>5, <2>2 DEF mq_montysqr
<1> HIDE DEF y9
<1>13. y10 = Mont(y, 323)
  <2>1. 160 \in Exponents /\ 163 \in Exponents /\ 323 \in Exponents /\ 323 = 163 + 160
    BY SMT DEF Exponents, Q
  <2>2. mq_montymul(Mont(y, 163), Mont(y, 160)) = Mont(y, 323)
    BY <2>1, MontClimbs
  <2>. QED BY <1>12, <1>11, <2>2 DEF mq_montysqr
<1> HIDE DEF y10
<1>14. y11 = Mont(y, 646)
  <2>1. 323 \in Exponents /\ 646 \in Exponents /\ 646 = 323 + 323
    BY SMT DEF Exponents, Q
  <2>2. mq_montymul(Mont(y, 323), Mont(y, 323)) = Mont(y, 646)
    BY <2>1, MontClimbs
  <2>. QED BY <1>13, <2>2 DEF mq_montysqr
<1> HIDE DEF y11
<1>15. y12 = Mont(y, 1292)
  <2>1. 646 \in Exponents /\ 1292 \in Exponents /\ 1292 = 646 + 646
    BY SMT DEF Exponents, Q
  <2>2. mq_montymul(Mont(y, 646), Mont(y, 646)) = Mont(y, 1292)
    BY <2>1, MontClimbs
  <2>. QED BY <1>14, <2>2 DEF mq_montysqr
<1> HIDE DEF y12
<1>16. y13 = Mont(y, 1455)
  <2>1. 163 \in Exponents /\ 1292 \in Exponents /\ 1455 \in Exponents /\ 1455 = 1292 + 163
    BY SMT DEF Exponents, Q
  <2>2. mq_montymul(Mont(y, 1292), Mont(y, 163)) = Mont(y, 1455)
    BY <2>1, MontClimbs
  <2>. QED BY <1>15, <1>12, <2>2 DEF mq_montysqr
<1> HIDE DEF y13
<1>17. y14 = Mont(y, 2910)
  <2>1. 1455 \in Exponents /\ 2910 \in Exponents /\ 2910 = 1455 + 1455
    BY SMT DEF Exponents, Q
  <2>2. mq_montymul(Mont(y, 1455), Mont(y, 1455)) = Mont(y, 2910)
    BY <2>1, MontClimbs
  <2>. QED BY <1>16, <2>2 DEF mq_montysqr
<1> HIDE DEF y14
<1>18. y15 = Mont(y, 5820)
  <2>1. 2910 \in Exponents /\ 5820 \in Exponents /\ 5820 = 2910 + 2910
    BY SMT DEF Exponents, Q
  <2>2. mq_montymul(Mont(y, 2910), Mont(y, 2910)) = Mont(y, 5820)
    BY <2>1, MontClimbs
  <2>. QED BY <1>17, <2>2 DEF mq_montysqr
<1> HIDE DEF y15
<1>19. y16 = Mont(y, 6143)
  <2>1. 323 \in Exponents /\ 5820 \in Exponents /\ 6143 \in Exponents /\ 6143 = 5820 + 323
    BY SMT DEF Exponents, Q
  <2>2. mq_montymul(Mont(y, 5820), Mont(y, 323)) = Mont(y, 6143)
    BY <2>1, MontClimbs
  <2>. QED BY <1>18, <1>13, <2>2 DEF mq_montysqr
<1> HIDE DEF y16
<1>20. y17 = Mont(y, 12286)
  <2>1. 6143 \in Exponents /\ 12286 \in Exponents /\ 12286 = 6143 + 6143
    BY SMT DEF Exponents, Q
  <2>2. mq_montymul(Mont(y, 6143), Mont(y, 6143)) = Mont(y, 12286)
    BY <2>1, MontClimbs
  <2>. QED BY <1>19, <2>2 DEF mq_montysqr
<1> HIDE DEF y17
<1>21. y18 = Mont(y, 12287)
  <2>1. 1 \in Exponents /\ 12286 \in Exponents /\ 12287 \in Exponents /\ 12287 = 12286 + 1
    BY SMT DEF Exponents, Q
  <2>2. mq_montymul(Mont(y, 12286), Mont(y, 1)) = Mont(y, 12287)
    <3>1. PICK i \in Exponents, j \in Exponents, k \in Exponents :
            i = 12286 /\ j = 1 /\ k = 12287 /\ k = i + j
      BY <2>1
    <3>2. mq_montymul(Mont(y, i), Mont(y, j)) = Mont(y, k)
      BY <3>1, MontClimbs
    <3>. QED BY <3>1, <3>2
  <2>. QED BY <1>20, <1>3, <2>2 DEF mq_montysqr
<1> HIDE DEF y18
<1>22. y18 = Mont(y, Q - 2)
  BY <1>2, <1>21, SMT
<1>. QED BY <1>1, <1>22, MontIs, Zenon

(* mq_div_12289 divides: what it yields times the divisor is the dividend, *)
(* and there is no other such residue (vrfy.c:435-499).                    *)
THEOREM DivUndone ==
  ASSUME NEW x \in Zq, NEW y \in Zq, y # 0
  PROVE  /\ Times(mq_div_12289(x, y), y) = x
         /\ mq_div_12289(Times(x, y), y) = x
<1>1. PICK p \in Zq : p = Raised(y, Q - 2)
  BY LastExponent, RaisedIs
<1>2. Times(y, p) = 1
  <2>1. Raised(y, (Q - 2) + 1) = Times(y, p)
    BY <1>1, LastExponent, RaisedIs
  <2>. QED BY <2>1, LastExponent, Fermat
<1>3. Times(p, y) = 1
  BY <1>2, RingLaws
<1>4. Times(Times(p, x), y) = x
  <2>1. Times(p, x) = Times(x, p) /\ Times(Times(x, p), y) = Times(x, Times(p, y))
    BY RingLaws
  <2>2. Times(x, 1) = x
    BY RingLaws
  <2>. QED BY <1>3, <2>1, <2>2
<1>5. Times(p, Times(x, y)) = x
  <2>1. Times(x, y) = Times(y, x) /\ Times(p, Times(y, x)) = Times(Times(p, y), x)
    BY RingLaws
  <2>2. Times(1, x) = x
    BY RingLaws
  <2>. QED BY <1>3, <2>1, <2>2
<1>6. PICK z \in Zq : z = Times(x, y)
  BY OpsType
<1>. QED BY <1>1, <1>4, <1>5, <1>6, DivIsPower

-----------------------------------------------------------------------------
(* The three inversions.                                                   *)

(* A quotient in the values, transformed back. *)
Quot(x, y) == mq_iNTT([k \in Index |-> mq_div_12289(x[k], y[k])])

LEMMA QuotientIs ==
  ASSUME NEW x \in Array, NEW y \in Array, \A k \in Index : y[k] # 0
  PROVE  /\ Quot(x, y) \in Array
         /\ \A k \in Index : Times(mq_NTT(Quot(x, y))[k], y[k]) = x[k]
<1>1. ASSUME NEW k \in Index
      PROVE  mq_div_12289(x[k], y[k]) \in Zq /\ Times(mq_div_12289(x[k], y[k]), y[k]) = x[k]
  <2>1. PICK s \in Zq, t \in Zq : s = x[k] /\ t = y[k] /\ t # 0
    BY ArrayCell
  <2>. QED BY <2>1, DivRange, DivUndone
<1>2. PICK z \in Array : z = [k \in Index |-> mq_div_12289(x[k], y[k])]
  BY <1>1 DEF Array
<1>3. Quot(x, y) = mq_iNTT(z)
  BY <1>2 DEF Quot
<1>4. mq_iNTT(z) \in Array /\ mq_NTT(mq_iNTT(z)) = z
  BY InttRange, InttUndone
<1>. QED BY <1>1, <1>2, <1>3, <1>4

LEMMA QuotientOf ==
  ASSUME NEW d \in Array, NEW x, NEW y \in Array,
         \A k \in Index : y[k] # 0 /\ x[k] = Times(mq_NTT(d)[k], y[k])
  PROVE  Quot(x, y) = d
<1>1. PICK z \in Array : z = mq_NTT(d)
  BY NttRange
<1>2. ASSUME NEW k \in Index PROVE mq_div_12289(x[k], y[k]) = z[k]
  <2>1. PICK s \in Zq, t \in Zq : s = z[k] /\ t = y[k] /\ t # 0
    BY ArrayCell
  <2>2. mq_div_12289(Times(s, t), t) = s
    BY <2>1, DivUndone
  <2>. QED BY <1>1, <2>1, <2>2
<1>3. z = [k \in Index |-> z[k]]
  BY DEF Array
<1>4. [k \in Index |-> mq_div_12289(x[k], y[k])] = z
  BY <1>2, <1>3
<1>. QED BY <1>1, <1>4, NttUndone DEF Quot

(* Polynomials with the same values are the same. *)
LEMMA NttSame ==
  ASSUME NEW a \in Array, NEW b \in Array, \A k \in Index : mq_NTT(a)[k] = mq_NTT(b)[k]
  PROVE  a = b
<1>1. PICK x \in Array, y \in Array : x = mq_NTT(a) /\ y = mq_NTT(b)
  BY NttRange
<1>2. x = y
  BY <1>1 DEF Array
<1>. QED BY <1>1, <1>2, NttUndone

LEMMA SmallConv ==
  ASSUME NEW a \in SmallPoly
  PROVE  mq_poly_conv(a) = Residues(a) /\ Residues(a) \in Array
<1>1. \A z \in (-127)..127 : z \in Coefficient
  BY SMT DEF Coefficient
<1>2. a \in [Index -> Coefficient]
  BY <1>1 DEF SmallPoly
<1>. QED BY <1>2, ConvIs

(* compute_public divides g by f in the ring (vrfy.c:705-729). *)
THEOREM PublicIsQuotient ==
  ASSUME NEW a \in SmallPoly, NEW b \in SmallPoly, compute_public(a, b).ok
  PROVE  RingMul(compute_public(a, b).val, Residues(a)) = Residues(b)
<1>1. PICK x \in Array, y \in Array : x = Residues(a) /\ y = Residues(b)
  BY SmallConv
<1>2. PICK xx \in Array, yy \in Array : xx = mq_NTT(x) /\ yy = mq_NTT(y)
  BY NttRange
<1>3. /\ \A k \in Index : xx[k] # 0
      /\ compute_public(a, b).val = Quot(yy, xx)
  <2>1. xx = mq_NTT(mq_poly_conv(a)) /\ yy = mq_NTT(mq_poly_conv(b))
    BY <1>1, <1>2, SmallConv
  <2>. QED BY <2>1 DEF compute_public, Failed, Quot
<1>4. PICK d \in Array : d = Quot(yy, xx) /\ \A k \in Index : Times(mq_NTT(d)[k], xx[k]) = yy[k]
  BY <1>3, QuotientIs
<1>5. PICK p \in Array : p = RingMul(d, x)
  BY RingMulArray
<1>6. \A k \in Index : mq_NTT(p)[k] = mq_NTT(y)[k]
  BY <1>2, <1>4, <1>5, NttProduct
<1>7. p = y
  BY <1>6, NttSame
<1>. QED BY <1>1, <1>3, <1>4, <1>5, <1>7

(* What complete_private makes of a residue. *)
LowHalf(t) == IF t >= Q \div 2 THEN t - Q ELSE t

LEMMA LowHalfIs ==
  ASSUME NEW z \in (-127)..127
  PROVE  LowHalf(z % Q) = z
BY SMT DEF LowHalf, Q

LEMMA MontyProduct ==
  ASSUME NEW x \in Zq, NEW y \in Zq
  PROVE  mq_montymul(mq_montymul(x, R2), y) = Times(x, y)
<1>1. PICK z \in Zq : z = mq_montymul(x, R2)
  BY MontyValues, MontyExact
<1>2. mq_montymul(z, y) = mq_montymul(y, z)
  <2>1. mq_montymul(z, y) = Times(z, Times(y, RI)) /\ mq_montymul(y, z) = Times(y, Times(z, RI))
    BY MontyTimes
  <2>2. Times(z, Times(y, RI)) = Times(Times(z, y), RI) /\ Times(z, y) = Times(y, z)
        /\ Times(y, Times(z, RI)) = Times(Times(y, z), RI)
    BY MontyValues, RingLaws
  <2>. QED BY <2>1, <2>2
<1>3. mq_montymul(y, z) = Times(y, x) /\ Times(y, x) = Times(x, y)
  BY <1>1, MontyCancels, RingLaws
<1>. QED BY <1>1, <1>2, <1>3

(* complete_private finds the G of an NTRU key again from f, g and F, for  *)
(* an f that compute_public takes (vrfy.c:731-775).                        *)
THEOREM PrivateIsCompleted ==
  ASSUME NEW a \in SmallPoly, NEW b \in SmallPoly, NEW c \in SmallPoly, NEW d \in SmallPoly,
         compute_public(a, b).ok,
         RingMul(Residues(a), Residues(d)) = RingMul(Residues(b), Residues(c))
  PROVE  complete_private(a, b, c) = [ok |-> TRUE, val |-> d]
<1>1. PICK x \in Array, y \in Array, z \in Array, w \in Array :
        /\ x = Residues(a) /\ y = Residues(b) /\ z = Residues(c) /\ w = Residues(d)
        /\ x = mq_poly_conv(a) /\ y = mq_poly_conv(b) /\ z = mq_poly_conv(c)
  BY SmallConv
<1>2. PICK xx \in Array, yy \in Array, zz \in Array, ww \in Array :
        xx = mq_NTT(x) /\ yy = mq_NTT(y) /\ zz = mq_NTT(z) /\ ww = mq_NTT(w)
  BY NttRange
<1>3. \A k \in Index : xx[k] # 0
  BY <1>1, <1>2 DEF compute_public, Failed
<1> DEFINE gF == mq_poly_montymul_ntt(mq_poly_tomonty(yy), zz)
<1>4. ASSUME NEW k \in Index PROVE gF[k] = Times(ww[k], xx[k])
  <2>1. PICK s \in Zq, t \in Zq, u \in Zq, v \in Zq :
          s = yy[k] /\ t = zz[k] /\ u = ww[k] /\ v = xx[k]
    BY ArrayCell
  <2>2. gF[k] = mq_montymul(mq_montymul(s, R2), t)
    BY <2>1 DEF mq_poly_montymul_ntt, mq_poly_tomonty
  <2>3. gF[k] = Times(s, t)
    BY <2>2, MontyProduct
  <2>4. mq_NTT(RingMul(y, z))[k] = Times(s, t) /\ mq_NTT(RingMul(x, w))[k] = Times(v, u)
    BY <1>2, <2>1, NttProduct
  <2>5. Times(v, u) = Times(u, v)
    BY RingLaws
  <2>. QED BY <1>1, <2>1, <2>3, <2>4, <2>5
<1>5. Quot(gF, xx) = w
  <2> HIDE DEF gF
  <2>. QED BY <1>2, <1>3, <1>4, QuotientOf
<1>6. ASSUME NEW k \in Index
      PROVE  LowHalf(w[k]) = d[k] /\ d[k] \in (-127)..127
  <2>1. PICK v \in (-127)..127 : v = d[k]
    BY DEF SmallPoly
  <2>2. w[k] = v % Q
    BY <1>1, <2>1 DEF Residues
  <2>. QED BY <2>1, <2>2, LowHalfIs
<1>7. d = [k \in Index |-> d[k]]
  BY DEF SmallPoly
<1>8. [k \in Index |-> LowHalf(w[k])] = d
  BY <1>6, <1>7
<1>9. complete_private(a, b, c)
        = IF (\E k \in Index : xx[k] = 0)
             \/ \E k \in Index : [i \in Index |-> LowHalf(w[i])][k] \notin (-127)..127
          THEN Failed ELSE [ok |-> TRUE, val |-> [i \in Index |-> LowHalf(w[i])]]
  BY <1>1, <1>2, <1>5 DEF complete_private, Quot, LowHalf
<1>. QED BY <1>3, <1>6, <1>8, <1>9

(* The residue of what is left of the point. *)
LEMMA LeastOf ==
  ASSUME NEW p \in Zq, NEW c \in Zq
  PROVE  mq_sub(c, mq_conv_small(Least(c - p))) = p
<1>1. p \in Int /\ 0 <= p /\ p < Q /\ c \in Int /\ 0 <= c /\ c < Q
  BY OfResidue, Zenon
<1>2. PICK s \in Zq, t \in Int : s = mq_sub(p, c) /\ t = Centered(s) /\ Least(c - p) = -t
  BY LeastIs, SubExact
<1>3. s \in Int /\ 0 <= s /\ s < Q /\ (s = p - c \/ s = p - c + Q)
  <2>1. s = p - c \/ s = p - c + Q
    BY <1>1, <1>2, SMT DEF mq_sub, Corrected
  <2>. QED BY <2>1, OfResidue, Zenon
<1>4. (t = s \/ t = s - Q) /\ -6144 <= t /\ t <= 6144
  <2>1. CASE s > Q \div 2
    BY <1>2, <1>3, <2>1, SMT DEF Centered, Q
  <2>2. CASE ~(s > Q \div 2)
    BY <1>2, <1>3, <2>2, SMT DEF Centered, Q
  <2>. QED BY <2>1, <2>2
<1>5. PICK v \in Int : v = mq_conv_small(-t) /\ 0 <= v /\ v < Q /\ (v = -t \/ v = -t + Q)
  BY <1>4, SMT DEF mq_conv_small, Corrected, Q
<1>6. mq_sub(c, v) = p
  BY <1>1, <1>3, <1>4, <1>5, SMT DEF mq_sub, Corrected, Q
<1>. QED BY <1>2, <1>5, <1>6

(* verify_recover finds the key of a signature again, if s2 is invertible  *)
(* (vrfy.c:803-857).                                                       *)
THEOREM KeyIsRecovered ==
  ASSUME NEW c \in Array, NEW s \in [Index -> Coefficient], NEW key \in Array,
         is_invertible(s)
  PROVE  verify_recover(c, [k \in Index |-> Least(c[k] - RingMul(Residues(s), key)[k])], s) = key
<1> DEFINE s1 == [k \in Index |-> Least(c[k] - RingMul(Residues(s), key)[k])]
<1>1. PICK x \in Array : x = Residues(s) /\ x = mq_poly_conv(s)
  BY ConvIs
<1>2. PICK p \in Array : p = RingMul(x, key)
  BY RingMulArray
<1>3. ASSUME NEW k \in Index PROVE mq_poly_sub(c, mq_poly_conv(s1))[k] = p[k]
  <2>1. PICK u \in Zq, v \in Zq : u = p[k] /\ v = c[k]
    BY ArrayCell
  <2>2. mq_poly_sub(c, mq_poly_conv(s1))[k] = mq_sub(v, mq_conv_small(Least(v - u)))
    BY <1>1, <1>2, <2>1 DEF mq_poly_sub, mq_poly_conv
  <2>. QED BY <2>1, <2>2, LeastOf
<1>4. mq_poly_sub(c, mq_poly_conv(s1)) = p
  <2>1. mq_poly_sub(c, mq_poly_conv(s1)) = [k \in Index |-> mq_poly_sub(c, mq_poly_conv(s1))[k]]
    BY DEF mq_poly_sub
  <2>2. p = [k \in Index |-> p[k]]
    BY DEF Array
  <2>. QED BY <1>3, <2>1, <2>2
<1>5. PICK xx \in Array, pp \in Array, kk \in Array :
        xx = mq_NTT(x) /\ pp = mq_NTT(p) /\ kk = mq_NTT(key)
  BY NttRange
<1>6. ASSUME NEW k \in Index PROVE xx[k] # 0 /\ pp[k] = Times(kk[k], xx[k])
  <2>1. PICK u \in Zq, v \in Zq : u = xx[k] /\ v = kk[k]
    BY ArrayCell
  <2>2. pp[k] = Times(u, v) /\ Times(u, v) = Times(v, u)
    BY <1>2, <1>5, <2>1, NttProduct, RingLaws
  <2>3. u # 0
    BY <1>1, <1>5, <2>1 DEF is_invertible
  <2>. QED BY <2>1, <2>2, <2>3
<1>7. Quot(pp, xx) = key
  BY <1>5, <1>6, QuotientOf
<1> HIDE DEF s1
<1>8. verify_recover(c, s1, s) = Quot(pp, xx)
  BY <1>1, <1>4, <1>5 DEF verify_recover, Quot
<1>. QED BY <1>7, <1>8 DEF s1

(* A call is judged with a key and a value. *)
Judged ==
  pc = "done" /\ ret = 0 => PublicKey \in Array /\ sv \in [Index -> Coefficient]

LEMMA JudgedNext ==
  ASSUME VInv, Delivery, Judged, [Next]_vars
  PROVE  Judged'
<1>1. CASE UNCHANGED vars
  <2>1. PublicKey' = PublicKey
    BY <1>1, PublicKeyKept DEF vars
  <2>. QED BY <1>1, <2>1 DEF Judged, vars
<1>2. CASE Judge
  <2>1. pc = "norm" /\ pk' = pk /\ sv' = sv
    BY <1>2 DEF Judge
  <2>2. PublicKey \in Array /\ PublicKey' = PublicKey /\ sv \in [Index -> Coefficient]
    BY <2>1, InputsOfTransforms, PublicKeyKept DEF HasValue, HasKey, VInv
  <2>. QED BY <2>1, <2>2 DEF Judged
<1>3. CASE MakePublic \/ Encode \/ DecodeKey
  <2>1. ~(pc' = "done" /\ ret' = 0)
    <3>1. CASE MakePublic
      BY <3>1, CodesDiffer DEF MakePublic, Return
    <3>2. CASE Encode
      BY <3>2, CodesDiffer DEF Encode, Return
    <3>3. CASE DecodeKey
      BY <3>3, CodesDiffer DEF DecodeKey, Return
    <3>. QED BY <1>3, <3>1, <3>2, <3>3
  <2>. QED BY <2>1 DEF Judged
<1>4. CASE DecodeValue
  <2>1. ~(pc' = "done" /\ ret' = 0)
    BY <1>4, ValueStep, CodesDiffer
  <2>. QED BY <2>1 DEF Judged
<1>5. CASE \/ TransformKey \/ ToMonty \/ Load \/ TransformValue \/ Product
           \/ TransformBack \/ Rescale \/ SubPoint
  <2>1. pc' # "done"
    BY <1>5 DEF TransformKey, ToMonty, Load, TransformValue, Product, TransformBack,
                Rescale, SubPoint
  <2>. QED BY <2>1 DEF Judged
<1>. QED BY <1>1, <1>2, <1>3, <1>4, <1>5 DEF Next

LEMMA RecoveredOf ==
  ASSUME VInv, Delivery, Judged
  PROVE  KeyRecovered
<1>1. ASSUME pc = "encode", call.keyflips = {}
      PROVE  /\ RingMul(PublicKey, Residues(call.f)) = Residues(call.g)
             /\ complete_private(call.f, call.g, call.F) = [ok |-> TRUE, val |-> call.G]
  <2>1. call \in Cases /\ compute_public(call.f, call.g).ok /\ pk = Flipped(Published(call), {})
    BY <1>1 DEF VInv, Delivery
  <2>2. /\ call.f \in SmallPoly /\ call.g \in SmallPoly
        /\ call.F \in SmallPoly /\ call.G \in SmallPoly
    <3>1. {call.f, call.g, call.F, call.G} \subseteq SmallPoly
      BY <2>1, CasesAssumption, Zenon
    <3>. QED BY <3>1
  <2>3. pk = Published(call)
    BY <2>1, PublishedType, NothingFlipped
  <2>4. PublicKey = compute_public(call.f, call.g).val
    BY <2>1, <2>3, KeyArrives DEF PublicKey
  <2>5. RingMul(Residues(call.f), Residues(call.G)) = RingMul(Residues(call.g), Residues(call.F))
    <3> DEFINE key == [f |-> call.f, g |-> call.g, F |-> call.F, G |-> call.G]
    <3>1. RingMul(Residues(key.f), Residues(key.G)) = RingMul(Residues(key.g), Residues(key.F))
      BY <2>1, NtruAssumption, Zenon
    <3>. QED BY <3>1
  <2>. QED BY <2>1, <2>2, <2>4, <2>5, PublicIsQuotient, PrivateIsCompleted
<1>2. ASSUME pc = "done", ret = 0, is_invertible(sv)
      PROVE  verify_recover(call.c0, S1, sv) = PublicKey
  <2>1. PublicKey \in Array /\ sv \in [Index -> Coefficient] /\ call.c0 \in Array
    BY <1>2, CaseType DEF Judged, VInv
  <2>2. S1 = [k \in Index |-> Least(call.c0[k] - RingMul(Residues(sv), PublicKey)[k])]
    BY DEF S1
  <2>. QED BY <1>2, <2>1, <2>2, KeyIsRecovered
<1>. QED BY <1>1, <1>2 DEF KeyRecovered

(* For every degree here and every NTRU key: the published key times f is  *)
(* g, completing f, g and F gives G, and verify_recover finds the key of   *)
(* an accepted signature again (vrfy.c:705-775, 803-857).                  *)
THEOREM InversionsAgree == Spec => []KeyRecovered
<1>1. Init => Judged
  BY DEF Init, Judged
<1>2. VInv /\ Delivery /\ Judged /\ [Next]_vars => Judged'
  BY JudgedNext
<1>3. VInv /\ Delivery /\ Judged => KeyRecovered
  BY RecoveredOf
<1>. QED BY <1>1, <1>2, <1>3, DeliveryInvariant, PTL DEF Spec
=============================================================================
