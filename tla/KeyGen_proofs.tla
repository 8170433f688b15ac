---------------------------- MODULE KeyGen_proofs ---------------------------
(***************************************************************************)
(* The key generator for every seed length, word size, modulus and set of  *)
(* polynomials of degree 2: the seed is written from end to end, the       *)
(* factors of a turn of zint_bezout stay within a word, its coefficients   *)
(* follow its integers, what solve_NTRU's last test is given passes, the   *)
(* keys are never refused, and those that a signer has match.              *)
(***************************************************************************)
EXTENDS KeyGen, Codec_proofs

(***************************************************************************)
(* Numbers: powers of two.                                                 *)
(***************************************************************************)
LEMMA TwoPower ==
  ASSUME NEW j \in 0..32
  PROVE  2^j \in Nat /\ 2^j > 0 /\ 2^(j + 1) = 2 * 2^j
<1>1. CASE j = 0
  <2>1. j + 1 = 1  BY <1>1
  <2> QED BY <1>1, <2>1, SMT
<1>2. CASE j = 1
  <2>1. j + 1 = 2  BY <1>2
  <2> QED BY <1>2, <2>1, SMT
<1>3. CASE j = 2
  <2>1. j + 1 = 3  BY <1>3
  <2> QED BY <1>3, <2>1, SMT
<1>4. CASE j = 3
  <2>1. j + 1 = 4  BY <1>4
  <2> QED BY <1>4, <2>1, SMT
<1>5. CASE j = 4
  <2>1. j + 1 = 5  BY <1>5
  <2> QED BY <1>5, <2>1, SMT
<1>6. CASE j = 5
  <2>1. j + 1 = 6  BY <1>6
  <2> QED BY <1>6, <2>1, SMT
<1>7. CASE j = 6
  <2>1. j + 1 = 7  BY <1>7
  <2> QED BY <1>7, <2>1, SMT
<1>8. CASE j = 7
  <2>1. j + 1 = 8  BY <1>8
  <2> QED BY <1>8, <2>1, SMT
<1>9. CASE j = 8
  <2>1. j + 1 = 9  BY <1>9
  <2> QED BY <1>9, <2>1, SMT
<1>10. CASE j = 9
  <2>1. j + 1 = 10  BY <1>10
  <2> QED BY <1>10, <2>1, SMT
<1>11. CASE j = 10
  <2>1. j + 1 = 11  BY <1>11
  <2> QED BY <1>11, <2>1, SMT
<1>12. CASE j = 11
  <2>1. j + 1 = 12  BY <1>12
  <2> QED BY <1>12, <2>1, SMT
<1>13. CASE j = 12
  <2>1. j + 1 = 13  BY <1>13
  <2> QED BY <1>13, <2>1, SMT
<1>14. CASE j = 13
  <2>1. j + 1 = 14  BY <1>14
  <2> QED BY <1>14, <2>1, SMT
<1>15. CASE j = 14
  <2>1. j + 1 = 15  BY <1>15
  <2> QED BY <1>15, <2>1, SMT
<1>16. CASE j = 15
  <2>1. j + 1 = 16  BY <1>16
  <2> QED BY <1>16, <2>1, SMT
<1>17. CASE j = 16
  <2>1. j + 1 = 17  BY <1>17
  <2> QED BY <1>17, <2>1, SMT
<1>18. CASE j = 17
  <2>1. j + 1 = 18  BY <1>18
  <2> QED BY <1>18, <2>1, SMT
<1>19. CASE j = 18
  <2>1. j + 1 = 19  BY <1>19
  <2> QED BY <1>19, <2>1, SMT
<1>20. CASE j = 19
  <2>1. j + 1 = 20  BY <1>20
  <2> QED BY <1>20, <2>1, SMT
<1>21. CASE j = 20
  <2>1. j + 1 = 21  BY <1>21
  <2> QED BY <1>21, <2>1, SMT
<1>22. CASE j = 21
  <2>1. j + 1 = 22  BY <1>22
  <2> QED BY <1>22, <2>1, SMT
<1>23. CASE j = 22
  <2>1. j + 1 = 23  BY <1>23
  <2> QED BY <1>23, <2>1, SMT
<1>24. CASE j = 23
  <2>1. j + 1 = 24  BY <1>24
  <2> QED BY <1>24, <2>1, SMT
<1>25. CASE j = 24
  <2>1. j + 1 = 25  BY <1>25
  <2> QED BY <1>25, <2>1, SMT
<1>26. CASE j = 25
  <2>1. j + 1 = 26  BY <1>26
  <2> QED BY <1>26, <2>1, SMT
<1>27. CASE j = 26
  <2>1. j + 1 = 27  BY <1>27
  <2> QED BY <1>27, <2>1, SMT
<1>28. CASE j = 27
  <2>1. j + 1 = 28  BY <1>28
  <2> QED BY <1>28, <2>1, SMT
<1>29. CASE j = 28
  <2>1. j + 1 = 29  BY <1>29
  <2> QED BY <1>29, <2>1, SMT
<1>30. CASE j = 29
  <2>1. j + 1 = 30  BY <1>30
  <2> QED BY <1>30, <2>1, SMT
<1>31. CASE j = 30
  <2>1. j + 1 = 31  BY <1>31
  <2> QED BY <1>31, <2>1, SMT
<1>32. CASE j = 31
  <2>1. j + 1 = 32  BY <1>32
  <2> QED BY <1>32, <2>1, SMT
<1>33. CASE j = 32
  <2>1. j + 1 = 33  BY <1>33
  <2> QED BY <1>33, <2>1, SMT
<1> QED BY <1>1, <1>2, <1>3, <1>4, <1>5, <1>6, <1>7, <1>8, <1>9, <1>10,
       <1>11, <1>12, <1>13, <1>14, <1>15, <1>16, <1>17, <1>18, <1>19, <1>20,
       <1>21, <1>22, <1>23, <1>24, <1>25, <1>26, <1>27, <1>28, <1>29, <1>30,
       <1>31, <1>32, <1>33, SMT

(* A power of two divides the higher ones. *)
LEMMA PowerDivides ==
  ASSUME NEW j \in 0..33, NEW i \in 0..j
  PROVE  Divides(2^i, 2^j)
<1> DEFINE T == {k \in 0..(33 - i) : Divides(2^i, 2^(i + k))}
<1>1. \A k \in 0..33 : 2^k \in Int
  <2> SUFFICES ASSUME NEW k \in 0..33 PROVE 2^k \in Int  OBVIOUS
  <2>1. k \in Int /\ 2 \in Int  OBVIOUS
  <2> QED BY <2>1, SMT
<1>2. 0 \in T
  <2>1. i + 0 = i /\ i \in 0..33 /\ 0 \in 0..(33 - i)  OBVIOUS
  <2>2. Divides(2^i, 2^i * 1) /\ 2^i * 1 = 2^i
    <3> DEFINE q == 2^i
    <3>1. q \in Int  BY <1>1, <2>1
    <3> HIDE DEF q
    <3>2. q * 1 = q /\ Divides(q, q * 1)
      <4>1. 1 \in Int  OBVIOUS
      <4>2. q * 1 = q  BY <3>1
      <4> QED BY <3>1, <4>1, <4>2, DividesMultiple, Zenon
    <3> QED BY <3>2 DEF q
  <2> QED BY <2>1, <2>2
<1>3. ASSUME NEW k \in 0..((33 - i) - 1), k \in T PROVE k + 1 \in T
  <2>1. i + k \in 0..32 /\ i + (k + 1) = (i + k) + 1 /\ k + 1 \in 0..(33 - i) /\ i \in 0..33
    OBVIOUS
  <2>2. 2^(i + (k + 1)) = 2 * 2^(i + k) /\ 2^(i + k) \in Int
    <3> DEFINE e == i + k
    <3>1. e \in 0..32 /\ i + (k + 1) = e + 1  BY <2>1
    <3> HIDE DEF e
    <3>2. 2^(e + 1) = 2 * 2^e /\ 2^e \in Nat  BY <3>1, TwoPower, Zenon
    <3>3. 2^e \in Int  BY <3>2
    <3> QED BY <3>1, <3>2, <3>3, Zenon DEF e
  <2>3. 2^i \in Int /\ Divides(2^i, 2^(i + k))  BY <1>1, <1>3, <2>1
  <2>4. Divides(2^i, 2 * 2^(i + k))  BY <2>2, <2>3, DividesTimes
  <2> QED BY <2>1, <2>2, <2>4
<1>4. \A k \in 0..(33 - i) : k \in T
  <2> HIDE DEF T
  <2>1. 33 - i \in Nat  OBVIOUS
  <2> QED BY <1>2, <1>3, <2>1, UpTo
<1>5. j - i \in 0..(33 - i) /\ i + (j - i) = j  OBVIOUS
<1>6. j - i \in T  BY <1>4, <1>5
<1> QED BY <1>5, <1>6

(***************************************************************************)
(* modp_ninv31 and the Montgomery products of zint_co_reduce_mod.          *)
(***************************************************************************)
Word == 2^W

LEMMA WordFacts ==
  /\ W \in 2..31 /\ Word \in Nat /\ Word > 0
  /\ Divides(2, Word) /\ Divides(Word, 2^32) /\ 2^(W + 1) = 2 * Word
<1>1. W \in 2..31 /\ W \in 0..32 /\ W \in 0..33 /\ 1 \in 0..W
  BY BezoutAssumption
<1>2. Word \in Nat /\ Word > 0 /\ 2^(W + 1) = 2 * Word  BY <1>1, TwoPower DEF Word
<1>3. Divides(2^1, 2^W)  BY <1>1, PowerDivides
<1>4. 2^1 = 2  BY SMT
<1>5. Divides(2^W, 2^32)
  <2>1. 32 \in 0..33 /\ W \in 0..32  BY <1>1
  <2> QED BY <2>1, PowerDivides
<1> QED BY <1>1, <1>2, <1>3, <1>4, <1>5 DEF Word

(* What a turn of Newton's iteration keeps: z inverts r modulo c, up to a  *)
(* multiple of a word.                                                     *)
Inverts(r, z, c) == \E i, j \in Int : r * z = 1 + i * Word + j * c

LEMMA NewtonStep ==
  ASSUME NEW r \in Int, NEW z \in Int, NEW c \in Int, Inverts(r, z, c)
  PROVE  LET t == (z * (2 - r * z)) % Word
         IN  t \in Int /\ Inverts(r, t, c * c)
<1> DEFINE h == z * (2 - r * z)
           t == h % Word
           k == h \div Word
<1>1. PICK i \in Int, j \in Int : r * z = 1 + i * Word + j * c  BY DEF Inverts
<1>2. h \in Int /\ Word \in Int  BY WordFacts, SMT
<1>3. t \in Int /\ k \in Int /\ h = Word * k + t
  <2> HIDE DEF h
  <2> QED BY <1>2, WordFacts, ModIs
<1> DEFINE e == i * Word + j * c
<1>4. e \in Int /\ r * z = 1 + e  BY <1>1, <1>2, SMT
<1>5. r * h = 1 - e * e
  <2>1. r * h = (r * z) * (2 - r * z)  BY SMT
  <2>2. r * h = (1 + e) * (2 - (1 + e))
    <3> HIDE DEF e, h
    <3> QED BY <1>4, <2>1
  <2> HIDE DEF e, h
  <2> QED BY <1>2, <1>4, <2>2, SMT
<1> DEFINE I == -(i * i * Word + 2 * i * j * c) - r * k
           J == -(j * j)
<1>6. e * e = Word * (i * i * Word + 2 * i * j * c) + (j * j) * (c * c)
  <2> DEFINE w == Word
  <2>1. w \in Int  BY <1>2
  <2> HIDE DEF w
  <2>2. (i * w + j * c) * (i * w + j * c)
          = w * (i * i * w + 2 * i * j * c) + (j * j) * (c * c)
    BY <2>1, SMT
  <2> QED BY <2>2 DEF w
<1>7. r * t = 1 + I * Word + J * (c * c)
  <2> DEFINE s == i * i * Word + 2 * i * j * c
             l == c * c
             o == j * j
  <2>1. s \in Int /\ l \in Int /\ o \in Int  BY <1>2, SMT
  <2>2. r * h = 1 - (Word * s + o * l)  BY <1>5, <1>6
  <2> HIDE DEF h, t, k, s, l, o
  <2>3. r * t = r * h - r * (Word * k)
    <3>1. t = h - Word * k  BY <1>2, <1>3
    <3> QED BY <1>2, <1>3, <3>1, SMT
  <2>4. r * (Word * k) = (r * k) * Word /\ Word * s = s * Word  BY <1>2, <1>3, <2>1, SMT
  <2> DEFINE m == r * k
  <2>5. m \in Int  BY <1>3, SMT
  <2> HIDE DEF m
  <2>6. r * t = 1 - (s * Word + o * l) - m * Word
    BY <1>2, <1>3, <2>2, <2>3, <2>4 DEF m
  <2>7. (-s - m) * Word = -(s * Word) - m * Word /\ (-o) * l = -(o * l)
        /\ s * Word \in Int /\ m * Word \in Int /\ o * l \in Int
    BY <1>2, <2>1, <2>5, SMT
  <2>8. r * t = 1 + (-s - m) * Word + (-o) * l  BY <2>6, <2>7, SMT
  <2> QED BY <2>8 DEF s, l, o, m
<1>8. I \in Int /\ J \in Int /\ Word \in Int
  <2> HIDE DEF k
  <2> QED BY <1>2, <1>3, SMT
<1> HIDE DEF I, J, t
<1> QED BY <1>3, <1>7, <1>8 DEF Inverts, t

(* modp_ninv31 gives -1/m modulo a word, for every odd m: five turns reach *)
(* 32 bits.                                                                *)
LEMMA NinvExact ==
  ASSUME NEW m \in Int, m % 2 = 1
  PROVE  Ninv(m) \in 0..(Word - 1) /\ Divides(Word, m * Ninv(m) + 1)
<1> DEFINE r == m % Word
           Turn(s) == (s * (2 - r * s)) % Word
           Def(w) == w = [k \in 0..4 |-> IF k = 0 THEN 2 - r ELSE Turn(w[k - 1])]
           v == CHOOSE w : Def(w)
<1>1. Word \in Nat /\ Word > 0 /\ Word \in Int  BY WordFacts
<1>2. r \in 0..(Word - 1) /\ r \in Int /\ Divides(Word, m - r)
  <2>1. r \in 0..(Word - 1) /\ Divides(Word, m - r)  BY <1>1, ModIs
  <2> HIDE DEF r
  <2> QED BY <1>1, <2>1
<1>3. \A s \in Int : Turn(s) \in Int
  <2> SUFFICES ASSUME NEW s \in Int PROVE Turn(s) \in Int  OBVIOUS
  <2> DEFINE h == s * (2 - r * s)
  <2>1. h \in Int
    <3> HIDE DEF r
    <3> QED BY <1>2, SMT
  <2> HIDE DEF h
  <2> QED BY <1>1, <2>1, ModIs DEF h
<1>4. \E w : Def(w)
  <2> DEFINE w0 == 2 - r
             w1 == Turn(w0)
             w2 == Turn(w1)
             w3 == Turn(w2)
             w4 == Turn(w3)
             w == [k \in 0..4 |-> IF k = 0 THEN w0 ELSE IF k = 1 THEN w1
                                  ELSE IF k = 2 THEN w2 ELSE IF k = 3 THEN w3 ELSE w4]
  <2>1. w[0] = w0 /\ w[1] = Turn(w[0]) /\ w[2] = Turn(w[1]) /\ w[3] = Turn(w[2])
        /\ w[4] = Turn(w[3])
    <3>1. w[0] = w0 /\ w[1] = w1 /\ w[2] = w2 /\ w[3] = w3 /\ w[4] = w4
      <4> HIDE DEF w0, w1, w2, w3, w4
      <4> QED BY SMT
    <3> HIDE DEF w, Turn
    <3> QED BY <3>1
  <2>2. DOMAIN w = 0..4 /\ w = [k \in 0..4 |-> w[k]]
    <3> HIDE DEF w0, w1, w2, w3, w4
    <3> QED OBVIOUS
  <2> HIDE DEF w, Turn
  <2>3. \A k \in 0..4 : w[k] = IF k = 0 THEN 2 - r ELSE Turn(w[k - 1])
    <3> SUFFICES ASSUME NEW k \in 0..4
                 PROVE  w[k] = IF k = 0 THEN 2 - r ELSE Turn(w[k - 1])
      OBVIOUS
    <3>1. CASE k = 0  BY <2>1, <3>1
    <3>2. CASE k = 1
      <4>1. k - 1 = 0 /\ k # 0  BY <3>2
      <4> QED BY <2>1, <3>2, <4>1, Zenon
    <3>3. CASE k = 2
      <4>1. k - 1 = 1 /\ k # 0  BY <3>3
      <4> QED BY <2>1, <3>3, <4>1, Zenon
    <3>4. CASE k = 3
      <4>1. k - 1 = 2 /\ k # 0  BY <3>4
      <4> QED BY <2>1, <3>4, <4>1, Zenon
    <3>5. CASE k = 4
      <4>1. k - 1 = 3 /\ k # 0  BY <3>5
      <4> QED BY <2>1, <3>5, <4>1, Zenon
    <3> QED BY <3>1, <3>2, <3>3, <3>4, <3>5
  <2>4. Def(w)
    <3> HIDE DEF r
    <3> QED BY <2>2, <2>3, Zenon
  <2> QED BY <2>4
<1>5. Def(v)
  <2> HIDE DEF Def
  <2> QED BY <1>4
<1>6. Ninv(m) = (-v[4]) % Word
  BY DEF Ninv, Word
<1> HIDE DEF v, Turn
<1>7. v[0] = 2 - r /\ v[1] = Turn(v[0]) /\ v[2] = Turn(v[1]) /\ v[3] = Turn(v[2])
      /\ v[4] = Turn(v[3])
  <2>1. \A k \in 0..4 : v[k] = IF k = 0 THEN 2 - r ELSE Turn(v[k - 1])
    <3> HIDE DEF r
    <3> QED BY <1>5, Zenon
  <2> HIDE DEF r
  <2>2. 0 \in 0..4 /\ 1 \in 0..4 /\ 2 \in 0..4 /\ 3 \in 0..4 /\ 4 \in 0..4
        /\ 1 - 1 = 0 /\ 2 - 1 = 1 /\ 3 - 1 = 2 /\ 4 - 1 = 3 /\ 1 # 0 /\ 2 # 0 /\ 3 # 0 /\ 4 # 0
    OBVIOUS
  <2>3. v[0] = 2 - r  BY <2>1, <2>2, Zenon
  <2>4. v[1] = Turn(v[0])
    <3>1. v[1] = Turn(v[1 - 1])  BY <2>1, <2>2, Zenon
    <3> QED BY <2>2, <3>1
  <2>5. v[2] = Turn(v[1])
    <3>1. v[2] = Turn(v[2 - 1])  BY <2>1, <2>2, Zenon
    <3> QED BY <2>2, <3>1
  <2>6. v[3] = Turn(v[2])
    <3>1. v[3] = Turn(v[3 - 1])  BY <2>1, <2>2, Zenon
    <3> QED BY <2>2, <3>1
  <2>7. v[4] = Turn(v[3])
    <3>1. v[4] = Turn(v[4 - 1])  BY <2>1, <2>2, Zenon
    <3> QED BY <2>2, <3>1
  <2> QED BY <2>3, <2>4, <2>5, <2>6, <2>7, Zenon
<1> HIDE DEF r, Def
<1>8. r % 2 = 1
  <2>1. PICK i \in Int : m - r = Word * i  BY <1>2 DEF Divides
  <2>2. PICK k \in Int : Word = 2 * k  BY WordFacts DEF Divides
  <2>3. Word * i = 2 * (k * i) /\ k * i \in Int  BY <2>2, SMT
  <2> DEFINE l == k * i
  <2>4. l \in Int /\ m = r + 2 * l
    <3> HIDE DEF l
    <3>1. m - r = 2 * l  BY <2>1, <2>3 DEF l
    <3>2. l \in Int  BY <2>3 DEF l
    <3> QED BY <1>2, <3>1, <3>2
  <2> HIDE DEF l
  <2> QED BY <1>2, <2>4, SMT
<1>9. v[0] \in Int /\ Inverts(r, v[0], 4)
  <2> DEFINE k == r \div 2
  <2>1. k \in Int /\ r = 2 * k + 1  BY <1>2, <1>8, SMT
  <2> HIDE DEF k
  <2>2. r * (2 - r) = 1 + 0 * Word + (-(k * k)) * 4
    <3>1. (2 * k + 1) * (2 - (2 * k + 1)) = 1 - 4 * (k * k)  BY <2>1, SMT
    <3>2. 0 * Word = 0 /\ (-(k * k)) * 4 = -(4 * (k * k))  BY <1>1, <2>1, SMT
    <3>3. r * (2 - r) = 1 - 4 * (k * k)  BY <2>1, <3>1
    <3> DEFINE l == k * k
    <3>4. l \in Int  BY <2>1, SMT
    <3> HIDE DEF l
    <3> QED BY <1>1, <3>2, <3>3, <3>4 DEF l
  <2>3. -(k * k) \in Int /\ 0 \in Int  BY <2>1, SMT
  <2> DEFINE l == -(k * k)
  <2> HIDE DEF l
  <2>4. l \in Int /\ r * (2 - r) = 1 + 0 * Word + l * 4  BY <2>2, <2>3 DEF l
  <2>5. Inverts(r, 2 - r, 4)  BY <2>3, <2>4, Zenon DEF Inverts
  <2> QED BY <1>2, <1>7, <2>5
<1>10. v[1] \in Int /\ Inverts(r, v[1], 16)
  <2>1. 4 \in Int /\ 4 * 4 = 16  OBVIOUS
  <2>2. v[1] \in Int /\ Inverts(r, v[1], 4 * 4)
    BY <1>2, <1>7, <1>9, <2>1, NewtonStep, ZenonT(40) DEF Turn
  <2> QED BY <2>1, <2>2
<1>11. v[2] \in Int /\ Inverts(r, v[2], 256)
  <2>1. 16 \in Int /\ 16 * 16 = 256  OBVIOUS
  <2> DEFINE c == 16
  <2>3. c \in Int /\ v[1] \in Int /\ Inverts(r, v[1], c)  BY <1>10, <2>1
  <2> HIDE DEF c
  <2>2. v[2] \in Int /\ Inverts(r, v[2], c * c)
    BY <1>2, <1>7, <2>3, NewtonStep, ZenonT(40) DEF Turn
  <2> QED BY <2>1, <2>2 DEF c
<1>12. v[3] \in Int /\ Inverts(r, v[3], 65536)
  <2>1. 256 \in Int /\ 256 * 256 = 65536  OBVIOUS
  <2> DEFINE c == 256
  <2>3. c \in Int /\ v[2] \in Int /\ Inverts(r, v[2], c)  BY <1>11, <2>1
  <2> HIDE DEF c
  <2>2. v[3] \in Int /\ Inverts(r, v[3], c * c)
    BY <1>2, <1>7, <2>3, NewtonStep, ZenonT(40) DEF Turn
  <2> QED BY <2>1, <2>2 DEF c
<1>13. v[4] \in Int /\ Inverts(r, v[4], 2^32)
  <2>1. 65536 \in Int /\ 65536 * 65536 = 2^32  BY SMT
  <2> DEFINE c == 65536
  <2>3. c \in Int /\ v[3] \in Int /\ Inverts(r, v[3], c)  BY <1>12, <2>1
  <2> HIDE DEF c
  <2>2. v[4] \in Int /\ Inverts(r, v[4], c * c)
    BY <1>2, <1>7, <2>3, NewtonStep, ZenonT(40) DEF Turn
  <2> QED BY <2>1, <2>2 DEF c
<1> DEFINE z == v[4]
           n == (-z) % Word
<1>14. Divides(Word, r * z - 1)
  <2> DEFINE c == 2^32
  <2>1. PICK i \in Int, j \in Int : r * z = 1 + i * Word + j * c
    BY <1>13 DEF Inverts
  <2>2. PICK k \in Int : c = Word * k  BY WordFacts DEF Divides
  <2> HIDE DEF c, z
  <2>3. j * c = Word * (j * k) /\ i * Word = Word * i  BY <1>1, <2>2, SMT
  <2> DEFINE l == j * k
             w == Word
  <2>4. l \in Int /\ w \in Int  BY <1>1, SMT
  <2>5. r * z = 1 + w * i + w * l  BY <2>1, <2>3
  <2> HIDE DEF l, w
  <2>6. r * z - 1 = w * (i + l)  BY <2>4, <2>5, SMT
  <2>7. i + l \in Int  BY <2>4
  <2>8. Divides(w, r * z - 1)  BY <2>6, <2>7 DEF Divides
  <2> QED BY <2>8 DEF w
<1>15. n \in 0..(Word - 1) /\ n \in Int /\ Divides(Word, (-z) - n)
  <2>1. z \in Int /\ -z \in Int  BY <1>13
  <2> DEFINE s == -z
  <2> HIDE DEF s, z
  <2>2. s % Word \in 0..(Word - 1) /\ Divides(Word, s - (s % Word))
    BY <1>1, <2>1, ModIs DEF s
  <2>3. s % Word \in Int  BY <1>1, <2>2
  <2> QED BY <2>2, <2>3 DEF s
<1> HIDE DEF n, z
<1>16. Divides(Word, m * n + 1)
  <2>1. z \in Int  BY <1>13 DEF z
  <2> DEFINE c == m - r
             d == r * z - 1
             e == (-z) - n
  <2>2. c \in Int /\ d \in Int /\ e \in Int  BY <1>2, <1>15, <2>1, SMT
  <2>3. m * n + 1 = (c * n - d) - r * e
    <3>1. c * n = m * n - r * n  BY <1>2, <1>15, SMT
    <3>2. r * e = -(r * z) - r * n  BY <1>2, <1>15, <2>1, SMT
    <3> DEFINE s == m * n
               t == r * n
               o == r * z
    <3>3. s \in Int /\ t \in Int /\ o \in Int  BY <1>2, <1>15, <2>1, SMT
    <3>4. c * n = s - t /\ r * e = -o - t /\ d = o - 1  BY <3>1, <3>2
    <3> DEFINE p == c * n
               q == r * e
    <3> HIDE DEF s, t, o, p, q, c, d, e
    <3>5. s + 1 = (p - d) - q  BY <3>3, <3>4 DEF p, q
    <3> QED BY <3>5 DEF s, p, q
  <2>4. c * n \in Int /\ r * e \in Int /\ c * n - d \in Int  BY <1>2, <1>15, <2>2, SMT
  <2>5. Divides(Word, c) /\ Divides(Word, d) /\ Divides(Word, e)  BY <1>2, <1>14, <1>15
  <2> HIDE DEF c, d, e
  <2>6. Divides(Word, c * n) /\ Divides(Word, r * e)
    BY <1>1, <1>2, <1>15, <2>2, <2>5, DividesTimes
  <2> DEFINE p == c * n
             q == r * e
  <2> HIDE DEF p, q
  <2>7. p \in Int /\ q \in Int /\ Divides(Word, p) /\ Divides(Word, q)
        /\ m * n + 1 = (p - d) - q
    BY <2>3, <2>4, <2>6 DEF p, q
  <2>8. p - d \in Int /\ Divides(Word, p - d)  BY <1>1, <2>2, <2>5, <2>7, DividesSum
  <2>9. Divides(Word, (p - d) - q)  BY <1>1, <2>7, <2>8, DividesSum
  <2> QED BY <2>7, <2>9
<1> QED BY <1>6, <1>15, <1>16 DEF n, z

Abs(z) == IF z < 0 THEN -z ELSE z

LEMMA TermBound ==
  ASSUME NEW m \in Int, NEW c \in 0..m, NEW p \in Int
  PROVE  /\ c * p \in Int /\ m * Abs(p) \in Int /\ Abs(p) \in Nat
         /\ c * p <= m * Abs(p) /\ -(m * Abs(p)) <= c * p
<1> DEFINE s == Abs(p)
<1>1. s \in Nat /\ (p = s \/ p = -s)  BY SMT DEF Abs
<1> HIDE DEF s
<1>2. c * s <= m * s /\ c * s >= 0 /\ c * s \in Int /\ m * s \in Int
  <2>1. (m - c) * s >= 0 /\ (m - c) * s = m * s - c * s  BY <1>1, SMT
  <2>2. c * s \in Int /\ m * s \in Int /\ c * s >= 0  BY <1>1, SMT
  <2> DEFINE t == c * s
             r == m * s
             o == (m - c) * s
  <2> HIDE DEF t, r, o
  <2>3. t \in Int /\ r \in Int /\ t >= 0 /\ o >= 0 /\ o = r - t  BY <2>1, <2>2 DEF t, r, o
  <2>4. t <= r  BY <2>3
  <2> QED BY <2>3, <2>4 DEF t, r
<1>3. c * p = c * s \/ c * p = -(c * s)
  <2>1. c * (-s) = -(c * s)  BY <1>1, SMT
  <2> QED BY <1>1, <2>1
<1> DEFINE t == c * s
           r == m * s
<1>4. c * p \in Int /\ c * p <= r /\ -r <= c * p
  <2>1. t \in Int /\ r \in Int /\ 0 <= t /\ t <= r /\ (c * p = t \/ c * p = -t)
    BY <1>2, <1>3
  <2> HIDE DEF t, r
  <2> QED BY <2>1
<1> QED BY <1>1, <1>2, <1>4 DEF s

LEMMA SumBound ==
  ASSUME NEW m \in Int, NEW c \in 0..m, NEW d \in 0..m,
         NEW p \in Int, NEW q \in Int, NEW k \in Int, Abs(p) + Abs(q) <= k
  PROVE  /\ c * p + d * q \in Int /\ m * k \in Int
         /\ c * p + d * q <= m * k /\ -(m * k) <= c * p + d * q
<1> DEFINE cp == c * p
           dq == d * q
           mp == m * Abs(p)
           mq == m * Abs(q)
           mk == m * k
<1>1. cp \in Int /\ mp \in Int /\ cp <= mp /\ -mp <= cp /\ Abs(p) \in Nat  BY TermBound
<1>2. dq \in Int /\ mq \in Int /\ dq <= mq /\ -mq <= dq /\ Abs(q) \in Nat  BY TermBound
<1>3. mp + mq <= mk /\ mk \in Int
  <2> DEFINE s == Abs(p)
             t == Abs(q)
  <2>1. s \in Nat /\ t \in Nat /\ s + t <= k /\ m >= 0  BY <1>1, <1>2
  <2> HIDE DEF s, t
  <2>2. m * (k - (s + t)) >= 0 /\ m * (k - (s + t)) = m * k - (m * s + m * t)  BY <2>1, SMT
  <2>3. m * s \in Int /\ m * t \in Int /\ m * k \in Int  BY <2>1, SMT
  <2> DEFINE e == m * (k - (s + t))
             ms == m * s
             mt == m * t
             mm == m * k
  <2> HIDE DEF e, ms, mt, mm
  <2>4. e >= 0 /\ e = mm - (ms + mt) /\ ms \in Int /\ mt \in Int /\ mm \in Int
    BY <2>2, <2>3 DEF e, ms, mt, mm
  <2>5. ms + mt <= mm  BY <2>4
  <2> QED BY <2>4, <2>5 DEF ms, mt, mm, s, t
<1> HIDE DEF cp, dq, mp, mq, mk
<1>4. cp + dq \in Int /\ cp + dq <= mk /\ -mk <= cp + dq  BY <1>1, <1>2, <1>3
<1> QED BY <1>3, <1>4 DEF cp, dq, mk

(* The Montgomery quotient is exact, and between -m and 2m.                *)
LEMMA QuotientExact ==
  ASSUME NEW m \in Int, m > 0, m % 2 = 1, NEW c \in 0..m, NEW d \in 0..m,
         NEW p \in Int, NEW q \in Int, Abs(p) + Abs(q) <= Word
  PROVE  LET t == Quotient(c, d, m, p, q)
         IN  /\ t \in Int /\ -m <= t /\ t < 2 * m
             /\ \E k \in Int : Word * t = c * p + d * q + m * k
<1> DEFINE e == c * p + d * q
           n == Ninv(m)
           k == (e * n) % Word
           t == (e + m * k) \div Word
<1>1. Word \in Nat /\ Word > 0 /\ Word \in Int  BY WordFacts
<1>2. e \in Int /\ m * Word \in Int /\ e <= m * Word /\ -(m * Word) <= e
  BY <1>1, SumBound
<1>3. n \in Int /\ Divides(Word, m * n + 1)
  <2>1. n \in 0..(Word - 1) /\ Divides(Word, m * n + 1)  BY NinvExact
  <2> HIDE DEF n
  <2> QED BY <1>1, <2>1
<1>4. Quotient(c, d, m, p, q) = t  BY DEF Quotient, Word
<1> HIDE DEF e, n
<1>5. k \in 0..(Word - 1) /\ k \in Int /\ Divides(Word, e * n - k)
  <2> DEFINE s == e * n
  <2>1. s \in Int  BY <1>2, <1>3, SMT
  <2> HIDE DEF s
  <2>2. s % Word \in 0..(Word - 1) /\ Divides(Word, s - (s % Word))
    BY <1>1, <2>1, ModIs
  <2>3. s % Word \in Int  BY <1>1, <2>2
  <2> QED BY <2>2, <2>3 DEF s
<1> HIDE DEF k
<1>6. Divides(Word, e + m * k)
  <2> DEFINE s == m * n + 1
             r == e * n - k
             es == e * s
             mr == m * r
  <2>1. s \in Int /\ r \in Int  BY <1>2, <1>3, <1>5, SMT
  <2>2. e + m * k = es - mr
    <3> DEFINE o == m * n
               w == e * n
               eo == e * o
               mw == m * w
               mk == m * k
    <3>1. o \in Int /\ w \in Int /\ mk \in Int  BY <1>2, <1>3, <1>5, SMT
    <3>2. eo = mw /\ eo \in Int
      <4>1. e * (m * n) = m * (e * n) /\ e * (m * n) \in Int  BY <1>2, <1>3, SMT
      <4> QED BY <4>1
    <3>3. es = eo + e /\ mr = mw - mk
      <4> HIDE DEF o, w
      <4>1. e * (o + 1) = e * o + e  BY <1>2, <3>1, SMT
      <4>2. m * (w - k) = m * w - m * k  BY <1>5, <3>1, SMT
      <4> QED BY <4>1, <4>2 DEF o, w
    <3> HIDE DEF es, mr, eo, mw, mk
    <3>4. e + mk = es - mr  BY <1>2, <3>1, <3>2, <3>3
    <3> QED BY <3>4 DEF mk
  <2>3. Divides(Word, s) /\ Divides(Word, r)  BY <1>3, <1>5
  <2> HIDE DEF s, r
  <2>4. Divides(Word, es) /\ Divides(Word, mr)  BY <1>1, <1>2, <2>1, <2>3, DividesTimes
  <2>5. es \in Int /\ mr \in Int  BY <1>2, <2>1, SMT
  <2> HIDE DEF es, mr
  <2>6. Divides(Word, es - mr)  BY <1>1, <2>4, <2>5, DividesSum
  <2> QED BY <2>2, <2>6
<1> DEFINE s == e + m * k
<1>7. s \in Int /\ m * k \in Int  BY <1>2, <1>5, SMT
<1>8. t \in Int /\ s = Word * t
  <2> HIDE DEF s
  <2>1. s \div Word \in Int /\ s = Word * (s \div Word) + (s % Word) /\ s % Word = 0
    BY <1>1, <1>6, <1>7, ModIs, ModZero DEF s
  <2> DEFINE o == s \div Word
             w == Word * o
  <2>2. o \in Int /\ w \in Int  BY <1>1, <2>1, SMT
  <2>3. s = w + 0  BY <2>1
  <2> HIDE DEF w
  <2>4. s = w  BY <2>2, <2>3
  <2> QED BY <2>2, <2>4 DEF w, o, s
<1>9. -(m * Word) <= s /\ s < 2 * (m * Word)
  <2>1. 0 <= m * k /\ m * k <= m * Word - m
    <3>1. m * k >= 0  BY <1>5, SMT
    <3>2. m * (Word - 1 - k) >= 0  BY <1>1, <1>5, SMT
    <3>3. m * (Word - 1 - k) = m * Word - m - m * k  BY <1>1, <1>5, SMT
    <3> DEFINE mk == m * k
               mW == m * Word
               o == m * (Word - 1 - k)
    <3> HIDE DEF mk, mW, o
    <3>4. mk \in Int /\ mW \in Int /\ mk >= 0 /\ o >= 0 /\ o = mW - m - mk
      BY <1>2, <1>7, <3>1, <3>2, <3>3 DEF mk, mW, o
    <3>5. 0 <= mk /\ mk <= mW - m  BY <3>4
    <3> QED BY <3>5 DEF mk, mW
  <2> DEFINE mk == m * k
             mW == m * Word
  <2> HIDE DEF mk, mW
  <2>2. mk \in Int /\ mW \in Int /\ 0 <= mk /\ mk <= mW - m /\ e <= mW /\ -mW <= e /\ s = e + mk
    BY <1>2, <1>7, <2>1 DEF mk, mW
  <2> HIDE DEF s
  <2>3. -mW <= s /\ s < 2 * mW  BY <1>2, <2>2
  <2> QED BY <2>3 DEF mW
<1> HIDE DEF t
<1>10. -m <= t /\ t < 2 * m
  <2>1. -(m * Word) <= Word * t /\ Word * t < 2 * (m * Word)  BY <1>8, <1>9
  <2> DEFINE w == Word
  <2> HIDE DEF w
  <2>2. w \in Int /\ w > 0 /\ -(m * w) <= w * t /\ w * t < 2 * (m * w)  BY <1>1, <2>1 DEF w
  <2>3. w * (t + m) >= 0
    <3>1. w * (t + m) = w * t + m * w  BY <1>8, <2>2, SMT
    <3> DEFINE o == w * t
               r == m * w
    <3>2. o \in Int /\ r \in Int  BY <1>8, <2>2, SMT
    <3>3. -r <= o  BY <2>2
    <3> HIDE DEF o, r
    <3>4. o + r >= 0  BY <3>2, <3>3
    <3> QED BY <3>1, <3>4 DEF o, r
  <2>4. w * (2 * m - t) > 0
    <3>1. w * (2 * m - t) = 2 * (m * w) - w * t  BY <1>8, <2>2, SMT
    <3> DEFINE o == w * t
               r == m * w
    <3>2. o \in Int /\ r \in Int  BY <1>8, <2>2, SMT
    <3>3. o < 2 * r  BY <2>2
    <3> HIDE DEF o, r
    <3>4. 2 * r - o > 0  BY <3>2, <3>3
    <3> QED BY <3>1, <3>4 DEF o, r
  <2>5. t + m >= 0
    <3>1. t + m \in Int  BY <1>8
    <3>2. ASSUME t + m < 0 PROVE FALSE
      <4> DEFINE o == t + m
      <4>1. o \in Int /\ o < 0 /\ w * o >= 0  BY <2>3, <3>1, <3>2
      <4> HIDE DEF o
      <4> QED BY <2>2, <4>1, SMT
    <3> QED BY <3>1, <3>2
  <2>6. 2 * m - t > 0
    <3>1. 2 * m - t \in Int  BY <1>8
    <3>2. ASSUME ~(2 * m - t > 0) PROVE FALSE
      <4> DEFINE o == 2 * m - t
      <4>1. o \in Int /\ o <= 0 /\ w * o > 0  BY <2>4, <3>1, <3>2
      <4> HIDE DEF o
      <4> QED BY <2>2, <4>1, SMT
    <3> QED BY <3>1, <3>2
  <2> QED BY <1>8, <2>5, <2>6
<1>11. \E l \in Int : Word * t = e + m * l
  BY <1>5, <1>8
<1> QED BY <1>4, <1>8, <1>10, <1>11 DEF e, t

LEMMA ModSmall ==
  ASSUME NEW k \in Nat, NEW z \in 0..(k - 1)
  PROVE  z % k = z
BY SMT

LEMMA FullInt == Full \in Int
<1>1. W * Words \in Int  BY BezoutAssumption, SMT
<1> DEFINE e == W * Words
<1> HIDE DEF e
<1>2. e \in Int  BY <1>1 DEF e
<1>3. 2^e \in Int  BY <1>2, SMT
<1> QED BY <1>3 DEF Full, e

(* zint_finish_mod brings the quotient into range, by a multiple of m.     *)
LEMMA CoReduceModExact ==
  ASSUME NEW m \in Int, m > 0, m % 2 = 1, m < Full, NEW c \in 0..m, NEW d \in 0..m,
         NEW p \in Int, NEW q \in Int, Abs(p) + Abs(q) <= Word
  PROVE  /\ CoReduceMod(c, d, m, p, q) \in 0..(m - 1)
         /\ \E k \in Int : Word * CoReduceMod(c, d, m, p, q) = c * p + d * q + m * k
<1> DEFINE t == Quotient(c, d, m, p, q)
           r == IF t < 0 THEN t + m ELSE IF t >= m THEN t - m ELSE t
           e == c * p + d * q
<1>1. /\ t \in Int /\ -m <= t /\ t < 2 * m
      /\ \E k \in Int : Word * t = c * p + d * q + m * k
  BY QuotientExact
<1>2. PICK k \in Int : Word * t = e + m * k  BY <1>1
<1>3. e \in Int  BY SMT
<1>4. Word \in Int  BY WordFacts
<1>5. CoReduceMod(c, d, m, p, q) = r % Full  BY DEF CoReduceMod, FinishMod
<1> HIDE DEF t, e
<1>6. r \in 0..(m - 1)  BY <1>1
<1>7. r % Full = r
  <2>1. Full \in Nat /\ r \in 0..(Full - 1)
    <3> HIDE DEF r
    <3> QED BY <1>6, FullInt
  <2> HIDE DEF r
  <2> QED BY <2>1, ModSmall
<1>8. r = t + m \/ r = t - m \/ r = t  OBVIOUS
<1> HIDE DEF r
<1>9. \E l \in Int : Word * r = e + m * l
  <2> DEFINE w == Word
  <2>1. w \in Int /\ w * t = e + m * k  BY <1>2, <1>4
  <2> HIDE DEF w
  <2> DEFINE wt == w * t
             wm == w * m
             mk == m * k
             mw == m * w
  <2>2. wt \in Int /\ wm \in Int /\ mk \in Int /\ mw = wm  BY <1>1, <2>1, SMT
  <2>3. CASE r = t + m
    <3>1. w * (t + m) = wt + wm  BY <1>1, <2>1, SMT
    <3>2. m * (k + w) = mk + mw  BY <2>1, SMT
    <3>3. w * r = e + m * (k + w)
      <4> DEFINE o == m * (k + w)
                 wr == w * r
      <4>1. wr = wt + wm /\ o = mk + mw /\ wt = e + mk  BY <2>1, <2>3, <3>1, <3>2
      <4> HIDE DEF o, wr, wt, wm, mk, mw
      <4>2. wr = e + o  BY <1>3, <2>2, <4>1
      <4> QED BY <4>2 DEF o, wr
    <3>4. k + w \in Int  BY <2>1
    <3> QED BY <3>3, <3>4 DEF w
  <2>4. CASE r = t - m
    <3>1. w * (t - m) = wt - wm  BY <1>1, <2>1, SMT
    <3>2. m * (k - w) = mk - mw  BY <2>1, SMT
    <3>3. w * r = e + m * (k - w)
      <4> DEFINE o == m * (k - w)
                 wr == w * r
      <4>1. wr = wt - wm /\ o = mk - mw /\ wt = e + mk  BY <2>1, <2>4, <3>1, <3>2
      <4> HIDE DEF o, wr, wt, wm, mk, mw
      <4>2. wr = e + o  BY <1>3, <2>2, <4>1
      <4> QED BY <4>2 DEF o, wr
    <3>4. k - w \in Int  BY <2>1
    <3> QED BY <3>3, <3>4 DEF w
  <2>5. CASE r = t
    <3>1. w * r = e + m * k  BY <2>1, <2>5
    <3> QED BY <3>1 DEF w
  <2> QED BY <1>8, <2>3, <2>4, <2>5
<1> QED BY <1>5, <1>6, <1>7, <1>9 DEF e

(***************************************************************************)
(* The factors of a turn.  A row is the low part of a or of b, and its two *)
(* factors: modulo a word, the low part is what the factors make of the    *)
(* operands c and d, after i steps its i low bits are zero, and the        *)
(* factors have at most doubled in each.                                   *)
(***************************************************************************)
Row(l, p, q, i, c, d) ==
  /\ l \in Int /\ p \in Int /\ q \in Int
  /\ Divides(2^i, l)
  /\ Divides(Word, c * p + d * q - l)
  /\ Abs(p) + Abs(q) <= 2^i

LEMMA StepPowers ==
  ASSUME NEW i \in 0..(W - 1)
  PROVE  /\ 2^i \in Nat /\ 2^i > 0 /\ 2^i \in Int /\ 2^(i + 1) \in Int
         /\ 2^(i + 1) = 2 * 2^i /\ Divides(2^(i + 1), 2^(W + 1))
         /\ Divides(Word, 2^(W + 1)) /\ 2^(W + 1) \in Nat /\ 2^(W + 1) > 0
<1>1. W \in 2..31 /\ i \in 0..32 /\ i + 1 \in 0..32 /\ W + 1 \in 0..32 /\ W + 1 \in 0..33
      /\ i + 1 \in 0..(W + 1) /\ W \in 0..(W + 1)
  BY WordFacts
<1>2. 2^i \in Nat /\ 2^i > 0 /\ 2^(i + 1) = 2 * 2^i  BY <1>1, TwoPower, Zenon
<1>3. 2^(i + 1) \in Nat  BY <1>1, TwoPower, Zenon
<1>4. 2^(W + 1) \in Nat /\ 2^(W + 1) > 0  BY <1>1, TwoPower, Zenon
<1>5. Divides(2^(i + 1), 2^(W + 1)) /\ Divides(2^W, 2^(W + 1))
  BY <1>1, PowerDivides, Zenon
<1>6. \A n \in Nat : n \in Int  OBVIOUS
<1> QED BY <1>2, <1>3, <1>4, <1>5, <1>6, Zenon DEF Word

(* Cutting a low part to one bit more than a word. *)
LEMMA LowKeeps ==
  ASSUME NEW i \in 0..(W - 1), NEW z \in Int, NEW e \in Int,
         Divides(2^(i + 1), z), Divides(Word, e - z)
  PROVE  z % 2^(W + 1) \in Int /\ Divides(2^(i + 1), z % 2^(W + 1))
         /\ Divides(Word, e - (z % 2^(W + 1)))
<1> DEFINE M == 2^(W + 1)
           k == 2^(i + 1)
           r == z % M
           w == Word
<1>1. M \in Nat /\ M > 0 /\ k \in Int /\ w \in Int /\ Divides(k, M) /\ Divides(w, M)
  BY StepPowers, WordFacts
<1> HIDE DEF M, k, w
<1>2. r \in 0..(M - 1) /\ Divides(M, z - r)  BY <1>1, ModIs
<1>3. r \in Int /\ M \in Int /\ z - r \in Int /\ e - z \in Int  BY <1>1, <1>2
<1> HIDE DEF r
<1>4. Divides(k, z - r) /\ Divides(w, z - r)  BY <1>1, <1>2, <1>3, DividesTrans
<1>5. Divides(k, z - (z - r))
  <2>1. Divides(k, z)  BY DEF k
  <2> QED BY <1>1, <1>3, <1>4, <2>1, DividesSum
<1>6. Divides(w, (e - z) + (z - r))
  <2>1. Divides(w, e - z)  BY DEF w
  <2> QED BY <1>1, <1>3, <1>4, <2>1, DividesSum
<1>7. z - (z - r) = r /\ (e - z) + (z - r) = e - r  BY <1>3
<1>8. r \in Int /\ Divides(k, r) /\ Divides(w, e - r)  BY <1>3, <1>5, <1>6, <1>7
<1> QED BY <1>8 DEF r, M, k, w

(* A bit of a number whose lower bits are zero. *)
LEMMA BitOfMultiple ==
  ASSUME NEW k \in Nat, k > 0, NEW l \in Int, Divides(k, l)
  PROVE  \E j \in Int : l = k * j /\ (l \div k) % 2 = j % 2 /\ j % 2 \in {0, 1}
<1>1. PICK j \in Int : l = k * j  BY DEF Divides
<1>2. l \div k = j
  <2>1. l \div k \in Int /\ l % k \in 0..(k - 1) /\ l = k * (l \div k) + (l % k)  BY ModIs
  <2>2. Divides(k, l)  BY <1>1 DEF Divides
  <2>3. l % k = 0  BY <2>2, ModZero
  <2> DEFINE o == l \div k
  <2>4. o \in Int /\ k * j = k * o
    <3> DEFINE ko == k * o
    <3>1. o \in Int  BY <2>1
    <3> HIDE DEF o
    <3>2. ko \in Int  BY <3>1, SMT
    <3>3. l = ko + 0  BY <2>1, <2>3 DEF o
    <3> HIDE DEF ko
    <3>4. l = ko  BY <3>2, <3>3
    <3> QED BY <1>1, <3>1, <3>4 DEF ko
  <2> HIDE DEF o
  <2>5. j = o
    <3>1. k * (j - o) = k * j - k * o /\ k * j \in Int  BY <2>4, SMT
    <3> DEFINE kj == k * j
    <3>2. kj - k * o = 0  BY <2>4, <3>1
    <3>3. k * (j - o) = 0  BY <3>1, <3>2
    <3>4. j - o \in Int /\ -k < k * (j - o)  BY <2>4, <3>3
    <3>5. CASE j - o > 0
      <4>1. k * (j - o) > 0  BY <3>4, <3>5, SMT
      <4> QED BY <3>3, <4>1
    <3>6. CASE j - o < 0
      <4>1. k * (j - o) < 0  BY <3>4, <3>6, SMT
      <4> QED BY <3>3, <4>1
    <3>7. CASE j - o = 0  BY <2>4, <3>7
    <3> QED BY <3>4, <3>5, <3>6, <3>7
  <2> QED BY <2>5 DEF o
<1> QED BY <1>1, <1>2

LEMMA EvenStep ==
  ASSUME NEW k \in Int, NEW j \in Int, j % 2 = 0
  PROVE  Divides(2 * k, k * j)
<1>1. PICK h \in Int : j = 2 * h  BY SMT
<1>2. k * j = (2 * k) * h  BY <1>1, SMT
<1> QED BY <1>2 DEF Divides

LEMMA RowEven ==
  ASSUME NEW i \in 0..(W - 1), NEW c \in Int, NEW d \in Int, NEW l, NEW p, NEW q,
         Row(l, p, q, i, c, d), (l \div 2^i) % 2 = 0
  PROVE  Row(l, p, q, i + 1, c, d)
<1> DEFINE k == 2^i
           kk == 2^(i + 1)
<1>1. k \in Nat /\ k > 0 /\ kk = 2 * k  BY StepPowers
<1>2. /\ l \in Int /\ p \in Int /\ q \in Int /\ Divides(k, l)
      /\ Divides(Word, c * p + d * q - l) /\ Abs(p) + Abs(q) <= k
  BY DEF Row
<1>3. (l \div k) % 2 = 0  OBVIOUS
<1> HIDE DEF k, kk
<1>4. PICK j \in Int : l = k * j /\ (l \div k) % 2 = j % 2  BY <1>1, <1>2, BitOfMultiple
<1>5. k \in Int /\ j % 2 = 0  BY <1>1, <1>3, <1>4
<1>6. Divides(kk, l)
  <2>1. Divides(2 * k, k * j)  BY <1>5, EvenStep
  <2> QED BY <1>1, <1>4, <2>1
<1>7. Abs(p) + Abs(q) <= kk
  <2>1. Abs(p) \in Int /\ Abs(q) \in Int  BY <1>2, SMT DEF Abs
  <2> QED BY <1>1, <1>2, <2>1
<1>8. Row(l, p, q, i + 1, c, d) <=> l \in Int /\ p \in Int /\ q \in Int /\ Divides(kk, l)
        /\ Divides(Word, c * p + d * q - l) /\ Abs(p) + Abs(q) <= kk
  BY DEF Row, kk
<1> QED BY <1>2, <1>6, <1>7, <1>8

LEMMA RowDouble ==
  ASSUME NEW i \in 0..(W - 1), NEW c \in Int, NEW d \in Int, NEW l, NEW p, NEW q,
         Row(l, p, q, i, c, d)
  PROVE  Row((2 * l) % 2^(W + 1), 2 * p, 2 * q, i + 1, c, d)
<1> DEFINE k == 2^i
           kk == 2^(i + 1)
           r == (2 * l) % 2^(W + 1)
           e == c * (2 * p) + d * (2 * q)
<1>1. k \in Nat /\ k > 0 /\ kk = 2 * k  BY StepPowers
<1>2. /\ l \in Int /\ p \in Int /\ q \in Int /\ Divides(k, l)
      /\ Divides(Word, c * p + d * q - l) /\ Abs(p) + Abs(q) <= k
  BY DEF Row
<1>3. Divides(kk, 2 * l)
  <2> HIDE DEF k, kk
  <2>1. PICK j \in Int : l = k * j  BY <1>2 DEF Divides
  <2>2. 2 * l = (2 * k) * j  BY <1>1, <2>1, SMT
  <2> QED BY <1>1, <2>2 DEF Divides
<1>4. e \in Int /\ Divides(Word, e - 2 * l)
  <2> DEFINE o == c * p + d * q
  <2>1. e = 2 * o /\ o \in Int
    <3>1. c * (2 * p) = 2 * (c * p) /\ d * (2 * q) = 2 * (d * q) /\ c * p \in Int /\ d * q \in Int
      BY <1>2, SMT
    <3> DEFINE cp == c * p
               dq == d * q
    <3>2. e = 2 * cp + 2 * dq /\ cp \in Int /\ dq \in Int  BY <3>1
    <3> HIDE DEF cp, dq, e
    <3>3. e = 2 * (cp + dq) /\ cp + dq \in Int  BY <3>2
    <3> QED BY <3>3 DEF cp, dq
  <2>2. Divides(Word, o - l)  BY <1>2
  <2> HIDE DEF o, e
  <2>3. Word \in Int /\ o - l \in Int /\ 2 \in Int  BY <1>2, <2>1, WordFacts
  <2>4. Divides(Word, 2 * (o - l))  BY <2>2, <2>3, DividesTimes
  <2>5. 2 * (o - l) = e - 2 * l  BY <1>2, <2>1
  <2>6. e \in Int  BY <2>1
  <2> QED BY <2>4, <2>5, <2>6
<1>5. r \in Int /\ Divides(kk, r) /\ Divides(Word, e - r)
  <2>1. 2 * l \in Int  BY <1>2
  <2> HIDE DEF e
  <2> QED BY <1>3, <1>4, <2>1, LowKeeps
<1>6. 2 * p \in Int /\ 2 * q \in Int /\ Abs(2 * p) + Abs(2 * q) <= kk
  <2> HIDE DEF k, kk
  <2>1. Abs(2 * p) = 2 * Abs(p) /\ Abs(2 * q) = 2 * Abs(q) /\ Abs(p) \in Int /\ Abs(q) \in Int
    BY <1>2, SMT DEF Abs
  <2> QED BY <1>1, <1>2, <2>1
<1> QED BY <1>5, <1>6 DEF Row, e, r, kk

LEMMA RowSub ==
  ASSUME NEW i \in 0..(W - 1), NEW c \in Int, NEW d \in Int, NEW l, NEW p, NEW q,
         NEW m, NEW r, NEW t, Row(l, p, q, i, c, d), Row(m, r, t, i, c, d),
         (l \div 2^i) % 2 = 1, (m \div 2^i) % 2 = 1
  PROVE  Row((l - m) % 2^(W + 1), p - r, q - t, i + 1, c, d)
<1> DEFINE k == 2^i
           kk == 2^(i + 1)
           z == (l - m) % 2^(W + 1)
           e == c * (p - r) + d * (q - t)
<1>1. k \in Nat /\ k > 0 /\ kk = 2 * k  BY StepPowers
<1>2. /\ l \in Int /\ p \in Int /\ q \in Int /\ Divides(k, l)
      /\ Divides(Word, c * p + d * q - l) /\ Abs(p) + Abs(q) <= k
  BY DEF Row
<1>3. /\ m \in Int /\ r \in Int /\ t \in Int /\ Divides(k, m)
      /\ Divides(Word, c * r + d * t - m) /\ Abs(r) + Abs(t) <= k
  BY DEF Row
<1>4. Divides(kk, l - m)
  <2>1. (l \div k) % 2 = 1 /\ (m \div k) % 2 = 1  OBVIOUS
  <2> HIDE DEF k, kk
  <2>2. PICK j \in Int : l = k * j /\ (l \div k) % 2 = j % 2  BY <1>1, <1>2, BitOfMultiple
  <2>3. PICK h \in Int : m = k * h /\ (m \div k) % 2 = h % 2  BY <1>1, <1>3, BitOfMultiple
  <2>4. (j - h) % 2 = 0 /\ j - h \in Int
    <3>1. j % 2 = 1 /\ h % 2 = 1  BY <2>1, <2>2, <2>3
    <3> QED BY <3>1, SMT
  <2>5. l - m = k * (j - h)  BY <1>1, <2>2, <2>3, SMT
  <2>6. k \in Int  BY <1>1
  <2>7. Divides(2 * k, k * (j - h))  BY <2>4, <2>6, EvenStep
  <2> QED BY <1>1, <2>5, <2>7
<1>5. e \in Int /\ Divides(Word, e - (l - m))
  <2> DEFINE o == c * p + d * q
             s == c * r + d * t
  <2>1. e = o - s /\ o \in Int /\ s \in Int
    <3>1. c * (p - r) = c * p - c * r /\ d * (q - t) = d * q - d * t
      BY <1>2, <1>3, SMT
    <3>2. c * p \in Int /\ c * r \in Int /\ d * q \in Int /\ d * t \in Int
      BY <1>2, <1>3, SMT
    <3> DEFINE cp == c * p
               dq == d * q
               cr == c * r
               dt == d * t
    <3>3. e = (cp - cr) + (dq - dt) /\ cp \in Int /\ cr \in Int /\ dq \in Int /\ dt \in Int
      BY <3>1, <3>2
    <3> HIDE DEF cp, dq, cr, dt, e
    <3>4. e = (cp + dq) - (cr + dt) /\ cp + dq \in Int /\ cr + dt \in Int  BY <3>3
    <3> QED BY <3>4 DEF cp, dq, cr, dt
  <2>2. Divides(Word, o - l) /\ Divides(Word, s - m)  BY <1>2, <1>3
  <2> HIDE DEF o, s, e
  <2>3. Word \in Int /\ o - l \in Int /\ s - m \in Int  BY <1>2, <1>3, <2>1, WordFacts
  <2>4. Divides(Word, (o - l) - (s - m))  BY <2>2, <2>3, DividesSum
  <2>5. (o - l) - (s - m) = e - (l - m)  BY <1>2, <1>3, <2>1
  <2>6. e \in Int  BY <2>1
  <2> QED BY <2>4, <2>5, <2>6
<1>6. z \in Int /\ Divides(kk, z) /\ Divides(Word, e - z)
  <2>1. l - m \in Int  BY <1>2, <1>3
  <2> HIDE DEF e
  <2> QED BY <1>4, <1>5, <2>1, LowKeeps
<1>7. p - r \in Int /\ q - t \in Int /\ Abs(p - r) + Abs(q - t) <= kk
  <2> HIDE DEF k, kk
  <2>1. Abs(p - r) <= Abs(p) + Abs(r) /\ Abs(q - t) <= Abs(q) + Abs(t)  BY <1>2, <1>3, SMT DEF Abs
  <2>2. Abs(p) \in Int /\ Abs(q) \in Int /\ Abs(r) \in Int /\ Abs(t) \in Int
        /\ Abs(p - r) \in Int /\ Abs(q - t) \in Int
    BY <1>2, <1>3, SMT DEF Abs
  <2> QED BY <1>1, <1>2, <1>3, <2>1, <2>2
<1> QED BY <1>6, <1>7 DEF Row, e, z, kk

(* The variables of the inner loop. *)
Inner == [alo : Int, blo : Int, ahi : Int, bhi : Int, pa : Int, pb : Int, qa : Int, qb : Int]

Mk(t1, t2, t3, t4, t5, t6, t7, t8) ==
  [alo |-> t1, blo |-> t2, ahi |-> t3, bhi |-> t4, pa |-> t5, pb |-> t6, qa |-> t7, qb |-> t8]

(* They are updated one by one. *)
SetLessB(t, e1, e2, e3, e4) == [t EXCEPT !.alo = e1, !.ahi = e2, !.pa = e3, !.pb = e4]
SetLessA(t, e1, e2, e3, e4) == [t EXCEPT !.blo = e1, !.bhi = e2, !.qa = e3, !.qb = e4]
SetTwiceB(t, e1, e2, e3, e4) == [t EXCEPT !.blo = e1, !.qa = e2, !.qb = e3, !.ahi = e4]
SetTwiceA(t, e1, e2, e3, e4) == [t EXCEPT !.alo = e1, !.pa = e2, !.pb = e3, !.bhi = e4]

LEMMA LessB ==
  ASSUME NEW t1, NEW t2, NEW t3, NEW t4, NEW t5, NEW t6, NEW t7, NEW t8,
         NEW e1, NEW e2, NEW e3, NEW e4
  PROVE  SetLessB(Mk(t1, t2, t3, t4, t5, t6, t7, t8), e1, e2, e3, e4)
           = Mk(e1, t2, e2, t4, e3, e4, t7, t8)
<1> DEFINE t == Mk(t1, t2, t3, t4, t5, t6, t7, t8)
           r1 == Mk(e1, t2, t3, t4, t5, t6, t7, t8)
           r2 == Mk(e1, t2, e2, t4, t5, t6, t7, t8)
           r3 == Mk(e1, t2, e2, t4, e3, t6, t7, t8)
           r4 == Mk(e1, t2, e2, t4, e3, e4, t7, t8)
<1>1. [t EXCEPT !.alo = e1] = r1  BY SMT DEF Mk
<1>2. [r1 EXCEPT !.ahi = e2] = r2  BY SMT DEF Mk
<1>3. [r2 EXCEPT !.pa = e3] = r3  BY SMT DEF Mk
<1>4. [r3 EXCEPT !.pb = e4] = r4  BY SMT DEF Mk
<1>5. [t EXCEPT !.alo = e1, !.ahi = e2, !.pa = e3, !.pb = e4]
        = [[[[t EXCEPT !.alo = e1] EXCEPT !.ahi = e2]
             EXCEPT !.pa = e3] EXCEPT !.pb = e4]
  BY SMT DEF Mk
<1> HIDE DEF t, r1, r2, r3, r4
<1>6. SetLessB(t, e1, e2, e3, e4) = r4
  BY <1>1, <1>2, <1>3, <1>4, <1>5, Zenon DEF SetLessB
<1> QED BY <1>6 DEF t, r4

LEMMA LessA ==
  ASSUME NEW t1, NEW t2, NEW t3, NEW t4, NEW t5, NEW t6, NEW t7, NEW t8,
         NEW e1, NEW e2, NEW e3, NEW e4
  PROVE  SetLessA(Mk(t1, t2, t3, t4, t5, t6, t7, t8), e1, e2, e3, e4)
           = Mk(t1, e1, t3, e2, t5, t6, e3, e4)
<1> DEFINE t == Mk(t1, t2, t3, t4, t5, t6, t7, t8)
           r1 == Mk(t1, e1, t3, t4, t5, t6, t7, t8)
           r2 == Mk(t1, e1, t3, e2, t5, t6, t7, t8)
           r3 == Mk(t1, e1, t3, e2, t5, t6, e3, t8)
           r4 == Mk(t1, e1, t3, e2, t5, t6, e3, e4)
<1>1. [t EXCEPT !.blo = e1] = r1  BY SMT DEF Mk
<1>2. [r1 EXCEPT !.bhi = e2] = r2  BY SMT DEF Mk
<1>3. [r2 EXCEPT !.qa = e3] = r3  BY SMT DEF Mk
<1>4. [r3 EXCEPT !.qb = e4] = r4  BY SMT DEF Mk
<1>5. [t EXCEPT !.blo = e1, !.bhi = e2, !.qa = e3, !.qb = e4]
        = [[[[t EXCEPT !.blo = e1] EXCEPT !.bhi = e2]
             EXCEPT !.qa = e3] EXCEPT !.qb = e4]
  BY SMT DEF Mk
<1> HIDE DEF t, r1, r2, r3, r4
<1>6. SetLessA(t, e1, e2, e3, e4) = r4
  BY <1>1, <1>2, <1>3, <1>4, <1>5, Zenon DEF SetLessA
<1> QED BY <1>6 DEF t, r4

LEMMA TwiceB ==
  ASSUME NEW t1, NEW t2, NEW t3, NEW t4, NEW t5, NEW t6, NEW t7, NEW t8,
         NEW e1, NEW e2, NEW e3, NEW e4
  PROVE  SetTwiceB(Mk(t1, t2, t3, t4, t5, t6, t7, t8), e1, e2, e3, e4)
           = Mk(t1, e1, e4, t4, t5, t6, e2, e3)
<1> DEFINE t == Mk(t1, t2, t3, t4, t5, t6, t7, t8)
           r1 == Mk(t1, e1, t3, t4, t5, t6, t7, t8)
           r2 == Mk(t1, e1, t3, t4, t5, t6, e2, t8)
           r3 == Mk(t1, e1, t3, t4, t5, t6, e2, e3)
           r4 == Mk(t1, e1, e4, t4, t5, t6, e2, e3)
<1>1. [t EXCEPT !.blo = e1] = r1  BY SMT DEF Mk
<1>2. [r1 EXCEPT !.qa = e2] = r2  BY SMT DEF Mk
<1>3. [r2 EXCEPT !.qb = e3] = r3  BY SMT DEF Mk
<1>4. [r3 EXCEPT !.ahi = e4] = r4  BY SMT DEF Mk
<1>5. [t EXCEPT !.blo = e1, !.qa = e2, !.qb = e3, !.ahi = e4]
        = [[[[t EXCEPT !.blo = e1] EXCEPT !.qa = e2]
             EXCEPT !.qb = e3] EXCEPT !.ahi = e4]
  BY SMT DEF Mk
<1> HIDE DEF t, r1, r2, r3, r4
<1>6. SetTwiceB(t, e1, e2, e3, e4) = r4
  BY <1>1, <1>2, <1>3, <1>4, <1>5, Zenon DEF SetTwiceB
<1> QED BY <1>6 DEF t, r4

LEMMA TwiceA ==
  ASSUME NEW t1, NEW t2, NEW t3, NEW t4, NEW t5, NEW t6, NEW t7, NEW t8,
         NEW e1, NEW e2, NEW e3, NEW e4
  PROVE  SetTwiceA(Mk(t1, t2, t3, t4, t5, t6, t7, t8), e1, e2, e3, e4)
           = Mk(e1, t2, t3, e4, e2, e3, t7, t8)
<1> DEFINE t == Mk(t1, t2, t3, t4, t5, t6, t7, t8)
           r1 == Mk(e1, t2, t3, t4, t5, t6, t7, t8)
           r2 == Mk(e1, t2, t3, t4, e2, t6, t7, t8)
           r3 == Mk(e1, t2, t3, t4, e2, e3, t7, t8)
           r4 == Mk(e1, t2, t3, e4, e2, e3, t7, t8)
<1>1. [t EXCEPT !.alo = e1] = r1  BY SMT DEF Mk
<1>2. [r1 EXCEPT !.pa = e2] = r2  BY SMT DEF Mk
<1>3. [r2 EXCEPT !.pb = e3] = r3  BY SMT DEF Mk
<1>4. [r3 EXCEPT !.bhi = e4] = r4  BY SMT DEF Mk
<1>5. [t EXCEPT !.alo = e1, !.pa = e2, !.pb = e3, !.bhi = e4]
        = [[[[t EXCEPT !.alo = e1] EXCEPT !.pa = e2]
             EXCEPT !.pb = e3] EXCEPT !.bhi = e4]
  BY SMT DEF Mk
<1> HIDE DEF t, r1, r2, r3, r4
<1>6. SetTwiceA(t, e1, e2, e3, e4) = r4
  BY <1>1, <1>2, <1>3, <1>4, <1>5, Zenon DEF SetTwiceA
<1> QED BY <1>6 DEF t, r4

Low(z)      == z % 2^(W + 1)
BitOf(z, i) == (z \div 2^i) % 2

(* What a step makes of them. *)
LEMMA StepForms ==
  ASSUME NEW s \in Inner, NEW i \in 0..(W - 1)
  PROVE  \/ /\ BitOf(s.alo, i) = 1 /\ BitOf(s.blo, i) = 1
            /\ Step(s, i) = Mk(Low(s.alo - s.blo), Low(2 * s.blo), (s.ahi - s.bhi) \div 2,
                               s.bhi,
                               s.pa - s.qa, s.pb - s.qb, 2 * s.qa, 2 * s.qb)
         \/ /\ BitOf(s.alo, i) = 1 /\ BitOf(s.blo, i) = 1
            /\ Step(s, i) = Mk(Low(2 * s.alo), Low(s.blo - s.alo), s.ahi,
                               (s.bhi - s.ahi) \div 2,
                               2 * s.pa, 2 * s.pb, s.qa - s.pa, s.qb - s.pb)
         \/ /\ BitOf(s.alo, i) = 0
            /\ Step(s, i) = Mk(s.alo, Low(2 * s.blo), s.ahi \div 2, s.bhi,
                               s.pa, s.pb, 2 * s.qa, 2 * s.qb)
         \/ /\ BitOf(s.blo, i) = 0
            /\ Step(s, i) = Mk(Low(2 * s.alo), s.blo, s.ahi, s.bhi \div 2,
                               2 * s.pa, 2 * s.pb, s.qa, s.qb)
<1> DEFINE A == BitOf(s.alo, i)
           B == BitOf(s.blo, i)
           both == A = 1 /\ B = 1
           cAB  == both /\ s.ahi > s.bhi
           cBA  == both /\ ~(s.ahi > s.bhi)
           cA   == cAB \/ A = 0
           dAB(t) == [t EXCEPT !.alo = Low(@ - t.blo), !.ahi = @ - t.bhi,
                               !.pa = @ - t.qa, !.pb = @ - t.qb]
           dBA(t) == [t EXCEPT !.blo = Low(@ - t.alo), !.bhi = @ - t.ahi,
                               !.qa = @ - t.pa, !.qb = @ - t.pb]
           d    == IF cAB THEN dAB(s) ELSE IF cBA THEN dBA(s) ELSE s
           E(t) == [t EXCEPT !.blo = Low(2 * @), !.qa = 2 * @, !.qb = 2 * @, !.ahi = @ \div 2]
           H(t) == [t EXCEPT !.alo = Low(2 * @), !.pa = 2 * @, !.pb = 2 * @, !.bhi = @ \div 2]
<1>1. Step(s, i) = IF cA THEN E(d) ELSE H(d)
  BY Zenon DEF Step, Low, BitOf
<1>2. A \in {0, 1} /\ B \in {0, 1}
  <2>1. 2^i \in Nat /\ 2^i > 0 /\ s.alo \in Int /\ s.blo \in Int  BY StepPowers DEF Inner
  <2> DEFINE k == 2^i
  <2> HIDE DEF k
  <2>2. s.alo \div k \in Int /\ s.blo \div k \in Int  BY <2>1, SMT DEF k
  <2>3. \A z \in Int : z % 2 \in {0, 1}  BY SMT
  <2> QED BY <2>2, <2>3 DEF BitOf, k
<1>3. s = Mk(s.alo, s.blo, s.ahi, s.bhi, s.pa, s.pb, s.qa, s.qb)
  BY DEF Inner, Mk
<1>4. ASSUME NEW t, t = Mk(t.alo, t.blo, t.ahi, t.bhi, t.pa, t.pb, t.qa, t.qb)
      PROVE  /\ dAB(t) = Mk(Low(t.alo - t.blo), t.blo, t.ahi - t.bhi, t.bhi,
                            t.pa - t.qa, t.pb - t.qb, t.qa, t.qb)
             /\ dBA(t) = Mk(t.alo, Low(t.blo - t.alo), t.ahi, t.bhi - t.ahi,
                            t.pa, t.pb, t.qa - t.pa, t.qb - t.pb)
             /\ E(t) = Mk(t.alo, Low(2 * t.blo), t.ahi \div 2, t.bhi,
                          t.pa, t.pb, 2 * t.qa, 2 * t.qb)
             /\ H(t) = Mk(Low(2 * t.alo), t.blo, t.ahi, t.bhi \div 2,
                          2 * t.pa, 2 * t.pb, t.qa, t.qb)
  <2> DEFINE r == Mk(t.alo, t.blo, t.ahi, t.bhi, t.pa, t.pb, t.qa, t.qb)
  <2>1. t = r  BY <1>4, Zenon
  <2>2. SetLessB(r, Low(t.alo - t.blo), t.ahi - t.bhi, t.pa - t.qa, t.pb - t.qb)
          = Mk(Low(t.alo - t.blo), t.blo, t.ahi - t.bhi, t.bhi,
               t.pa - t.qa, t.pb - t.qb, t.qa, t.qb)
    BY LessB
  <2>3. SetLessA(r, Low(t.blo - t.alo), t.bhi - t.ahi, t.qa - t.pa, t.qb - t.pb)
          = Mk(t.alo, Low(t.blo - t.alo), t.ahi, t.bhi - t.ahi,
               t.pa, t.pb, t.qa - t.pa, t.qb - t.pb)
    BY LessA
  <2>4. SetTwiceB(r, Low(2 * t.blo), 2 * t.qa, 2 * t.qb, t.ahi \div 2)
          = Mk(t.alo, Low(2 * t.blo), t.ahi \div 2, t.bhi, t.pa, t.pb, 2 * t.qa, 2 * t.qb)
    BY TwiceB
  <2>5. SetTwiceA(r, Low(2 * t.alo), 2 * t.pa, 2 * t.pb, t.bhi \div 2)
          = Mk(Low(2 * t.alo), t.blo, t.ahi, t.bhi \div 2, 2 * t.pa, 2 * t.pb, t.qa, t.qb)
    BY TwiceA
  <2>6. /\ dAB(t) = SetLessB(t, Low(t.alo - t.blo), t.ahi - t.bhi, t.pa - t.qa, t.pb - t.qb)
        /\ dBA(t) = SetLessA(t, Low(t.blo - t.alo), t.bhi - t.ahi, t.qa - t.pa, t.qb - t.pb)
        /\ E(t) = SetTwiceB(t, Low(2 * t.blo), 2 * t.qa, 2 * t.qb, t.ahi \div 2)
        /\ H(t) = SetTwiceA(t, Low(2 * t.alo), 2 * t.pa, 2 * t.pb, t.bhi \div 2)
    BY DEF SetLessB, SetLessA, SetTwiceB, SetTwiceA
  <2> HIDE DEF r, dAB, dBA, E, H
  <2> QED BY <2>1, <2>2, <2>3, <2>4, <2>5, <2>6
<1> HIDE DEF dAB, dBA, E, H
<1>6. CASE cAB
  <2> DEFINE t == dAB(s)
  <2>1. Step(s, i) = E(t) /\ A = 1 /\ B = 1  BY <1>1, <1>6
  <2>2. t = Mk(Low(s.alo - s.blo), s.blo, s.ahi - s.bhi, s.bhi,
               s.pa - s.qa, s.pb - s.qb, s.qa, s.qb)
    BY <1>3, <1>4
  <2> HIDE DEF t
  <2>3. /\ t = Mk(t.alo, t.blo, t.ahi, t.bhi, t.pa, t.pb, t.qa, t.qb)
        /\ t.alo = Low(s.alo - s.blo) /\ t.blo = s.blo /\ t.ahi = s.ahi - s.bhi /\ t.bhi = s.bhi
        /\ t.pa = s.pa - s.qa /\ t.pb = s.pb - s.qb /\ t.qa = s.qa /\ t.qb = s.qb
    BY <2>2 DEF Mk
  <2>4. E(t) = Mk(t.alo, Low(2 * t.blo), t.ahi \div 2, t.bhi, t.pa, t.pb, 2 * t.qa, 2 * t.qb)
    BY <1>4, <2>3
  <2> QED BY <2>1, <2>3, <2>4
<1>7. CASE cBA
  <2> DEFINE t == dBA(s)
  <2>1. Step(s, i) = H(t) /\ A = 1 /\ B = 1  BY <1>1, <1>7
  <2>2. t = Mk(s.alo, Low(s.blo - s.alo), s.ahi, s.bhi - s.ahi,
               s.pa, s.pb, s.qa - s.pa, s.qb - s.pb)
    BY <1>3, <1>4
  <2> HIDE DEF t
  <2>3. /\ t = Mk(t.alo, t.blo, t.ahi, t.bhi, t.pa, t.pb, t.qa, t.qb)
        /\ t.alo = s.alo /\ t.blo = Low(s.blo - s.alo) /\ t.ahi = s.ahi /\ t.bhi = s.bhi - s.ahi
        /\ t.pa = s.pa /\ t.pb = s.pb /\ t.qa = s.qa - s.pa /\ t.qb = s.qb - s.pb
    BY <2>2 DEF Mk
  <2>4. H(t) = Mk(Low(2 * t.alo), t.blo, t.ahi, t.bhi \div 2, 2 * t.pa, 2 * t.pb, t.qa, t.qb)
    BY <1>4, <2>3
  <2> QED BY <2>1, <2>3, <2>4
<1>8. CASE A = 0
  <2>1. Step(s, i) = E(s) /\ A = 0  BY <1>1, <1>8
  <2> QED BY <1>3, <1>4, <2>1
<1>9. CASE A # 0 /\ B # 1
  <2>1. Step(s, i) = H(s) /\ B = 0  BY <1>1, <1>2, <1>9
  <2> QED BY <1>3, <1>4, <2>1
<1>10. cAB \/ cBA \/ A = 0 \/ (A # 0 /\ B # 1)
  <2> HIDE DEF A, B
  <2> QED BY <1>2
<1> QED BY <1>6, <1>7, <1>8, <1>9, <1>10

LEMMA MkFields ==
  ASSUME NEW t1, NEW t2, NEW t3, NEW t4, NEW t5, NEW t6, NEW t7, NEW t8
  PROVE  LET t == Mk(t1, t2, t3, t4, t5, t6, t7, t8)
         IN  /\ t.alo = t1 /\ t.blo = t2 /\ t.pa = t5 /\ t.pb = t6 /\ t.qa = t7 /\ t.qb = t8
             /\ t1 \in Int /\ t2 \in Int /\ t3 \in Int /\ t4 \in Int /\ t5 \in Int
                /\ t6 \in Int /\ t7 \in Int /\ t8 \in Int => t \in Inner
BY DEF Mk, Inner

(* The rows of a state of the inner loop, and their determinant. *)
Rows(s, i, c, d) ==
  /\ s \in Inner
  /\ Row(s.alo, s.pa, s.pb, i, c, d)
  /\ Row(s.blo, s.qa, s.qb, i, c, d)
  /\ s.pa * s.qb - s.pb * s.qa = 2^i

(* What a step makes of a determinant: a difference of rows leaves it, and *)
(* a row that is doubled doubles it.                                       *)
LEMMA DeterminantDoubled ==
  ASSUME NEW p \in Int, NEW q \in Int, NEW r \in Int, NEW t \in Int
  PROVE  /\ p * (2 * t) - q * (2 * r) = 2 * (p * t - q * r)
         /\ (2 * p) * t - (2 * q) * r = 2 * (p * t - q * r)
         /\ (p - r) * (2 * t) - (q - t) * (2 * r) = 2 * (p * t - q * r)
         /\ (2 * p) * (t - q) - (2 * q) * (r - p) = 2 * (p * t - q * r)
BY SMT

LEMMA StepType ==
  ASSUME NEW s \in Inner, NEW i \in 0..(W - 1)
  PROVE  Step(s, i) \in Inner
<1>1. \A z \in Int : Low(z) \in Int /\ z \div 2 \in Int
  <2> SUFFICES ASSUME NEW z \in Int PROVE Low(z) \in Int /\ z \div 2 \in Int  OBVIOUS
  <2>1. 2^(W + 1) \in Nat /\ 2^(W + 1) > 0  BY StepPowers
  <2>2. z % 2^(W + 1) \in 0..(2^(W + 1) - 1)  BY <2>1, ModIs
  <2>3. z % 2^(W + 1) \in Int  BY <2>1, <2>2
  <2> QED BY <2>3, SMT DEF Low
<1>2. s.alo \in Int /\ s.blo \in Int /\ s.ahi \in Int /\ s.bhi \in Int
      /\ s.pa \in Int /\ s.pb \in Int /\ s.qa \in Int /\ s.qb \in Int
  BY DEF Inner
<1>3. s.alo - s.blo \in Int /\ s.blo - s.alo \in Int /\ 2 * s.alo \in Int /\ 2 * s.blo \in Int
      /\ s.ahi - s.bhi \in Int /\ s.bhi - s.ahi \in Int
      /\ s.pa - s.qa \in Int /\ s.pb - s.qb \in Int /\ s.qa - s.pa \in Int /\ s.qb - s.pb \in Int
      /\ 2 * s.pa \in Int /\ 2 * s.pb \in Int /\ 2 * s.qa \in Int /\ 2 * s.qb \in Int
  BY <1>2
<1>4. s.ahi \div 2 \in Int /\ s.bhi \div 2 \in Int
      /\ (s.ahi - s.bhi) \div 2 \in Int /\ (s.bhi - s.ahi) \div 2 \in Int
      /\ Low(s.alo - s.blo) \in Int /\ Low(s.blo - s.alo) \in Int
      /\ Low(2 * s.alo) \in Int /\ Low(2 * s.blo) \in Int
  BY <1>1, <1>2, <1>3, Zenon
<1> QED BY <1>2, <1>3, <1>4, StepForms, MkFields, SMT

LEMMA StepRows ==
  ASSUME NEW i \in 0..(W - 1), NEW c \in Int, NEW d \in Int, NEW s, Rows(s, i, c, d)
  PROVE  Rows(Step(s, i), i + 1, c, d)
<1>1. s \in Inner /\ Row(s.alo, s.pa, s.pb, i, c, d) /\ Row(s.blo, s.qa, s.qb, i, c, d)
      /\ s.pa * s.qb - s.pb * s.qa = 2^i
  BY DEF Rows
<1>2. Step(s, i) \in Inner  BY <1>1, StepType
<1> DEFINE D == 2^(i + 1)
<1>3. /\ s.pa * (2 * s.qb) - s.pb * (2 * s.qa) = D
      /\ (2 * s.pa) * s.qb - (2 * s.pb) * s.qa = D
      /\ (s.pa - s.qa) * (2 * s.qb) - (s.pb - s.qb) * (2 * s.qa) = D
      /\ (2 * s.pa) * (s.qb - s.pb) - (2 * s.pb) * (s.qa - s.pa) = D
  <2>1. s.pa \in Int /\ s.pb \in Int /\ s.qa \in Int /\ s.qb \in Int
    BY <1>1 DEF Inner
  <2>2. 2 * (s.pa * s.qb - s.pb * s.qa) = D
    BY <1>1, StepPowers, Zenon
  <2> HIDE DEF D
  <2>3. PICK k \in Int, l \in Int, m \in Int, n \in Int :
          k = s.pa /\ l = s.pb /\ m = s.qa /\ n = s.qb
    BY <2>1
  <2>4. 2 * (k * n - l * m) = D  BY <2>2, <2>3
  <2>5. /\ k * (2 * n) - l * (2 * m) = D /\ (2 * k) * n - (2 * l) * m = D
        /\ (k - m) * (2 * n) - (l - n) * (2 * m) = D
        /\ (2 * k) * (n - l) - (2 * l) * (m - k) = D
    BY <2>4, DeterminantDoubled
  <2> QED BY <2>3, <2>5, Zenon
<1> HIDE DEF D
<1>4. Row(Low(2 * s.alo), 2 * s.pa, 2 * s.pb, i + 1, c, d)
      /\ Row(Low(2 * s.blo), 2 * s.qa, 2 * s.qb, i + 1, c, d)
  BY <1>1, RowDouble DEF Low
<1>5. CASE BitOf(s.alo, i) = 1 /\ BitOf(s.blo, i) = 1
           /\ Step(s, i) = Mk(Low(s.alo - s.blo), Low(2 * s.blo), (s.ahi - s.bhi) \div 2,
                              s.bhi, s.pa - s.qa, s.pb - s.qb, 2 * s.qa, 2 * s.qb)
  <2>1. Row(Low(s.alo - s.blo), s.pa - s.qa, s.pb - s.qb, i + 1, c, d)
    BY <1>1, <1>5, RowSub DEF Low, BitOf
  <2>2. Step(s, i).pa * Step(s, i).qb - Step(s, i).pb * Step(s, i).qa = D
    BY <1>3, <1>5, MkFields
  <2> QED BY <1>2, <1>4, <1>5, <2>1, <2>2, MkFields, SMT DEF Rows, D
<1>6. CASE BitOf(s.alo, i) = 1 /\ BitOf(s.blo, i) = 1
           /\ Step(s, i) = Mk(Low(2 * s.alo), Low(s.blo - s.alo), s.ahi,
                              (s.bhi - s.ahi) \div 2, 2 * s.pa, 2 * s.pb, s.qa - s.pa, s.qb - s.pb)
  <2>1. Row(Low(s.blo - s.alo), s.qa - s.pa, s.qb - s.pb, i + 1, c, d)
    BY <1>1, <1>6, RowSub DEF Low, BitOf
  <2>2. Step(s, i).pa * Step(s, i).qb - Step(s, i).pb * Step(s, i).qa = D
    BY <1>3, <1>6, MkFields
  <2> QED BY <1>2, <1>4, <1>6, <2>1, <2>2, MkFields, SMT DEF Rows, D
<1>7. CASE BitOf(s.alo, i) = 0
           /\ Step(s, i) = Mk(s.alo, Low(2 * s.blo), s.ahi \div 2, s.bhi,
                              s.pa, s.pb, 2 * s.qa, 2 * s.qb)
  <2>1. Row(s.alo, s.pa, s.pb, i + 1, c, d)
    BY <1>1, <1>7, RowEven DEF BitOf
  <2>2. Step(s, i).pa * Step(s, i).qb - Step(s, i).pb * Step(s, i).qa = D
    BY <1>3, <1>7, MkFields
  <2> QED BY <1>2, <1>4, <1>7, <2>1, <2>2, MkFields, SMT DEF Rows, D
<1>8. CASE BitOf(s.blo, i) = 0
           /\ Step(s, i) = Mk(Low(2 * s.alo), s.blo, s.ahi, s.bhi \div 2,
                              2 * s.pa, 2 * s.pb, s.qa, s.qb)
  <2>1. Row(s.blo, s.qa, s.qb, i + 1, c, d)
    BY <1>1, <1>8, RowEven DEF BitOf
  <2>2. Step(s, i).pa * Step(s, i).qb - Step(s, i).pb * Step(s, i).qa = D
    BY <1>3, <1>8, MkFields
  <2> QED BY <1>2, <1>4, <1>8, <2>1, <2>2, MkFields, SMT DEF Rows, D
<1> QED BY <1>1, <1>5, <1>6, <1>7, <1>8, StepForms, Zenon

(* The words of an integer above one of them. *)
LEMMA AboveType ==
  ASSUME NEW v \in Int, NEW j \in 0..Words
  PROVE  Above(v, j) \in Int
<1> DEFINE Def(w) == w = [k \in 0..Words |-> IF k = 0 THEN v ELSE w[k - 1] \div 2^W]
           s == CHOOSE w : Def(w)
<1>1. Words \in Nat /\ Word \in Nat /\ Word > 0  BY BezoutAssumption, WordFacts
<1>2. \A z \in Int : z \div Word \in Int  BY <1>1, ModIs
<1>3. \E w : Def(w)
  <2> DEFINE R == {r \in (1..Words) \X Int \X Int : r[3] = r[2] \div 2^W}
  <2>1. Total(Words, Int, R)
    <3>1. ASSUME NEW i \in 1..Words, NEW z \in Int PROVE \E t \in Int : <<i, z, t>> \in R
      <4>1. z \div 2^W \in Int  BY <1>2 DEF Word
      <4> QED BY <4>1
    <3> QED BY <3>1 DEF Total
  <2>2. PICK w \in Runs(Words, Int) : w[0] = v /\ Steps(w, Words, R)
    <3> HIDE DEF R
    <3> QED BY <1>1, <2>1, Chain, Zenon
  <2>3. \A i \in 1..Words : w[i] = w[i - 1] \div 2^W  BY <2>2 DEF Steps
  <2>4. \A i \in 0..Words : w[i] = IF i = 0 THEN v ELSE w[i - 1] \div 2^W
    BY <1>1, <2>2, <2>3
  <2>5. Def(w)  BY <2>4 DEF Runs
  <2> QED BY <2>5
<1>4. Def(s)
  <2> HIDE DEF Def
  <2> QED BY <1>3
<1>5. Above(v, j) = s[j]  BY DEF Above
<1> HIDE DEF s
<1>6. s[0] = v /\ \A i \in 1..Words : s[i] = s[i - 1] \div 2^W
  <2>1. \A i \in 0..Words : s[i] = IF i = 0 THEN v ELSE s[i - 1] \div 2^W  BY <1>4
  <2> QED BY <1>1, <2>1
<1>7. s = [i \in 0..Words |-> s[i]]  BY <1>4
<1> HIDE DEF Def
<1>8. ASSUME NEW i \in 0..(Words - 1), s[i] \in Int PROVE s[i + 1] \in Int
  <2>1. i + 1 \in 1..Words /\ (i + 1) - 1 = i  BY <1>1
  <2>2. s[i + 1] = s[i] \div Word  BY <1>6, <2>1 DEF Word
  <2> QED BY <1>2, <1>8, <2>2
<1>9. s \in [0..Words -> Int]
  <2>1. s[0] \in Int  BY <1>6
  <2> QED BY <1>1, <1>7, <1>8, <2>1, ChainType, Zenon
<1> QED BY <1>5, <1>9

LEMMA MaxIsThere ==
  ASSUME NEW n \in Nat, NEW T \in SUBSET (1..n), T # {}
  PROVE  Max(T) \in T
<1> DEFINE U == {j \in Nat : \A i \in T : i <= j}
           m == Min(U)
<1>1. n \in U  OBVIOUS
<1>2. U \in SUBSET Nat /\ U # {}  BY <1>1
<1>3. m \in U /\ \A j \in U : m <= j  BY <1>2, MinIsLeast, Zenon
<1> HIDE DEF m
<1>4. m \in T
  <2> SUFFICES ASSUME m \notin T PROVE FALSE  OBVIOUS
  <2>1. m \in Nat /\ \A i \in T : i \in Nat /\ i < m /\ i > 0
    <3>1. m \in Nat /\ \A i \in T : i <= m  BY <1>3
    <3>2. \A i \in T : i # m /\ i \in 1..n  OBVIOUS
    <3> QED BY <3>1, <3>2
  <2>2. PICK i \in T : TRUE  OBVIOUS
  <2>3. m - 1 \in Nat /\ \A j \in T : j <= m - 1  BY <2>1, <2>2
  <2>4. m - 1 \in U  BY <2>3
  <2>5. m <= m - 1  BY <1>3, <2>4
  <2> QED BY <2>1, <2>5
<1>5. \A i \in T : m >= i  BY <1>3
<1> QED BY <1>4, <1>5 DEF Max

LEMMA TopType ==
  ASSUME NEW v \in Int
  PROVE  Top(v) \in Int
<1> DEFINE used == {j \in 1..(Words - 1) : Above(a, j) # 0 \/ Above(b, j) # 0}
           T == used \cup {1}
<1>1. Words \in Nat /\ Words > 0  BY BezoutAssumption
<1>2. T \in SUBSET (1..Words) /\ T # {}  BY <1>1
<1> HIDE DEF T
<1>3. Max(T) \in T  BY <1>1, <1>2, MaxIsThere
<1>4. Max(T) - 1 \in 0..Words
  <2> DEFINE m == Max(T)
  <2>1. m \in 1..Words  BY <1>2, <1>3
  <2> HIDE DEF m
  <2>2. m - 1 \in 0..Words  BY <1>1, <2>1
  <2> QED BY <2>2 DEF m
<1>5. Top(v) = Above(v, Max(T) - 1)  BY DEF Top, T
<1> QED BY <1>4, <1>5, AboveType

(* The factors make multiples of a word of the operands, and their sizes   *)
(* add up to a word at most.                                               *)
LEMMA FactorsExact ==
  ASSUME a \in Int, b \in Int
  PROVE  /\ Factors \in Inner
         /\ Abs(Factors.pa) + Abs(Factors.pb) <= Word
         /\ Abs(Factors.qa) + Abs(Factors.qb) <= Word
         /\ Divides(Word, a * Factors.pa + b * Factors.pb)
         /\ Divides(Word, a * Factors.qa + b * Factors.qb)
         /\ Factors.pa * Factors.qb - Factors.pb * Factors.qa = Word
<1> DEFINE s0 == Mk(a % 2^W, b % 2^W, Top(a), Top(b), 1, 0, 0, 1)
           Def(w) == w = [i \in 0..W |-> IF i = 0 THEN s0 ELSE Step(w[i - 1], i - 1)]
           v == CHOOSE w : Def(w)
<1>1. W \in Nat /\ Word \in Nat /\ Word > 0 /\ Word \in Int  BY WordFacts
<1>2. a % Word \in Int /\ b % Word \in Int
      /\ Divides(Word, a - (a % Word)) /\ Divides(Word, b - (b % Word))
  <2>1. a % Word \in 0..(Word - 1) /\ b % Word \in 0..(Word - 1)
        /\ Divides(Word, a - (a % Word)) /\ Divides(Word, b - (b % Word))
    BY <1>1, ModIs
  <2>2. \A z \in 0..(Word - 1) : z \in Int  OBVIOUS
  <2> QED BY <2>1, <2>2, Zenon
<1>3. /\ s0.alo = a % Word /\ s0.blo = b % Word
      /\ s0.pa = 1 /\ s0.pb = 0 /\ s0.qa = 0 /\ s0.qb = 1 /\ s0 \in Inner
  <2>1. Top(a) \in Int /\ Top(b) \in Int  BY TopType
  <2> HIDE DEF Word
  <2>2. 2^W = Word  BY DEF Word
  <2> QED BY <1>2, <2>1, <2>2 DEF Mk, Inner
<1>4. Rows(s0, 0, a, b)
  <2>1. 2^0 = 1 /\ 1 * 1 - 0 * 0 = 1  BY SMT
  <2>2. \A z \in Int : z = 1 * z  OBVIOUS
  <2>3. Divides(1, a % Word) /\ Divides(1, b % Word)  BY <1>2, <2>2 DEF Divides
  <2> DEFINE r == a % Word
             t == b % Word
  <2>4. a * 1 + b * 0 - r = a - r /\ a * 0 + b * 1 - t = b - t
    <3>1. r \in Int /\ t \in Int  BY <1>2
    <3> HIDE DEF r, t
    <3> QED BY <3>1
  <2>5. Abs(1) + Abs(0) <= 1 /\ Abs(0) + Abs(1) <= 1  BY DEF Abs
  <2>6. Row(r, 1, 0, 0, a, b) /\ Row(t, 0, 1, 0, a, b)
    <3>1. r \in Int /\ t \in Int /\ 1 \in Int /\ 0 \in Int /\ Divides(1, r) /\ Divides(1, t)
          /\ Divides(Word, a - r) /\ Divides(Word, b - t)
      BY <1>2, <2>3
    <3> HIDE DEF r, t
    <3>2. Divides(Word, a * 1 + b * 0 - r) /\ Divides(Word, a * 0 + b * 1 - t)
      BY <2>4, <3>1
    <3> QED BY <2>1, <2>5, <3>1, <3>2 DEF Row
  <2> HIDE DEF s0
  <2> QED BY <1>3, <2>1, <2>6 DEF Rows
<1>5. Factors = v[W]  BY Zenon DEF Factors, Mk
<1> HIDE DEF s0
<1>6. \E w : Def(w)
  <2> DEFINE R == {r \in (1..W) \X Inner \X Inner : r[3] = Step(r[2], r[1] - 1)}
  <2>1. Total(W, Inner, R)
    <3>1. ASSUME NEW i \in 1..W, NEW s \in Inner PROVE \E t \in Inner : <<i, s, t>> \in R
      <4>1. i - 1 \in 0..(W - 1)  BY <1>1
      <4>2. Step(s, i - 1) \in Inner  BY <4>1, StepType
      <4> QED BY <4>2
    <3> QED BY <3>1 DEF Total
  <2>2. PICK w \in Runs(W, Inner) : w[0] = s0 /\ Steps(w, W, R)
    <3> HIDE DEF R
    <3> QED BY <1>1, <1>3, <2>1, Chain, Zenon
  <2>3. \A i \in 1..W : w[i] = Step(w[i - 1], i - 1)  BY <2>2 DEF Steps
  <2>4. \A i \in 0..W : w[i] = IF i = 0 THEN s0 ELSE Step(w[i - 1], i - 1)
    BY <1>1, <2>2, <2>3
  <2>5. Def(w)  BY <2>4 DEF Runs
  <2> QED BY <2>5
<1>7. Def(v)
  <2> HIDE DEF Def
  <2> QED BY <1>6
<1> HIDE DEF v
<1>8. v[0] = s0 /\ \A i \in 1..W : v[i] = Step(v[i - 1], i - 1)
  <2>1. \A i \in 0..W : v[i] = IF i = 0 THEN s0 ELSE Step(v[i - 1], i - 1)  BY <1>7
  <2> QED BY <1>1, <2>1
<1> HIDE DEF Def
<1> DEFINE P == {i \in 0..W : Rows(v[i], i, a, b)}
<1>9. 0 \in P  BY <1>1, <1>4, <1>8
<1>10. ASSUME NEW i \in 0..(W - 1), i \in P PROVE i + 1 \in P
  <2>1. i + 1 \in 1..W /\ i + 1 \in 0..W /\ (i + 1) - 1 = i  BY <1>1
  <2>2. v[i + 1] = Step(v[i], i)  BY <1>8, <2>1
  <2>3. Rows(v[i], i, a, b)  BY <1>10
  <2>4. Rows(Step(v[i], i), i + 1, a, b)  BY <2>3, StepRows
  <2> QED BY <2>1, <2>2, <2>4
<1>11. W \in P
  <2>1. \A i \in 0..W : i \in P
    <3> HIDE DEF P
    <3> QED BY <1>1, <1>9, <1>10, UpTo
  <2>2. W \in 0..W  BY <1>1
  <2> QED BY <2>1, <2>2
<1>12. Rows(Factors, W, a, b)  BY <1>5, <1>11
<1>13. ASSUME NEW l, NEW p, NEW q, Row(l, p, q, W, a, b)
       PROVE  Abs(p) + Abs(q) <= Word /\ Divides(Word, a * p + b * q)
  <2>1. /\ l \in Int /\ p \in Int /\ q \in Int /\ Divides(Word, l)
        /\ Divides(Word, a * p + b * q - l) /\ Abs(p) + Abs(q) <= Word
    BY <1>13 DEF Row, Word
  <2> DEFINE e == a * p + b * q
  <2>2. e \in Int  BY <2>1, SMT
  <2>3. Divides(Word, e - l)  BY <2>1
  <2> HIDE DEF e
  <2>4. e - l \in Int /\ (e - l) + l = e  BY <2>1, <2>2
  <2>5. Divides(Word, (e - l) + l)  BY <1>1, <2>1, <2>3, <2>4, DividesSum
  <2>6. Divides(Word, e)  BY <2>4, <2>5
  <2> QED BY <2>1, <2>6 DEF e
<1>14. Factors.pa * Factors.qb - Factors.pb * Factors.qa = Word  BY <1>12 DEF Rows, Word
<1> QED BY <1>12, <1>13, <1>14 DEF Rows

(***************************************************************************)
(* zint_co_reduce divides exactly, and its results fit in their words.     *)
(***************************************************************************)
LEMMA CoReduceExact ==
  ASSUME a \in 0..(Full - 1), b \in 0..(Full - 1), NEW p \in Int, NEW q \in Int,
         Abs(p) + Abs(q) <= Word, Divides(Word, a * p + b * q)
  PROVE  LET r == CoReduce(p, q)
             s == IF r.neg THEN -1 ELSE 1
         IN  r.val \in 0..(Full - 1) /\ Word * r.val = s * (a * p + b * q)
<1> DEFINE e == a * p + b * q
           t == e \div Word
           m == Full - 1
           w == Word
           n == IF t < 0 THEN -t ELSE t
<1>1. w \in Nat /\ w > 0 /\ w \in Int  BY WordFacts
<1>2. m \in Int /\ m >= 0 /\ a \in 0..m /\ b \in 0..m  BY FullInt
<1>3. e \in Int /\ m * w \in Int /\ e <= m * w /\ -(m * w) <= e
  <2> HIDE DEF m
  <2> QED BY <1>1, <1>2, SumBound DEF w
<1>4. Divides(w, e)  OBVIOUS
<1>5. CoReduce(p, q).val = n % Full /\ (CoReduce(p, q).neg <=> t < 0)
  <2>1. CoReduce(p, q) = [neg |-> t < 0, val |-> n % Full]  BY DEF CoReduce, Word
  <2>2. CoReduce(p, q).val = n % Full  BY <2>1
  <2> DEFINE l == t < 0
             z == n % Full
  <2>3. CoReduce(p, q) = [neg |-> l, val |-> z]  BY <2>1
  <2>4. l \in BOOLEAN  OBVIOUS
  <2> HIDE DEF l, z
  <2>5. CoReduce(p, q).neg = l  BY <2>3
  <2>6. CoReduce(p, q).neg <=> l  BY <2>4, <2>5, Zenon
  <2> QED BY <2>2, <2>6 DEF l
<1> HIDE DEF e, w, m
<1>6. t \in Int /\ e = w * t
  <2>1. e \div w \in Int /\ e = w * (e \div w) + (e % w) /\ e % w = 0
    BY <1>1, <1>3, <1>4, ModIs, ModZero
  <2> DEFINE o == e \div w
             wo == w * o
  <2>2. o \in Int /\ wo \in Int  BY <1>1, <2>1, SMT
  <2>3. e = wo + 0  BY <2>1
  <2> HIDE DEF wo
  <2>4. e = wo  BY <2>2, <2>3
  <2> QED BY <2>2, <2>4 DEF wo, o, w
<1> HIDE DEF t
<1>7. t <= m /\ -m <= t
  <2>1. CASE t > m
    <3>1. w * (t - m) > 0 /\ w * (t - m) = w * t - m * w  BY <1>1, <1>2, <1>6, <2>1, SMT
    <3> DEFINE o == m * w
               r == w * t
               z == w * (t - m)
    <3> HIDE DEF o, r, z
    <3>2. z > 0 /\ z = r - o /\ r <= o /\ r \in Int /\ o \in Int
      BY <1>3, <1>6, <3>1 DEF o, r, z
    <3> QED BY <3>2
  <2>2. CASE t < -m
    <3>1. w * (-m - t) > 0 /\ w * (-m - t) = -(m * w) - w * t  BY <1>1, <1>2, <1>6, <2>2, SMT
    <3> DEFINE o == m * w
               r == w * t
               z == w * (-m - t)
    <3> HIDE DEF o, r, z
    <3>2. z > 0 /\ z = -o - r /\ -o <= r /\ r \in Int /\ o \in Int
      BY <1>3, <1>6, <3>1 DEF o, r, z
    <3> QED BY <3>2
  <2> QED BY <1>2, <1>6, <2>1, <2>2
<1>8. n \in 0..m  BY <1>2, <1>6, <1>7
<1>9. n % Full = n
  <2>1. Full \in Nat /\ n \in 0..(Full - 1)
    <3> HIDE DEF n
    <3>1. m = Full - 1 /\ m >= 0 /\ Full \in Int  BY <1>2, FullInt DEF m
    <3> QED BY <1>8, <3>1
  <2> HIDE DEF n
  <2> QED BY <2>1, ModSmall
<1>10. CASE t < 0
  <2>1. CoReduce(p, q).neg /\ CoReduce(p, q).val = n /\ n = -t
    <3>1. CoReduce(p, q).neg  BY <1>5, <1>10, Zenon
    <3>2. CoReduce(p, q).val = n /\ n = -t  BY <1>5, <1>9, <1>10
    <3> QED BY <3>1, <3>2, Zenon
  <2>2. w * (-t) = -(w * t)  BY <1>1, <1>6, SMT
  <2>3. w * n = (-1) * e
    <3> HIDE DEF n
    <3>1. w * n = -e  BY <1>6, <2>1, <2>2
    <3> QED BY <1>3, <3>1
  <2> HIDE DEF n
  <2> QED BY <1>8, <2>1, <2>3, Zenon DEF m, w, e
<1>11. CASE ~(t < 0)
  <2>1. ~CoReduce(p, q).neg /\ CoReduce(p, q).val = n /\ n = t
    <3>1. ~CoReduce(p, q).neg  BY <1>5, <1>11, Zenon
    <3>2. CoReduce(p, q).val = n /\ n = t  BY <1>5, <1>9, <1>11
    <3> QED BY <3>1, <3>2, Zenon
  <2>2. w * n = 1 * e
    <3> HIDE DEF n
    <3>1. w * n = e  BY <1>6, <2>1
    <3> QED BY <1>3, <3>1
  <2> HIDE DEF n
  <2> QED BY <1>8, <2>1, <2>2, Zenon DEF m, w, e
<1> QED BY <1>10, <1>11

(* A power of two can be divided out modulo an odd number. *)
LEMMA WordCancels ==
  ASSUME NEW m \in Int, m % 2 = 1, NEW z \in Int, Divides(m, Word * z)
  PROVE  Divides(m, z)
<1> DEFINE n == Ninv(m)
           w == Word
<1>1. w \in Nat /\ w \in Int  BY WordFacts
<1>2. n \in 0..(w - 1) /\ Divides(w, m * n + 1)  BY NinvExact
<1> HIDE DEF n, w
<1>3. n \in Int  BY <1>1, <1>2
<1>4. PICK h \in Int : m * n + 1 = w * h  BY <1>2 DEF Divides
<1>5. PICK j \in Int : w * z = m * j
  <2>1. Divides(m, w * z)  BY DEF w
  <2> QED BY <2>1 DEF Divides
<1>6. z = m * (h * j - n * z)
  <2>1. (w * h) * z = h * (w * z) /\ (m * n + 1) * z = m * (n * z) + z
        /\ h * (m * j) = m * (h * j) /\ m * (h * j - n * z) = m * (h * j) - m * (n * z)
    BY <1>1, <1>3, SMT
  <2> DEFINE o == m * (n * z)
             r == m * (h * j)
  <2>2. o \in Int /\ r \in Int  BY <1>3, SMT
  <2>3. (w * h) * z = o + z  BY <1>4, <2>1
  <2>4. h * (w * z) = r  BY <1>5, <2>1
  <2>5. r = o + z  BY <2>1, <2>3, <2>4
  <2>6. m * (h * j - n * z) = r - o  BY <2>1
  <2> HIDE DEF o, r
  <2>7. z = r - o  BY <2>2, <2>5
  <2> QED BY <2>6, <2>7
<1>7. h * j - n * z \in Int  BY <1>3, SMT
<1> QED BY <1>6, <1>7 DEF Divides

LEMMA OddProduct ==
  ASSUME NEW m \in Int, NEW n \in Int, m % 2 = 1, n % 2 = 1
  PROVE  m * n \in Int /\ (m * n) % 2 = 1
<1>1. PICK i \in Int : m = 2 * i + 1  BY SMT
<1>2. PICK j \in Int : n = 2 * j + 1  BY SMT
<1> DEFINE h == 2 * i * j + i + j
<1>3. m * n = 2 * h + 1 /\ h \in Int  BY <1>1, <1>2, SMT
<1> HIDE DEF h
<1> QED BY <1>3, SMT

(* The congruence of a coefficient pair c, d with an integer e, and that   *)
(* of what a turn makes of two of them.                                    *)
Follows(m, n, c, d, e) == Divides(m * n, m * c - n * d - e)

LEMMA TurnFollows ==
  ASSUME NEW m \in Int, NEW n \in Int, m % 2 = 1, n % 2 = 1,
         NEW c0 \in Int, NEW d0 \in Int, NEW e0 \in Int, Follows(m, n, c0, d0, e0),
         NEW c1 \in Int, NEW d1 \in Int, NEW e1 \in Int, Follows(m, n, c1, d1, e1),
         NEW p \in Int, NEW q \in Int, NEW k \in Int, NEW l \in Int,
         NEW c \in Int, Word * c = c0 * p + c1 * q + n * k,
         NEW d \in Int, Word * d = d0 * p + d1 * q + m * l,
         NEW e \in Int, Word * e = e0 * p + e1 * q
  PROVE  Follows(m, n, c, d, e)
<1> DEFINE z0 == m * c0 - n * d0 - e0
           z1 == m * c1 - n * d1 - e1
           z  == m * c - n * d - e
           mn == m * n
           w  == Word
           t  == k - l
<1>1. z0 \in Int /\ z1 \in Int /\ z \in Int /\ mn \in Int /\ mn % 2 = 1 /\ w \in Int /\ t \in Int
  BY OddProduct, WordFacts, SMT
<1>2. w * z = p * z0 + q * z1 + mn * t
  <2> DEFINE wc == w * c
             wd == w * d
             we == w * e
  <2>1. w * z = m * wc - n * wd - we
    <3> HIDE DEF w
    <3> QED BY <1>1, SMT
  <2>2. wc = c0 * p + c1 * q + n * k /\ wd = d0 * p + d1 * q + m * l /\ we = e0 * p + e1 * q
    OBVIOUS
  <2> HIDE DEF wc, wd, we
  <2>3. w * z = m * (c0 * p + c1 * q + n * k) - n * (d0 * p + d1 * q + m * l) - (e0 * p + e1 * q)
    BY <2>1, <2>2
  <2>4. m * (c0 * p + c1 * q + n * k) - n * (d0 * p + d1 * q + m * l) - (e0 * p + e1 * q)
          = p * z0 + q * z1 + mn * t
    BY SMT
  <2> QED BY <2>3, <2>4
<1>3. Divides(mn, z0) /\ Divides(mn, z1)  BY DEF Follows
<1> HIDE DEF z0, z1, z, mn, w, t
<1>4. Divides(mn, p * z0) /\ Divides(mn, q * z1) /\ Divides(mn, mn * t)
  BY <1>1, <1>3, DividesTimes, DividesMultiple
<1>5. p * z0 \in Int /\ q * z1 \in Int /\ mn * t \in Int  BY <1>1, SMT
<1> DEFINE r0 == p * z0
           r1 == q * z1
           r2 == mn * t
<1>6. Divides(mn, (r0 + r1) + r2)
  <2>1. r0 \in Int /\ r1 \in Int /\ r2 \in Int
        /\ Divides(mn, r0) /\ Divides(mn, r1) /\ Divides(mn, r2)
    BY <1>4, <1>5
  <2> HIDE DEF r0, r1, r2
  <2>2. Divides(mn, r0 + r1)  BY <1>1, <2>1, DividesSum
  <2>3. r0 + r1 \in Int  BY <2>1
  <2> QED BY <1>1, <2>1, <2>2, <2>3, DividesSum
<1>7. Divides(mn, w * z)  BY <1>2, <1>6
<1>8. Divides(mn, z)  BY <1>1, <1>7, WordCancels DEF w
<1> QED BY <1>8 DEF Follows, z, mn

(* No common divisor of the second pair is lost to the first.              *)
CommonDivide(c, d, m, n) ==
  \A k \in Nat : Divides(k, c) /\ Divides(k, d) => Divides(k, m) /\ Divides(k, n)

LEMMA Combination ==
  ASSUME NEW k \in Nat, NEW c \in Int, NEW d \in Int, NEW p \in Int, NEW q \in Int,
         Divides(k, c), Divides(k, d)
  PROVE  Divides(k, p * c + q * d)
<1>1. PICK i \in Int : c = k * i  BY DEF Divides
<1>2. PICK j \in Int : d = k * j  BY DEF Divides
<1>3. p * c + q * d = k * (p * i + q * j)
  <2>1. p * (k * i) + q * (k * j) = k * (p * i + q * j)  BY SMT
  <2> QED BY <1>1, <1>2, <2>1
<1>4. p * i + q * j \in Int  BY SMT
<1> QED BY <1>3, <1>4 DEF Divides

(* The turn can be undone: what was is a combination of what has become.   *)
LEMMA TurnUndone ==
  ASSUME NEW c \in Int, NEW d \in Int, NEW p \in Int, NEW q \in Int, NEW r \in Int, NEW t \in Int,
         p * t - q * r = Word,
         NEW c1 \in Int, NEW d1 \in Int, NEW s1 \in {1, -1}, NEW s2 \in {1, -1},
         Word * c1 = s1 * (c * p + d * q), Word * d1 = s2 * (c * r + d * t)
  PROVE  CommonDivide(c1, d1, c, d)
<1> DEFINE w == Word
           e0 == c * p + d * q
           e1 == c * r + d * t
<1>1. w \in Int /\ w > 0  BY WordFacts
<1>2. e0 \in Int /\ e1 \in Int  BY SMT
<1>3. s1 * (w * c1) = e0 /\ s2 * (w * d1) = e1
  <2>1. w * c1 = s1 * e0 /\ w * d1 = s2 * e1  OBVIOUS
  <2> DEFINE wc == w * c1
             wd == w * d1
  <2>2. wc = s1 * e0 /\ wd = s2 * e1  BY <2>1
  <2> HIDE DEF wc, wd, e0, e1
  <2>3. s1 * wc = e0 /\ s2 * wd = e1
    <3>1. s1 * wc = e0
      <4>1. CASE s1 = 1  BY <1>2, <2>2, <4>1
      <4>2. CASE s1 = -1  BY <1>2, <2>2, <4>2
      <4> QED BY <4>1, <4>2
    <3>2. s2 * wd = e1
      <4>1. CASE s2 = 1  BY <1>2, <2>2, <4>1
      <4>2. CASE s2 = -1  BY <1>2, <2>2, <4>2
      <4> QED BY <4>1, <4>2
    <3> QED BY <3>1, <3>2
  <2> QED BY <2>3 DEF wc, wd
<1>4. w * c = t * e0 - q * e1 /\ w * d = p * e1 - r * e0
  <2>1. (p * t - q * r) * c = t * (c * p + d * q) - q * (c * r + d * t)
        /\ (p * t - q * r) * d = p * (c * r + d * t) - r * (c * p + d * q)
    BY SMT
  <2> QED BY <2>1
<1> HIDE DEF w, e0, e1
<1>5. s1 \in Int /\ s2 \in Int  OBVIOUS
<1>6. w * c = w * ((t * s1) * c1 + (-(q * s2)) * d1)
  <2>1. t * (s1 * (w * c1)) - q * (s2 * (w * d1)) = w * ((t * s1) * c1 + (-(q * s2)) * d1)
    BY <1>1, <1>5, SMT
  <2> QED BY <1>3, <1>4, <2>1
<1>7. w * d = w * ((-(r * s1)) * c1 + (p * s2) * d1)
  <2>1. p * (s2 * (w * d1)) - r * (s1 * (w * c1)) = w * ((-(r * s1)) * c1 + (p * s2) * d1)
    BY <1>1, <1>5, SMT
  <2> QED BY <1>3, <1>4, <2>1
<1>8. PICK k1 \in Int, k2 \in Int, k3 \in Int, k4 \in Int :
        k1 = t * s1 /\ k2 = -(q * s2) /\ k3 = -(r * s1) /\ k4 = p * s2
  BY <1>5, SMT
<1>9. ASSUME NEW m \in Int, NEW n \in Int, w * m = w * n PROVE m = n
  <2>1. w * (m - n) = w * m - w * n  BY <1>1, SMT
  <2>2. w * (m - n) = 0  BY <1>1, <1>9, <2>1
  <2>3. m - n = 0  BY <1>1, <2>2, SMT
  <2> QED BY <2>3
<1>10. c = k1 * c1 + k2 * d1
  <2>1. w * c = w * (k1 * c1 + k2 * d1)  BY <1>6, <1>8
  <2>2. k1 * c1 + k2 * d1 \in Int  BY SMT
  <2> QED BY <1>9, <2>1, <2>2, Zenon
<1>11. d = k3 * c1 + k4 * d1
  <2>1. w * d = w * (k3 * c1 + k4 * d1)  BY <1>7, <1>8
  <2>2. k3 * c1 + k4 * d1 \in Int  BY SMT
  <2> QED BY <1>9, <2>1, <2>2, Zenon
<1>12. ASSUME NEW k \in Nat, Divides(k, c1), Divides(k, d1)
       PROVE  Divides(k, c) /\ Divides(k, d)
  BY <1>10, <1>11, <1>12, Combination
<1> QED BY <1>12 DEF CommonDivide

(***************************************************************************)
(* What zint_bezout keeps.                                                 *)
(***************************************************************************)
BezoutInv ==
  /\ x \in Nat /\ x > 0 /\ x % 2 = 1 /\ x < Full
  /\ y \in Nat /\ y > 0 /\ y % 2 = 1 /\ y < Full
  /\ BezoutTypeOK
  /\ Follows(x, y, u0, v0, a) /\ Follows(x, y, u1, v1, b)
  /\ CommonDivide(a, b, x, y)
  /\ (ret = 1 => a = 1) /\ (ret = 0 => a # 1)

LEMMA NumRoom ==
  /\ 2 * W * Words + W - 1 \in Nat /\ W - 1 \in Nat /\ W - 1 > 0
  /\ 2 * W * Words + W - 1 >= W - 1
<1> DEFINE n == 2 * W * Words
<1>1. W \in 2..31 /\ n \in Nat  BY BezoutAssumption, SMT
<1> HIDE DEF n
<1>2. n + W - 1 \in Nat /\ n + W - 1 >= W - 1 /\ W - 1 \in Nat /\ W - 1 > 0  BY <1>1
<1> QED BY <1>2 DEF n

LEMMA FollowsZero ==
  ASSUME NEW m \in Int, NEW n \in Int, NEW c \in Int, NEW d \in Int, NEW e \in Int,
         m * c - n * d - e = 0
  PROVE  Follows(m, n, c, d, e)
<1>1. m * n \in Int  BY SMT
<1>2. 0 = (m * n) * 0
  <2> DEFINE o == m * n
  <2> HIDE DEF o
  <2>1. o \in Int  BY <1>1 DEF o
  <2>2. 0 = o * 0  BY <2>1
  <2> QED BY <2>2 DEF o
<1> QED BY <1>2 DEF Follows, Divides

LEMMA IdleInv ==
  ASSUME Idle
  PROVE  BezoutInv
<1>1. 1 < Full /\ Full \in Int  BY RoomAssumption, FullInt
<1>2. x = 1 /\ y = 1 /\ num = 0 /\ a = 1 /\ b = 0 /\ u0 = 1 /\ v0 = 0 /\ u1 = 1 /\ v1 = 0 /\ ret = -2
  BY DEF Idle
<1>3. BezoutTypeOK
  <2>1. num \in 0..(2 * W * Words + W - 1)  BY <1>2, NumRoom
  <2> QED BY <1>1, <1>2, <2>1 DEF BezoutTypeOK
<1>4. Follows(1, 1, 1, 0, 1) /\ Follows(1, 1, 1, 0, 0)
  <2>1. 1 * 1 - 1 * 0 - 1 = 1 * 1 * 0 /\ 1 * 1 - 1 * 0 - 0 = 1 * 1 * 1  OBVIOUS
  <2> QED BY <2>1 DEF Follows, Divides
<1>5. CommonDivide(1, 0, 1, 1)  BY DEF CommonDivide
<1> QED BY <1>1, <1>2, <1>3, <1>4, <1>5 DEF BezoutInv

LEMMA ForgetInv ==
  ASSUME Forget
  PROVE  BezoutInv'
<1>1. 1 < Full /\ Full \in Int  BY RoomAssumption, FullInt
<1>2. /\ x' = 1 /\ y' = 1 /\ num' = 0 /\ a' = 1 /\ b' = 0
      /\ u0' = 1 /\ v0' = 0 /\ u1' = 1 /\ v1' = 0 /\ ret' = -2
  BY DEF Forget
<1>3. BezoutTypeOK'
  <2>1. num' \in 0..(2 * W * Words + W - 1)  BY <1>2, NumRoom
  <2> QED BY <1>1, <1>2, <2>1 DEF BezoutTypeOK, Full
<1>4. Follows(1, 1, 1, 0, 1) /\ Follows(1, 1, 1, 0, 0)
  <2>1. 1 * 1 - 1 * 0 - 1 = 1 * 1 * 0 /\ 1 * 1 - 1 * 0 - 0 = 1 * 1 * 1  OBVIOUS
  <2> QED BY <2>1 DEF Follows, Divides
<1>5. Follows(x', y', u0', v0', a') /\ Follows(x', y', u1', v1', b')
  BY <1>2, <1>4
<1>6. CommonDivide(a', b', x', y')  BY <1>2 DEF CommonDivide
<1> QED BY <1>1, <1>2, <1>3, <1>5, <1>6 DEF BezoutInv, Full

LEMMA CallInv ==
  ASSUME NEW m \in Nat, m > 0, m % 2 = 1, m < Full,
         NEW n \in Nat, n > 0, n % 2 = 1, n < Full, Call(m, n)
  PROVE  BezoutInv'
<1>1. Full \in Int  BY FullInt
<1>2. /\ x' = m /\ y' = n /\ num' = 2 * W * Words + W - 1 /\ a' = m /\ b' = n
      /\ u0' = 1 /\ v0' = 0 /\ u1' = n /\ v1' = m - 1 /\ ret' = -1
  BY DEF Call
<1>3. BezoutTypeOK'
  <2>1. num' \in 0..(2 * W * Words + W - 1)
    <3> DEFINE o == 2 * W * Words + W - 1
    <3>1. o \in Nat /\ num' = o  BY <1>2, NumRoom
    <3> HIDE DEF o
    <3>2. num' \in 0..o  BY <3>1
    <3> QED BY <3>2 DEF o
  <2> QED BY <1>1, <1>2, <2>1 DEF BezoutTypeOK, Full
<1>4. Follows(m, n, 1, 0, m)
  <2>1. m * 1 - n * 0 - m = 0  BY SMT
  <2>2. m \in Int /\ n \in Int /\ 1 \in Int /\ 0 \in Int  OBVIOUS
  <2> QED BY <2>1, <2>2, FollowsZero
<1>5. Follows(m, n, n, m - 1, n)
  <2>1. m * n - n * (m - 1) - n = 0
    <3>1. n * (m - 1) = m * n - n /\ m * n \in Int  BY SMT
    <3> DEFINE o == m * n
               r == n * (m - 1)
    <3> HIDE DEF o, r
    <3>2. r = o - n /\ o \in Int  BY <3>1 DEF o, r
    <3>3. o - r - n = 0  BY <3>2
    <3> QED BY <3>3 DEF o, r
  <2>2. m \in Int /\ n \in Int /\ m - 1 \in Int  OBVIOUS
  <2> QED BY <2>1, <2>2, FollowsZero
<1>6. Follows(x', y', u0', v0', a') /\ Follows(x', y', u1', v1', b')
  BY <1>2, <1>4, <1>5
<1>7. CommonDivide(a', b', x', y')  BY <1>2 DEF CommonDivide
<1> QED BY <1>1, <1>2, <1>3, <1>6, <1>7 DEF BezoutInv, Full

(* What a turn makes of one of the two integers and of its coefficients.   *)
LEMMA TurnExact ==
  ASSUME BezoutInv, NEW p \in Int, NEW q \in Int, Abs(p) + Abs(q) <= Word,
         Divides(Word, a * p + b * q)
  PROVE  LET r == CoReduce(p, q)
             s == IF r.neg THEN -1 ELSE 1
             c == CoReduceMod(u0, u1, y, s * p, s * q)
             d == CoReduceMod(v0, v1, x, s * p, s * q)
         IN  /\ r.val \in 0..(Full - 1) /\ c \in 0..(y - 1) /\ d \in 0..(x - 1)
             /\ Follows(x, y, c, d, r.val)
<1> DEFINE r == CoReduce(p, q)
           s == IF r.neg THEN -1 ELSE 1
           P == s * p
           R == s * q
           c == CoReduceMod(u0, u1, y, P, R)
           d == CoReduceMod(v0, v1, x, P, R)
           e == r.val
<1>1. /\ x \in Int /\ x > 0 /\ x % 2 = 1 /\ x < Full
      /\ y \in Int /\ y > 0 /\ y % 2 = 1 /\ y < Full
      /\ a \in 0..(Full - 1) /\ b \in 0..(Full - 1)
      /\ u0 \in 0..y /\ u1 \in 0..y /\ v0 \in 0..x /\ v1 \in 0..x
      /\ Follows(x, y, u0, v0, a) /\ Follows(x, y, u1, v1, b)
  BY DEF BezoutInv, BezoutTypeOK
<1>2. a \in Int /\ b \in Int /\ u0 \in Int /\ u1 \in Int /\ v0 \in Int /\ v1 \in Int
  BY <1>1
<1>3. e \in 0..(Full - 1) /\ Word * e = s * (a * p + b * q)
  BY <1>1, CoReduceExact
<1>4. s = 1 \/ s = -1
  <2> HIDE DEF r
  <2> QED OBVIOUS
<1> HIDE DEF r, s
<1>5. P \in Int /\ R \in Int /\ Abs(P) + Abs(R) <= Word
  <2>1. CASE s = 1
    <3>1. P = p /\ R = q  BY <2>1
    <3> QED BY <3>1
  <2>2. CASE s = -1
    <3>1. P = -p /\ R = -q  BY <2>2
    <3>2. Abs(-p) = Abs(p) /\ Abs(-q) = Abs(q)  BY SMT DEF Abs
    <3> QED BY <3>1, <3>2
  <2> QED BY <1>4, <2>1, <2>2
<1>6. Word * e = a * P + b * R
  <2>1. s * (a * p + b * q) = a * (s * p) + b * (s * q)
    <3>1. s \in Int  BY <1>4
    <3> QED BY <1>2, <3>1, SMT
  <2> QED BY <1>3, <2>1
<1> HIDE DEF P, R
<1>7. c \in 0..(y - 1) /\ \E k \in Int : Word * c = u0 * P + u1 * R + y * k
  <2> DEFINE o == CoReduceMod(u0, u1, y, P, R)
  <2>1. y \in Int /\ y > 0 /\ y % 2 = 1 /\ y < Full /\ u0 \in 0..y /\ u1 \in 0..y
    BY <1>1
  <2>2. o \in 0..(y - 1)
    BY <1>5, <2>1, CoReduceModExact, ZenonT(30)
  <2>3. \E j \in Int : Word * o = u0 * P + u1 * R + y * j
    BY <1>5, <2>1, CoReduceModExact, ZenonT(40)
  <2> QED BY <2>2, <2>3
<1>8. d \in 0..(x - 1) /\ \E l \in Int : Word * d = v0 * P + v1 * R + x * l
  <2> DEFINE o == CoReduceMod(v0, v1, x, P, R)
  <2>1. x \in Int /\ x > 0 /\ x % 2 = 1 /\ x < Full /\ v0 \in 0..x /\ v1 \in 0..x
    BY <1>1
  <2>2. o \in 0..(x - 1)
    BY <1>5, <2>1, CoReduceModExact, ZenonT(30)
  <2>3. \E j \in Int : Word * o = v0 * P + v1 * R + x * j
    BY <1>5, <2>1, CoReduceModExact, ZenonT(40)
  <2> QED BY <2>2, <2>3
<1>9. PICK k \in Int : Word * c = u0 * P + u1 * R + y * k  BY <1>7
<1>10. PICK l \in Int : Word * d = v0 * P + v1 * R + x * l  BY <1>8
<1>11. e \in Int /\ c \in Int /\ d \in Int
  <2> HIDE DEF c, d, e
  <2> QED BY <1>1, <1>3, <1>7, <1>8, FullInt
<1> HIDE DEF c, d, e
<1>12. Follows(x, y, c, d, e)
  BY <1>1, <1>2, <1>5, <1>6, <1>9, <1>10, <1>11, TurnFollows
<1> QED BY <1>3, <1>7, <1>8, <1>12 DEF c, d, e, P, R, s, r

LEMMA ReduceInv ==
  ASSUME BezoutInv, Reduce
  PROVE  BezoutInv'
<1> DEFINE s  == Factors
           ra == CoReduce(s.pa, s.pb)
           rb == CoReduce(s.qa, s.qb)
           sa == IF ra.neg THEN -1 ELSE 1
           sb == IF rb.neg THEN -1 ELSE 1
<1>1. /\ a' = ra.val /\ b' = rb.val
      /\ u0' = CoReduceMod(u0, u1, y, sa * s.pa, sa * s.pb)
      /\ u1' = CoReduceMod(u0, u1, y, sb * s.qa, sb * s.qb)
      /\ v0' = CoReduceMod(v0, v1, x, sa * s.pa, sa * s.pb)
      /\ v1' = CoReduceMod(v0, v1, x, sb * s.qa, sb * s.qb)
  BY Zenon DEF Reduce
<1>2. /\ x' = x /\ y' = y /\ ret' = ret /\ ret = -1 /\ num >= W - 1 /\ num' = num - (W - 1)
  BY DEF Reduce
<1>3. a \in Int /\ b \in Int
  <2>1. a \in 0..(Full - 1) /\ b \in 0..(Full - 1)  BY DEF BezoutInv, BezoutTypeOK
  <2> QED BY <2>1, FullInt
<1>4. /\ s.pa \in Int /\ s.pb \in Int /\ s.qa \in Int /\ s.qb \in Int
      /\ Abs(s.pa) + Abs(s.pb) <= Word /\ Abs(s.qa) + Abs(s.qb) <= Word
      /\ Divides(Word, a * s.pa + b * s.pb) /\ Divides(Word, a * s.qa + b * s.qb)
      /\ s.pa * s.qb - s.pb * s.qa = Word
  <2>1. /\ s \in Inner
        /\ Abs(s.pa) + Abs(s.pb) <= Word /\ Abs(s.qa) + Abs(s.qb) <= Word
        /\ Divides(Word, a * s.pa + b * s.pb) /\ Divides(Word, a * s.qa + b * s.qb)
        /\ s.pa * s.qb - s.pb * s.qa = Word
    BY <1>3, FactorsExact
  <2> HIDE DEF s
  <2>2. s.pa \in Int /\ s.pb \in Int /\ s.qa \in Int /\ s.qb \in Int  BY <2>1 DEF Inner
  <2> QED BY <2>1, <2>2
<1> HIDE DEF s
<1>5. /\ a' \in 0..(Full - 1) /\ u0' \in 0..(y - 1) /\ v0' \in 0..(x - 1)
      /\ Follows(x, y, u0', v0', a')
  <2> DEFINE c == CoReduceMod(u0, u1, y, sa * s.pa, sa * s.pb)
             d == CoReduceMod(v0, v1, x, sa * s.pa, sa * s.pb)
  <2>1. /\ ra.val \in 0..(Full - 1) /\ c \in 0..(y - 1) /\ d \in 0..(x - 1)
        /\ Follows(x, y, c, d, ra.val)
    BY <1>4, TurnExact, Zenon
  <2>2. a' = ra.val /\ u0' = c /\ v0' = d  BY <1>1, Zenon
  <2> HIDE DEF c, d, ra
  <2> QED BY <2>1, <2>2
<1>6. /\ b' \in 0..(Full - 1) /\ u1' \in 0..(y - 1) /\ v1' \in 0..(x - 1)
      /\ Follows(x, y, u1', v1', b')
  <2> DEFINE c == CoReduceMod(u0, u1, y, sb * s.qa, sb * s.qb)
             d == CoReduceMod(v0, v1, x, sb * s.qa, sb * s.qb)
  <2>1. /\ rb.val \in 0..(Full - 1) /\ c \in 0..(y - 1) /\ d \in 0..(x - 1)
        /\ Follows(x, y, c, d, rb.val)
    BY <1>4, TurnExact, Zenon
  <2>2. b' = rb.val /\ u1' = c /\ v1' = d  BY <1>1, Zenon
  <2> HIDE DEF c, d, rb
  <2> QED BY <2>1, <2>2
<1>7. num' \in 0..(2 * W * Words + W - 1)
  <2> DEFINE n == 2 * W * Words + W - 1
  <2>1. n \in Nat /\ W - 1 \in Nat /\ num \in 0..n  BY NumRoom DEF BezoutInv, BezoutTypeOK
  <2> HIDE DEF n
  <2>2. num' \in 0..n  BY <1>2, <2>1
  <2> QED BY <2>2 DEF n
<1>8. /\ x \in Nat /\ x > 0 /\ x % 2 = 1 /\ x < Full
      /\ y \in Nat /\ y > 0 /\ y % 2 = 1 /\ y < Full
  BY DEF BezoutInv
<1>9. CommonDivide(a', b', a, b)
  <2>1. Word * ra.val = sa * (a * s.pa + b * s.pb) /\ Word * rb.val = sb * (a * s.qa + b * s.qb)
    <3>1. a \in 0..(Full - 1) /\ b \in 0..(Full - 1)  BY DEF BezoutInv, BezoutTypeOK
    <3>2. Word * ra.val = sa * (a * s.pa + b * s.pb)  BY <1>4, <3>1, CoReduceExact
    <3>3. Word * rb.val = sb * (a * s.qa + b * s.qb)  BY <1>4, <3>1, CoReduceExact
    <3> QED BY <3>2, <3>3
  <2>2. sa \in {1, -1} /\ sb \in {1, -1}
    <3> HIDE DEF ra, rb
    <3> QED OBVIOUS
  <2> HIDE DEF ra, rb, sa, sb
  <2>3. a' \in Int /\ b' \in Int  BY <1>5, <1>6, FullInt
  <2>4. Word * a' = sa * (a * s.pa + b * s.pb) /\ Word * b' = sb * (a * s.qa + b * s.qb)
    BY <1>1, <2>1
  <2>5. PICK k \in Int, l \in Int, m \in Int, n \in Int :
          k = s.pa /\ l = s.pb /\ m = s.qa /\ n = s.qb
    BY <1>4
  <2>6. k * n - l * m = Word  BY <1>4, <2>5
  <2>7. Word * a' = sa * (a * k + b * l) /\ Word * b' = sb * (a * m + b * n)  BY <2>4, <2>5
  <2> QED BY <1>3, <2>2, <2>3, <2>6, <2>7, TurnUndone
<1> HIDE DEF ra, rb, sa, sb
<1>10. CommonDivide(a', b', x', y')
  <2>1. CommonDivide(a, b, x, y)  BY DEF BezoutInv
  <2> QED BY <1>2, <1>9, <2>1, Zenon DEF CommonDivide
<1>11. BezoutTypeOK'
  <2>1. u0' \in 0..y /\ u1' \in 0..y /\ u0' < y  BY <1>5, <1>6, <1>8
  <2> QED BY <1>2, <1>5, <1>6, <1>7, <2>1 DEF BezoutTypeOK, Full
<1>12. Follows(x', y', u0', v0', a') /\ Follows(x', y', u1', v1', b')
  BY <1>2, <1>5, <1>6
<1>13. /\ x' \in Nat /\ x' > 0 /\ x' % 2 = 1 /\ x' < Full
       /\ y' \in Nat /\ y' > 0 /\ y' % 2 = 1 /\ y' < Full
       /\ ret' # 1 /\ ret' # 0
  BY <1>2, <1>8
<1> QED BY <1>11, <1>12, <1>13, <1>10 DEF BezoutInv, Full

LEMMA SameInv ==
  ASSUME BezoutInv, UNCHANGED <<x, y, num, a, b, u0, v0, u1, v1>>,
         ret' \in {-2, -1, 0, 1}, ret' = 1 => a = 1, ret' = 0 => a # 1
  PROVE  BezoutInv'
<1>1. x' = x /\ y' = y /\ num' = num /\ a' = a /\ b' = b
      /\ u0' = u0 /\ v0' = v0 /\ u1' = u1 /\ v1' = v1
  OBVIOUS
<1>2. BezoutTypeOK'  BY <1>1 DEF BezoutInv, BezoutTypeOK, Full
<1>3. Follows(x', y', u0', v0', a') /\ Follows(x', y', u1', v1', b')
      /\ CommonDivide(a', b', x', y')
  BY <1>1 DEF BezoutInv
<1> QED BY <1>1, <1>2, <1>3 DEF BezoutInv, Full

LEMMA BezoutStep ==
  ASSUME BezoutInv, BezoutNext \/ UNCHANGED bezoutVars
  PROVE  BezoutInv'
<1>1. CASE Reduce  BY <1>1, ReduceInv
<1>2. CASE Return
  <2>1. UNCHANGED <<x, y, num, a, b, u0, v0, u1, v1>> /\ ret' \in {-2, -1, 0, 1}
        /\ (ret' = 1 => a = 1) /\ (ret' = 0 => a # 1)
    BY <1>2 DEF Return, BezoutInv
  <2> QED BY <2>1, SameInv
<1>3. CASE UNCHANGED bezoutVars
  <2>1. UNCHANGED <<x, y, num, a, b, u0, v0, u1, v1>> /\ ret' = ret
    BY <1>3 DEF bezoutVars
  <2>2. ret \in {-2, -1, 0, 1} /\ (ret = 1 => a = 1) /\ (ret = 0 => a # 1)
    BY DEF BezoutInv, BezoutTypeOK
  <2> QED BY <2>1, <2>2, SameInv
<1> QED BY <1>1, <1>2, <1>3 DEF BezoutNext

(* The congruences, as the module states them. *)
LEMMA CongruencesHold ==
  ASSUME BezoutInv
  PROVE  (x * u0 - y * v0 - a) % (x * y) = 0 /\ (x * u1 - y * v1 - b) % (x * y) = 0
<1> DEFINE mn == x * y
<1>1. x \in Nat /\ y \in Nat /\ x > 0 /\ y > 0 /\ a \in Int /\ b \in Int
      /\ u0 \in Int /\ v0 \in Int /\ u1 \in Int /\ v1 \in Int
  BY FullInt DEF BezoutInv, BezoutTypeOK
<1>2. mn \in Nat /\ mn > 0  BY <1>1, SMT
<1> DEFINE z0 == x * u0 - y * v0 - a
           z1 == x * u1 - y * v1 - b
<1>3. z0 \in Int /\ z1 \in Int  BY <1>1, SMT
<1>4. Divides(mn, z0) /\ Divides(mn, z1)  BY DEF BezoutInv, Follows
<1> HIDE DEF mn, z0, z1
<1>5. z0 % mn = 0 /\ z1 % mn = 0  BY <1>2, <1>3, <1>4, ModZero
<1> QED BY <1>5 DEF mn, z0, z1

(* What the coefficients amount to when 1 is returned: 1, or its residue   *)
(* below 0 if y is 1.                                                      *)
LEMMA ReturnedOne ==
  ASSUME BezoutInv, ret = 1
  PROVE  x * u0 - y * v0 = 1 \/ (y = 1 /\ x * u0 - y * v0 = 1 - x)
<1> DEFINE mn == x * y
           xu == x * u0
           yv == y * v0
<1>1. x \in Int /\ x > 0 /\ y \in Int /\ y > 0 /\ a = 1
      /\ u0 \in 0..y /\ v0 \in 0..(x - 1) /\ (y > 1 => u0 < y)
  BY DEF BezoutInv, BezoutTypeOK
<1>2. mn \in Int /\ xu \in Int /\ yv \in Int  BY <1>1, SMT
<1>3. 0 <= xu /\ 0 <= yv /\ yv <= mn - y
  <2>1. x * u0 >= 0 /\ y * v0 >= 0 /\ y * (x - 1 - v0) >= 0  BY <1>1, SMT
  <2>2. y * (x - 1 - v0) = x * y - y - y * v0  BY <1>1, SMT
  <2> DEFINE o == y * (x - 1 - v0)
  <2> HIDE DEF o, mn, xu, yv
  <2>3. o >= 0 /\ o = mn - y - yv /\ xu >= 0 /\ yv >= 0  BY <2>1, <2>2 DEF o, mn, xu, yv
  <2> QED BY <1>1, <1>2, <2>3
<1>4. Divides(mn, xu - yv - 1)  BY <1>1 DEF BezoutInv, Follows
<1>5. CASE y > 1
  <2>1. xu <= mn - x
    <3>1. x * (y - 1 - u0) >= 0 /\ x * (y - 1 - u0) = x * y - x - x * u0  BY <1>1, <1>5, SMT
    <3> DEFINE o == x * (y - 1 - u0)
    <3> HIDE DEF o, mn, xu, yv
    <3>2. o >= 0 /\ o = mn - x - xu  BY <3>1 DEF o, mn, xu
    <3> QED BY <1>1, <1>2, <3>2
  <2> HIDE DEF mn, xu, yv
  <2>2. -mn < xu - yv - 1 /\ xu - yv - 1 < mn /\ mn \in Nat /\ mn > 0 /\ xu - yv - 1 \in Int
    BY <1>1, <1>2, <1>3, <1>5, <2>1
  <2>3. xu - yv - 1 = 0  BY <1>4, <2>2, OnlyMultiple
  <2>4. xu - yv = 1  BY <1>2, <2>3
  <2> QED BY <2>4 DEF xu, yv
<1>6. CASE y = 1
  <2>1. mn = x /\ xu \in 0..x
    <3>1. x * 1 = x /\ x * 0 = 0 /\ (u0 = 0 \/ u0 = 1)  BY <1>1, <1>6
    <3> QED BY <1>1, <1>6, <3>1
  <2> HIDE DEF mn, xu, yv
  <2>2. CASE xu - yv - 1 = -x
    <3>1. xu - yv = 1 - x  BY <1>1, <1>2, <2>2
    <3> QED BY <1>6, <3>1 DEF xu, yv
  <2>3. CASE xu - yv - 1 # -x
    <3>1. -mn < xu - yv - 1 /\ xu - yv - 1 < mn /\ mn \in Nat /\ mn > 0 /\ xu - yv - 1 \in Int
      BY <1>1, <1>2, <1>3, <1>6, <2>1, <2>3
    <3>2. xu - yv - 1 = 0  BY <1>4, <3>1, OnlyMultiple
    <3>3. xu - yv = 1  BY <1>2, <3>2
    <3> QED BY <3>3 DEF xu, yv
  <2> QED BY <2>2, <2>3
<1>7. y > 1 \/ y = 1  BY <1>1
<1> QED BY <1>5, <1>6, <1>7

(***************************************************************************)
(* The seed.                                                               *)
(***************************************************************************)
SeedInv ==
  /\ source \in {"getentropy", "open", "read", "seeded", "none"}
  /\ at \in 0..SeedLen /\ len = SeedLen - at /\ filled \subseteq 0..(SeedLen - 1)
  /\ source \in {"getentropy", "open"} => at = 0
  /\ source \in {"getentropy", "open", "read"} => filled = 0..(at - 1)
  /\ SeedWritten

LEMMA SeedInitInv ==
  ASSUME SeedInit
  PROVE  SeedInv
<1>1. source = "getentropy" /\ at = 0 /\ len = SeedLen /\ filled = {} /\ SeedLen \in Nat
  BY SeedAssumption DEF SeedInit
<1>2. 0..(at - 1) = {} /\ len = SeedLen - at  BY <1>1
<1> QED BY <1>1, <1>2 DEF SeedInv, SeedWritten

LEMMA SeedStep ==
  ASSUME SeedInv, SeedNext \/ UNCHANGED seedVars
  PROVE  SeedInv'
<1>1. SeedLen \in Nat /\ SeedLen > 0  BY SeedAssumption
<1>2. CASE Getentropy
  BY <1>1, <1>2 DEF Getentropy, SeedInv, SeedWritten
<1>3. CASE OpenUrandom
  BY <1>1, <1>3 DEF OpenUrandom, SeedInv, SeedWritten
<1>4. CASE ReadUrandom
  <2>1. PICK rlen \in 1..len :
          /\ filled' = filled \cup at..(at + rlen - 1)
          /\ at' = at + rlen /\ len' = len - rlen
          /\ source' = IF rlen = len THEN "seeded" ELSE "read"
    BY <1>4 DEF ReadUrandom
  <2>2. source = "read" /\ at \in 0..SeedLen /\ len = SeedLen - at /\ filled = 0..(at - 1)
    BY <1>4 DEF ReadUrandom, SeedInv
  <2>3. filled' = 0..(at' - 1)  BY <1>1, <2>1, <2>2
  <2>4. at' \in 0..SeedLen /\ len' = SeedLen - at' /\ (rlen = len => at' = SeedLen)
    BY <1>1, <2>1, <2>2
  <2>5. filled' \subseteq 0..(SeedLen - 1)
    <3> DEFINE n == at'
    <3>1. n \in 0..SeedLen /\ filled' = 0..(n - 1)  BY <2>3, <2>4
    <3> HIDE DEF n
    <3>2. \A j \in 0..(n - 1) : j \in 0..(SeedLen - 1)  BY <1>1, <3>1
    <3> QED BY <3>1, <3>2
  <2> QED BY <2>1, <2>3, <2>4, <2>5 DEF SeedInv, SeedWritten
<1>5. CASE ReadError
  BY <1>1, <1>5 DEF ReadError, SeedInv, SeedWritten
<1>6. CASE UNCHANGED seedVars
  BY <1>6 DEF seedVars, SeedInv, SeedWritten
<1> QED BY <1>2, <1>3, <1>4, <1>5, <1>6 DEF SeedNext

(***************************************************************************)
(* Polynomials of degree 2.                                                *)
(***************************************************************************)
Pair(k)   == [1..2 -> (-k)..k]
IntPair   == [1..2 -> Int]

(* What the generator may yield, after the test of the parity. *)
Drawn(c) == c \in Pair(127) /\ OddSum(c) /\ SqNorm(c) < Full

LEMMA SquaredNorm ==
  ASSUME NEW c \in IntPair, OddSum(c)
  PROVE  SqNorm(c) \in Nat /\ SqNorm(c) > 0 /\ SqNorm(c) % 2 = 1
<1> DEFINE p == c[1]
           q == c[2]
<1>1. p \in Int /\ q \in Int  BY DEF IntPair
<1>2. (p + q) % 2 = 1  BY DEF OddSum
<1>3. SqNorm(c) = p * p + q * q  BY DEF SqNorm
<1> HIDE DEF p, q
<1>4. p * p \in Nat /\ q * q \in Nat  BY <1>1, SMT
<1>5. (p * p + q * q) % 2 = 1
  <2>1. PICK i \in Int : p + q = 2 * i + 1  BY <1>1, <1>2, SMT
  <2> DEFINE h == (2 * i * i + 2 * i) - p * q
  <2>2. p * p + q * q = 2 * h + 1 /\ h \in Int
    <3>1. q = 2 * i + 1 - p  BY <1>1, <2>1
    <3>2. p * p + q * q = (p + q) * (p + q) - 2 * (p * q)  BY <1>1, SMT
    <3>3. (p + q) * (p + q) = 2 * (2 * i * i + 2 * i) + 1  BY <2>1, SMT
    <3>4. h \in Int /\ 2 * i * i + 2 * i \in Int /\ p * q \in Int  BY <1>1, SMT
    <3> DEFINE o == 2 * i * i + 2 * i
               r == p * q
               s == p * p + q * q
               t == (p + q) * (p + q)
    <3>5. /\ s = t - 2 * r
          /\ t = 2 * o + 1
          /\ h = o - r
      <4>1. s = t - 2 * r  BY <3>2, Zenon
      <4>2. t = 2 * o + 1  BY <3>3, Zenon
      <4>3. h = o - r  BY Zenon
      <4> QED BY <4>1, <4>2, <4>3, Zenon
    <3> HIDE DEF o, r, s, t, h
    <3>6. s = 2 * h + 1  BY <3>4, <3>5 DEF o, r
    <3> QED BY <3>4, <3>6 DEF s
  <2> HIDE DEF h
  <2> QED BY <2>2, SMT
<1>6. p * p + q * q > 0
  <2> DEFINE s == p * p + q * q
  <2>1. s \in Nat /\ s % 2 = 1  BY <1>4, <1>5
  <2> HIDE DEF s
  <2>2. s > 0  BY <2>1
  <2> QED BY <2>2 DEF s
<1> QED BY <1>3, <1>4, <1>5, <1>6

(* The products of the NTRU equation, and what the reduction of F and G by *)
(* a multiple of f and g leaves of them.                                   *)
Det(c, d, C, D) == Plus(Mul(c, D), Times(-1, Mul(d, C)))

LEMMA DetIs ==
  ASSUME NEW c, NEW d, NEW C, NEW D, NEW p \in Int, NEW q \in Int, NEW r \in Int, NEW s \in Int,
         p = c[1] * D[1] - c[2] * D[2], q = c[1] * D[2] + c[2] * D[1],
         r = d[1] * C[1] - d[2] * C[2], s = d[1] * C[2] + d[2] * C[1]
  PROVE  Det(c, d, C, D) = <<p - r, q - s>>
<1>1. Mul(c, D) = <<p, q>> /\ Mul(d, C) = <<r, s>>  BY DEF Mul
<1>2. Det(c, d, C, D) = Plus(<<p, q>>, Times(-1, <<r, s>>))  BY <1>1 DEF Det
<1>3. Plus(<<p, q>>, Times(-1, <<r, s>>)) = <<p + (-1) * r, q + (-1) * s>>
  BY DEF Plus, Times
<1>4. p + (-1) * r = p - r /\ q + (-1) * s = q - s  OBVIOUS
<1> QED BY <1>2, <1>3, <1>4

(* The first F and G, less any multiple of f and g. *)
Reduced(C, c, d, k1, k2) == Plus(Times(C, Adj(d)), Times(-1, Mul(<<k1, k2>>, c)))

LEMMA ReducedIs ==
  ASSUME NEW c \in IntPair, NEW d \in IntPair, NEW C \in Int, NEW k1 \in Int, NEW k2 \in Int
  PROVE  LET r == Reduced(C, c, d, k1, k2)
         IN  /\ r \in IntPair /\ r[1] \in Int /\ r[2] \in Int
             /\ r[1] = C * d[1] - (k1 * c[1] - k2 * c[2])
             /\ r[2] = C * (-d[2]) - (k1 * c[2] + k2 * c[1])
<1> DEFINE p == C * d[1]
           q == C * (-d[2])
           r == k1 * c[1] - k2 * c[2]
           s == k1 * c[2] + k2 * c[1]
<1>1. p \in Int /\ q \in Int /\ r \in Int /\ s \in Int
  <2>1. c[1] \in Int /\ c[2] \in Int /\ d[1] \in Int /\ d[2] \in Int  BY DEF IntPair
  <2> QED BY <2>1, SMT
<1>2. Times(C, Adj(d)) = <<p, q>> /\ Mul(<<k1, k2>>, c) = <<r, s>>
  BY DEF Times, Adj, Mul
<1> HIDE DEF p, q, r, s
<1>3. Reduced(C, c, d, k1, k2) = Plus(<<p, q>>, Times(-1, <<r, s>>))  BY <1>2 DEF Reduced
<1>4. Plus(<<p, q>>, Times(-1, <<r, s>>)) = <<p + (-1) * r, q + (-1) * s>>
  BY DEF Plus, Times
<1>5. p + (-1) * r = p - r /\ q + (-1) * s = q - s /\ p - r \in Int /\ q - s \in Int
  BY <1>1
<1>6. Reduced(C, c, d, k1, k2) = <<p - r, q - s>>  BY <1>3, <1>4, <1>5
<1>7. <<p - r, q - s>> \in IntPair  BY <1>5 DEF IntPair
<1>8. <<p - r, q - s>>[1] = p - r /\ <<p - r, q - s>>[2] = q - s  OBVIOUS
<1> DEFINE t == Reduced(C, c, d, k1, k2)
<1>9. t \in IntPair /\ t[1] \in Int /\ t[2] \in Int /\ t[1] = p - r /\ t[2] = q - s
  BY <1>5, <1>6, <1>7, <1>8
<1> HIDE DEF t
<1> QED BY <1>9 DEF p, q, r, s, t

(* Whatever the multiple, the equation is the one of the resultants. *)
LEMMA DetKept ==
  ASSUME NEW c \in IntPair, NEW d \in IntPair, NEW C \in Int, NEW D \in Int,
         NEW k1 \in Int, NEW k2 \in Int
  PROVE  Det(c, d, Reduced(C, c, d, k1, k2), Reduced(D, d, c, k1, k2))
           = <<SqNorm(c) * D - SqNorm(d) * C, 0>>
<1> DEFINE X == Reduced(C, c, d, k1, k2)
           Y == Reduced(D, d, c, k1, k2)
           p == c[1] * Y[1] - c[2] * Y[2]
           q == c[1] * Y[2] + c[2] * Y[1]
           r == d[1] * X[1] - d[2] * X[2]
           s == d[1] * X[2] + d[2] * X[1]
           z == SqNorm(c) * D - SqNorm(d) * C
<1>1. c[1] \in Int /\ c[2] \in Int /\ d[1] \in Int /\ d[2] \in Int  BY DEF IntPair
<1>2. /\ X[1] \in Int /\ X[2] \in Int
      /\ X[1] = C * d[1] - (k1 * c[1] - k2 * c[2])
      /\ X[2] = C * (-d[2]) - (k1 * c[2] + k2 * c[1])
  BY ReducedIs
<1>3. /\ Y[1] \in Int /\ Y[2] \in Int
      /\ Y[1] = D * c[1] - (k1 * d[1] - k2 * d[2])
      /\ Y[2] = D * (-c[2]) - (k1 * d[2] + k2 * d[1])
  BY ReducedIs
<1> HIDE DEF X, Y
<1>4. p - r = (c[1] * c[1] + c[2] * c[2]) * D - (d[1] * d[1] + d[2] * d[2]) * C
      /\ q - s = 0
  <2> DEFINE c1 == c[1]
             c2 == c[2]
             d1 == d[1]
             d2 == d[2]
             X1 == X[1]
             X2 == X[2]
             Y1 == Y[1]
             Y2 == Y[2]
  <2>1. c1 \in Int /\ c2 \in Int /\ d1 \in Int /\ d2 \in Int  BY <1>1
  <2>2. /\ X1 \in Int /\ X2 \in Int
        /\ X1 = C * d1 - (k1 * c1 - k2 * c2)
        /\ X2 = C * (-d2) - (k1 * c2 + k2 * c1)
    BY <1>2, Zenon
  <2>3. /\ Y1 \in Int /\ Y2 \in Int
        /\ Y1 = D * c1 - (k1 * d1 - k2 * d2)
        /\ Y2 = D * (-c2) - (k1 * d2 + k2 * d1)
    BY <1>3, Zenon
  <2> HIDE DEF c1, c2, d1, d2, X1, X2, Y1, Y2
  <2>4. (c1 * Y1 - c2 * Y2) - (d1 * X1 - d2 * X2)
          = (c1 * c1 + c2 * c2) * D - (d1 * d1 + d2 * d2) * C
    BY <2>1, <2>2, <2>3, SMTT(30)
  <2>5. (c1 * Y2 + c2 * Y1) - (d1 * X2 + d2 * X1) = 0
    BY <2>1, <2>2, <2>3, SMTT(30)
  <2> QED BY <2>4, <2>5, Zenon DEF c1, c2, d1, d2, X1, X2, Y1, Y2
<1>5. p - r = z  BY <1>4 DEF SqNorm
<1>6. p \in Int /\ q \in Int /\ r \in Int /\ s \in Int  BY <1>1, <1>2, <1>3, SMT
<1>7. Det(c, d, X, Y) = <<p - r, q - s>>
  <2>1. /\ p = c[1] * Y[1] - c[2] * Y[2] /\ q = c[1] * Y[2] + c[2] * Y[1]
        /\ r = d[1] * X[1] - d[2] * X[2] /\ s = d[1] * X[2] + d[2] * X[1]
    OBVIOUS
  <2> HIDE DEF p, q, r, s
  <2> QED BY <1>6, <2>1, DetIs
<1>8. q - s = 0  BY <1>4
<1> HIDE DEF p, q, r, s, z
<1>9. Det(c, d, X, Y) = <<z, 0>>  BY <1>5, <1>7, <1>8
<1> QED BY <1>9 DEF X, Y, z

TermBounded(t, k, z) ==
  /\ t * z \in Int /\ t * t \in Int /\ t * t >= 0
  /\ 0 <= k * (t * t) - t * z /\ 0 <= k * (t * t) + t * z

LEMMA TermSquare ==
  ASSUME NEW t \in Int, NEW k \in Nat, NEW z \in (-k)..k
  PROVE  TermBounded(t, k, z)
<1>1. t * z \in Int /\ t * t \in Int /\ t * t >= 0  BY SMT
<1>2. t * (k * t - z) >= 0
  <2>1. CASE t >= 1
    <3>1. k * t - z >= 0  BY <2>1
    <3> QED BY <2>1, <3>1, SMT
  <2>2. CASE t <= -1
    <3>1. z - k * t >= 0 /\ -t >= 0  BY <2>2
    <3>2. (-t) * (z - k * t) >= 0  BY <3>1, SMT
    <3>3. (-t) * (z - k * t) = t * (k * t - z)  BY SMT
    <3> QED BY <3>2, <3>3
  <2>3. CASE t = 0  BY <2>3
  <2> QED BY <2>1, <2>2, <2>3
<1>3. t * (k * t + z) >= 0
  <2>1. CASE t >= 1
    <3>1. k * t + z >= 0  BY <2>1
    <3> QED BY <2>1, <3>1, SMT
  <2>2. CASE t <= -1
    <3>1. -z - k * t >= 0 /\ -t >= 0  BY <2>2
    <3>2. (-t) * (-z - k * t) >= 0  BY <3>1, SMT
    <3>3. (-t) * (-z - k * t) = t * (k * t + z)  BY SMT
    <3> QED BY <3>2, <3>3
  <2>3. CASE t = 0  BY <2>3
  <2> QED BY <2>1, <2>2, <2>3
<1>4. t * (k * t - z) = k * (t * t) - t * z /\ t * (k * t + z) = k * (t * t) + t * z
  BY SMT
<1> DEFINE o == t * t
           r == t * z
           m == t * (k * t - z)
           n == t * (k * t + z)
<1> HIDE DEF o, r, m, n
<1>5. o \in Int /\ o >= 0 /\ r \in Int /\ m >= 0 /\ n >= 0 /\ m = k * o - r /\ n = k * o + r
  BY <1>1, <1>2, <1>3, <1>4 DEF o, r, m, n
<1>6. 0 <= k * o - r /\ 0 <= k * o + r  BY <1>5
<1> QED BY <1>5, <1>6 DEF o, r, TermBounded

(* When the resultant of g is 1 and zint_bezout's coefficients are off,    *)
(* F and G are too large for their bytes: the norms that have been checked *)
(* keep f long enough.                                                     *)
LEMMA TooLarge ==
  ASSUME Q >= 140, NEW c \in IntPair, NEW d \in IntPair, NEW C \in Pair(127), NEW D \in Pair(127),
         SqNorm(d) = 1, 10000 * Q < 13689 * (SqNorm(c) + SqNorm(d)),
         Det(c, d, C, D) = <<Q * (1 - SqNorm(c)), 0>>
  PROVE  SqNorm(c) = 0
<1> DEFINE p1 == c[1] * D[1]
           p2 == c[2] * D[2]
           r1 == d[1] * C[1]
           r2 == d[2] * C[2]
           q == c[1] * D[2] + c[2] * D[1]
           s == d[1] * C[2] + d[2] * C[1]
           m1 == c[1] * c[1]
           m2 == c[2] * c[2]
           n1 == d[1] * d[1]
           n2 == d[2] * d[2]
           n == SqNorm(c)
           e == Q * (1 - n)
<1>1. /\ c[1] \in Int /\ c[2] \in Int /\ d[1] \in Int /\ d[2] \in Int
      /\ C[1] \in (-127)..127 /\ C[2] \in (-127)..127
      /\ D[1] \in (-127)..127 /\ D[2] \in (-127)..127
  BY DEF IntPair, Pair
<1>2. Q \in Int  BY KeyAssumption
<1> DEFINE L == 127
<1>11. /\ c[1] \in Int /\ c[2] \in Int /\ d[1] \in Int /\ d[2] \in Int
       /\ C[1] \in (-L)..L /\ C[2] \in (-L)..L
       /\ D[1] \in (-L)..L /\ D[2] \in (-L)..L /\ L \in Nat
  BY <1>1
<1> HIDE DEF L
<1>3. /\ p1 \in Int /\ m1 \in Int /\ m1 >= 0 /\ 0 <= L * m1 - p1 /\ 0 <= L * m1 + p1
      /\ p2 \in Int /\ m2 \in Int /\ m2 >= 0 /\ 0 <= L * m2 - p2 /\ 0 <= L * m2 + p2
  <2>1. TermBounded(c[1], L, D[1])  BY <1>11, TermSquare
  <2>2. TermBounded(c[2], L, D[2])  BY <1>11, TermSquare
  <2> QED BY <2>1, <2>2 DEF TermBounded
<1>4. /\ r1 \in Int /\ n1 \in Int /\ n1 >= 0 /\ 0 <= L * n1 - r1 /\ 0 <= L * n1 + r1
      /\ r2 \in Int /\ n2 \in Int /\ n2 >= 0 /\ 0 <= L * n2 - r2 /\ 0 <= L * n2 + r2
  <2>1. TermBounded(d[1], L, C[1])  BY <1>11, TermSquare
  <2>2. TermBounded(d[2], L, C[2])  BY <1>11, TermSquare
  <2> QED BY <2>1, <2>2 DEF TermBounded
<1>5. n = m1 + m2 /\ n1 + n2 = 1  BY DEF SqNorm
<1>6. (p1 - p2) - (r1 - r2) = e
  <2>1. q \in Int /\ s \in Int /\ p1 - p2 \in Int /\ r1 - r2 \in Int
    <3>2. C[1] \in Int /\ C[2] \in Int /\ D[1] \in Int /\ D[2] \in Int
      <4>1. C[1] \in Int  BY <1>1
      <4>2. C[2] \in Int  BY <1>1
      <4>3. D[1] \in Int  BY <1>1
      <4>4. D[2] \in Int  BY <1>1
      <4> QED BY <4>1, <4>2, <4>3, <4>4
    <3> QED BY <1>1, <3>2, SMT
  <2> DEFINE P == p1 - p2
             R == r1 - r2
  <2>2. /\ P = c[1] * D[1] - c[2] * D[2] /\ q = c[1] * D[2] + c[2] * D[1]
        /\ R = d[1] * C[1] - d[2] * C[2] /\ s = d[1] * C[2] + d[2] * C[1]
    OBVIOUS
  <2>3. P \in Int /\ R \in Int  BY <2>1
  <2> HIDE DEF P, q, R, s
  <2>4. Det(c, d, C, D) = <<P - R, q - s>>  BY <2>1, <2>2, <2>3, DetIs
  <2>5. Det(c, d, C, D) = <<e, 0>>  OBVIOUS
  <2> HIDE DEF e
  <2>6. P - R = e  BY <2>4, <2>5
  <2> QED BY <2>6 DEF P, R
<1>7. 10000 * Q < 13689 * (n + 1)  OBVIOUS
<1> HIDE DEF p1, p2, r1, r2, m1, m2, n1, n2, n
<1>8. n \in Int /\ n >= 0 /\ -127 * (n + 1) <= e /\ e \in Int
  <2>1. n \in Int /\ n >= 0  BY <1>3, <1>5
  <2>2. e \in Int  BY <1>2, <2>1, SMT
  <2> HIDE DEF e
  <2>3. -(127 * (n + 1)) <= e  BY <1>3, <1>4, <1>5, <1>6, <2>1 DEF L
  <2> QED BY <2>1, <2>2, <2>3
<1>9. CASE n >= 1
  <2>1. (Q - 140) * (n - 1) >= 0  BY <1>2, <1>8, <1>9, SMT
  <2>2. (Q - 140) * (n - 1) = -e - 140 * (n - 1)  BY <1>2, <1>8, SMT
  <2> DEFINE o == (Q - 140) * (n - 1)
  <2>3. o >= 0 /\ o = -e - 140 * (n - 1)  BY <2>1, <2>2
  <2> HIDE DEF o, e
  <2>4. 140 * (n - 1) <= 127 * (n + 1)  BY <1>8, <2>3
  <2>5. n <= 20  BY <1>8, <2>4
  <2>6. FALSE  BY <1>2, <1>7, <1>8, <2>5
  <2> QED BY <2>6
<1>10. CASE n = 0  BY <1>10 DEF n
<1> QED BY <1>8, <1>9, <1>10

(* Sums, products and multiples are polynomials. *)
LEMMA PairTypes ==
  ASSUME NEW c \in IntPair, NEW d \in IntPair, NEW k \in Int
  PROVE  Mul(c, d) \in IntPair /\ Plus(c, d) \in IntPair /\ Times(k, c) \in IntPair
         /\ Adj(c) \in IntPair
<1>1. c[1] \in Int /\ c[2] \in Int /\ d[1] \in Int /\ d[2] \in Int  BY DEF IntPair
<1>2. \A m \in Int, n \in Int : <<m, n>> \in IntPair  BY DEF IntPair
<1>3. Mul(c, d) \in IntPair
  <2> DEFINE m == c[1] * d[1] - c[2] * d[2]
             n == c[1] * d[2] + c[2] * d[1]
  <2>1. m \in Int /\ n \in Int  BY <1>1, SMT
  <2>2. Mul(c, d) = <<m, n>>  BY DEF Mul
  <2> HIDE DEF m, n
  <2> QED BY <1>2, <2>1, <2>2
<1>4. Plus(c, d) \in IntPair
  <2>1. c[1] + d[1] \in Int /\ c[2] + d[2] \in Int  BY <1>1
  <2> QED BY <1>2, <2>1 DEF Plus
<1>5. Times(k, c) \in IntPair
  <2>1. k * c[1] \in Int /\ k * c[2] \in Int  BY <1>1, SMT
  <2> QED BY <1>2, <2>1, Zenon DEF Times
<1>6. Adj(c) \in IntPair
  <2>1. -c[2] \in Int  BY <1>1
  <2> QED BY <1>1, <1>2, <2>1, Zenon DEF Adj
<1> QED BY <1>3, <1>4, <1>5, <1>6

LEMMA SmallPair ==
  ASSUME NEW c \in Pair(127)
  PROVE  c \in IntPair
<1>1. \A i \in 1..2 : c[i] \in Int  BY DEF Pair
<1> QED BY <1>1 DEF Pair, IntPair

LEMMA DrawnNorm ==
  ASSUME NEW c, Drawn(c)
  PROVE  c \in IntPair /\ SqNorm(c) \in Nat /\ SqNorm(c) > 0 /\ SqNorm(c) % 2 = 1 /\ SqNorm(c) < Full
<1>1. c \in IntPair  BY SmallPair DEF Drawn
<1> QED BY <1>1, SquaredNorm DEF Drawn

LEMMA NearestType ==
  ASSUME NEW t \in Int, NEW n \in Nat, n > 0
  PROVE  Nearest(t, n) \subseteq Int
<1>1. t \div n \in Int  BY SMT
<1> QED BY <1>1 DEF Nearest

(* What the difference of the two products is: q, but for the coefficients *)
(* that zint_bezout gives when its second operand is 1.                    *)
Solves(c, d, e) == e = Q \/ (SqNorm(d) = 1 /\ e = Q * (1 - SqNorm(c)))

Exact(c, d, C, D) == \E e \in Int : Solves(c, d, e) /\ Det(c, d, C, D) = <<e, 0>>

LEMMA TimesQ ==
  ASSUME NEW m \in Int, NEW n \in Int, NEW k \in Int, NEW l \in Int, NEW q \in Int,
         m * k - n * l = 1 \/ (n = 1 /\ m * k - n * l = 1 - m)
  PROVE  LET e == m * (q * k) - n * (q * l)
         IN  e = q \/ (n = 1 /\ e = q * (1 - m))
<1> DEFINE z == m * k - n * l
           e == m * (q * k) - n * (q * l)
<1>1. e = q * z  BY SMT
<1>2. CASE z = 1
  <2> HIDE DEF z, e
  <2> QED BY <1>1, <1>2 DEF e
<1>3. CASE n = 1 /\ z = 1 - m
  <2> HIDE DEF z, e
  <2> QED BY <1>1, <1>3, Zenon DEF e
<1> QED BY <1>2, <1>3

LEMMA PowerSmall ==
  ASSUME NEW j \in 2..8
  PROVE  2^(j - 1) - 1 \in 1..127
<1>2. CASE j = 2
  <2>1. j - 1 = 1 /\ 2^1 = 2  BY <1>2, SMT
  <2> QED BY <2>1
<1>3. CASE j = 3
  <2>1. j - 1 = 2 /\ 2^2 = 4  BY <1>3, SMT
  <2> QED BY <2>1
<1>4. CASE j = 4
  <2>1. j - 1 = 3 /\ 2^3 = 8  BY <1>4, SMT
  <2> QED BY <2>1
<1>5. CASE j = 5
  <2>1. j - 1 = 4 /\ 2^4 = 16  BY <1>5, SMT
  <2> QED BY <2>1
<1>6. CASE j = 6
  <2>1. j - 1 = 5 /\ 2^5 = 32  BY <1>6, SMT
  <2> QED BY <2>1
<1>7. CASE j = 7
  <2>1. j - 1 = 6 /\ 2^6 = 64  BY <1>7, SMT
  <2> QED BY <2>1
<1>8. CASE j = 8
  <2>1. j - 1 = 7 /\ 2^7 = 128  BY <1>8, SMT
  <2> QED BY <2>1
<1> QED BY <1>2, <1>3, <1>4, <1>5, <1>6, <1>7, <1>8

(* What fits in a byte is left as it is. *)
LEMMA ByteKept ==
  ASSUME NEW c \in IntPair, Small(c)
  PROVE  Int8(c) = c /\ c \in Pair(127)
<1> DEFINE lim == 2^(max_FG_bits - 1) - 1
<1>1. lim \in 1..127  BY PowerSmall, KeyAssumption
<1>2. \A i \in 1..2 : c[i] \in (-lim)..lim  BY DEF Small
<1> HIDE DEF lim
<1>3. \A i \in 1..2 : c[i] \in (-127)..127  BY <1>1, <1>2
<1>4. \A i \in 1..2 : ((c[i] + 128) % 256) - 128 = c[i]  BY <1>3
<1>5. c = [i \in 1..2 |-> c[i]]  BY DEF IntPair
<1>6. Int8(c) = [i \in 1..2 |-> c[i]]  BY <1>4 DEF Int8
<1>7. c \in Pair(127)  BY <1>3, <1>5 DEF Pair
<1> QED BY <1>5, <1>6, <1>7

(* The NTRU equation after the reduction. *)
LEMMA ReductionExact ==
  ASSUME NEW c, Drawn(c), NEW d, Drawn(d), NEW C \in Int, NEW D \in Int,
         Solves(c, d, SqNorm(c) * D - SqNorm(d) * C), NEW k1 \in Int, NEW k2 \in Int
  PROVE  /\ Reduced(C, c, d, k1, k2) \in IntPair /\ Reduced(D, d, c, k1, k2) \in IntPair
         /\ Exact(c, d, Reduced(C, c, d, k1, k2), Reduced(D, d, c, k1, k2))
<1>1. c \in IntPair /\ d \in IntPair /\ SqNorm(c) \in Int /\ SqNorm(d) \in Int  BY DrawnNorm
<1>2. Reduced(C, c, d, k1, k2) \in IntPair /\ Reduced(D, d, c, k1, k2) \in IntPair
  BY <1>1, ReducedIs
<1> DEFINE e == SqNorm(c) * D - SqNorm(d) * C
<1>3. e \in Int  BY <1>1, SMT
<1>4. Det(c, d, Reduced(C, c, d, k1, k2), Reduced(D, d, c, k1, k2)) = <<e, 0>>
  BY <1>1, DetKept
<1>5. Solves(c, d, e)  OBVIOUS
<1> HIDE DEF e
<1> QED BY <1>2, <1>3, <1>4, <1>5 DEF Exact

(* The residue that InvQ finds. *)
LEMMA InverseType ==
  ASSUME NEW k \in Int, k % Q # 0
  PROVE  InvQ(k % Q) \in Int
<1> DEFINE r == k % Q
<1>1. Q \in Nat /\ Q > 1  BY KeyAssumption
<1>2. r \in 1..(Q - 1)  BY <1>1
<1> HIDE DEF r
<1>3. \E i \in 1..(Q - 1) : (r * i) % Q = 1  BY <1>2, KeyAssumption
<1>4. InvQ(r) \in 1..(Q - 1)  BY <1>3, Zenon DEF InvQ
<1>5. InvQ(r) \in Int  BY <1>1, <1>4
<1> QED BY <1>5 DEF r

LEMMA QuotType ==
  ASSUME NEW c \in IntPair, NEW d \in IntPair, Invertible(d)
  PROVE  Quot(c, d) \in Seq(Int)
<1>1. Resultant(d) \in Int
  <2>1. d[1] \in Int /\ d[2] \in Int  BY DEF IntPair
  <2> QED BY <2>1, SMT DEF Resultant, SqNorm
<1>2. InvQ(Resultant(d) % Q) \in Int  BY <1>1, InverseType DEF Invertible
<1>3. \A t \in IntPair : Modulo(t) \in IntPair
  <2> TAKE t \in IntPair
  <2>1. t[1] % Q \in Int /\ t[2] % Q \in Int
    <3>1. t[1] \in Int /\ t[2] \in Int /\ Q \in Nat /\ Q > 1  BY KeyAssumption DEF IntPair
    <3> QED BY <3>1, SMT
  <2> QED BY <2>1 DEF Modulo, IntPair
<1>4. Adj(d) \in IntPair  BY PairTypes
<1>5. Mul(c, Adj(d)) \in IntPair
  <2>1. 0 \in Int  OBVIOUS
  <2> QED BY <1>4, <2>1, PairTypes, Zenon
<1>6. Modulo(Mul(c, Adj(d))) \in IntPair  BY <1>3, <1>5
<1>7. Times(InvQ(Resultant(d) % Q), Modulo(Mul(c, Adj(d)))) \in IntPair
  BY <1>2, <1>6, PairTypes
<1>8. Quot(c, d) \in IntPair  BY <1>3, <1>7 DEF Quot
<1> QED BY <1>8, ArrayIsSeq DEF IntPair

(***************************************************************************)
(* The encoded keys, and quotients modulo q.                               *)
(***************************************************************************)
(* The encoding of a polynomial in fields of k bits. *)
Code(c, k) == Written(Pieces(c, k))

LEMMA PairIsSeq ==
  ASSUME NEW c \in IntPair
  PROVE  c \in Seq(Int) /\ Len(c) = 2 /\ DOMAIN c = 1..2
BY ArrayIsSeq DEF IntPair

LEMMA EncodedPair ==
  ASSUME NEW k \in 2..8, NEW c \in IntPair, NEW room \in Nat, Bytes(2 * k) <= room,
         \A i \in 1..2 : c[i] \in (-(2^(k - 1) - 1))..(2^(k - 1) - 1)
  PROVE  /\ trim_encode(c, k, room) = Code(c, k)
         /\ Code(c, k) \in Seq(Byte) /\ Len(Code(c, k)) = Bytes(2 * k)
         /\ Bytes(2 * k) \in Nat /\ Bytes(2 * k) > 0
<1>1. c \in Seq(Int) /\ Len(c) = 2 /\ DOMAIN c = 1..2  BY PairIsSeq
<1>2. k \in 1..14 /\ k * 2 = 2 * k /\ 2 * k \in Nat /\ 2 * k > 0  OBVIOUS
<1>3. Code(c, k) \in Seq(Byte) /\ Len(Code(c, k)) = Bytes(2 * k)
  BY <1>1, <1>2, WrittenFields DEF Code
<1>4. Bytes(2 * k) \in Nat /\ 2 * k <= 8 * Bytes(2 * k)  BY <1>2, BytesIs
<1> DEFINE n == Bytes(2 * k)
           top == 2^(k - 1) - 1
<1>5. n \in Nat /\ n > 0  BY <1>2, <1>4
<1>6. ~(\E u \in DOMAIN c : c[u] \notin (-top)..top)  BY <1>1
<1>7. ~(Bytes(k * Len(c)) > room)
  <2>1. Bytes(k * Len(c)) = n  BY <1>1, <1>2
  <2> HIDE DEF n
  <2>2. n <= room  BY DEF n
  <2> QED BY <1>5, <2>1, <2>2
<1>8. trim_encode(c, k, room) = Written([u \in DOMAIN c |-> Bits(c[u], k)])
  <2> HIDE DEF top
  <2> QED BY <1>6, <1>7 DEF trim_encode, top
<1>9. Code(c, k) = Written([u \in DOMAIN c |-> Bits(c[u], k)])  BY DEF Code, Pieces
<1> QED BY <1>3, <1>5, <1>8, <1>9

(* A decoder finds it again, whatever follows it. *)
LEMMA DecodedAgain ==
  ASSUME NEW k \in 2..8, NEW c \in IntPair, NEW e \in Seq(Byte),
         \A i \in 1..2 : c[i] \in (-(2^(k - 1) - 1))..(2^(k - 1) - 1)
  PROVE  trim_decode(Code(c, k) \o e, k, 2) = [x |-> c, v |-> Bytes(2 * k)]
<1>1. c \in Seq(Int) /\ Len(c) = 2  BY PairIsSeq
<1> DEFINE n == Bytes(2 * k)
           s == Code(c, k)
           buf == s \o e
<1>2. n \in Nat /\ n > 0 /\ s \in Seq(Byte) /\ Len(s) = n
  <2>0. 2 * k \in Nat  OBVIOUS
  <2>1. Bytes(2 * k) \in Nat  BY <2>0, BytesIs
  <2>2. Bytes(2 * k) <= Bytes(2 * k)  BY <2>1
  <2> QED BY <2>1, <2>2, EncodedPair
<1>3. trim_encode(c, k, n) = s
  <2>1. Bytes(2 * k) <= n  BY <1>2
  <2> QED BY <1>2, <2>1, EncodedPair
<1>4. k * 2 = 2 * k /\ k \in 2..14  OBVIOUS
<1> HIDE DEF n, s
<1>5. buf \in Seq(Byte) /\ Begins(buf, s)  BY <1>2 DEF Begins
<1>6. s # <<>>  BY <1>2
<1> HIDE DEF buf
<1>7. trim_decode(buf, k, Len(c)) = [x |-> c, v |-> Bytes(k * Len(c))]
  BY <1>1, <1>2, <1>3, <1>4, <1>5, <1>6, TrimRoundTrip
<1> QED BY <1>1, <1>4, <1>7 DEF buf, s

(* The three parts of a private key. *)
LEMMA ThreeParts ==
  ASSUME NEW c \in Seq(Byte), NEW d \in Seq(Byte), NEW e \in Seq(Byte), NEW s,
         s = c \o d \o e
  PROVE  /\ s = c \o (d \o e) /\ Len(s) = Len(c) + Len(d) + Len(e)
         /\ SubSeq(s, Len(c) + 1, Len(s)) = d \o e
         /\ SubSeq(s, Len(c) + Len(d) + 1, Len(s)) = e \o <<>>
         /\ s \in Seq(Byte) /\ d \o e \in Seq(Byte)
<1> DEFINE m == Len(c)
           n == Len(d)
           p == Len(e)
<1>1. m \in Nat /\ n \in Nat /\ p \in Nat /\ s \in Seq(Byte) /\ Len(s) = m + n + p  OBVIOUS
<1>2. d \o e \in Seq(Byte) /\ Len(d \o e) = n + p  OBVIOUS
<1>3. s = c \o (d \o e)  OBVIOUS
<1>4. SubSeq(s, m + 1, Len(s)) = d \o e
  <2>1. SubSeq(s, m + 1, m + n + p) \in Seq(Byte)
        /\ Len(SubSeq(s, m + 1, m + n + p)) = n + p  BY <1>1
  <2> DEFINE u == SubSeq(s, m + 1, m + n + p)
  <2>2. \A i \in 1..(n + p) : SubSeq(s, m + 1, m + n + p)[i] = s[m + i]  BY <1>1
  <2>3. \A i \in 1..(n + p) : s[m + i] = (d \o e)[i]  BY <1>2, <1>3
  <2> DEFINE z == d \o e
  <2>4. z \in Seq(Byte) /\ Len(z) = n + p  BY <1>2
  <2>5. \A i \in 1..(n + p) : s[m + i] = z[i]  BY <2>3
  <2>6. \A i \in 1..(n + p) : u[i] = z[i]  BY <2>2, <2>5
  <2>7. u \in Seq(Byte) /\ Len(u) = n + p  BY <2>1
  <2> HIDE DEF z, u
  <2>8. u = z  BY <1>1, <2>4, <2>6, <2>7
  <2> QED BY <1>1, <2>8 DEF z, u
<1>5. SubSeq(s, m + n + 1, Len(s)) = e
  <2>1. SubSeq(s, m + n + 1, m + n + p) \in Seq(Byte)
        /\ Len(SubSeq(s, m + n + 1, m + n + p)) = p  BY <1>1
  <2>2. \A i \in 1..p : SubSeq(s, m + n + 1, m + n + p)[i] = s[m + n + i]  BY <1>1
  <2>3. \A i \in 1..p : s[m + n + i] = e[i]  OBVIOUS
  <2> QED BY <1>1, <2>1, <2>2, <2>3
<1>6. e \o <<>> = e  OBVIOUS
<1> QED BY <1>1, <1>2, <1>3, <1>4, <1>5, <1>6

(* An inverse modulo q undoes a product by r, and a multiple of q is lost. *)
LEMMA InverseCancels ==
  ASSUME NEW q \in Nat, q > 1, NEW r \in Int, NEW i \in Int, ((r % q) * i) % q = 1,
         NEW z \in Int, NEW w \in Int, Divides(q, w - r * z)
  PROVE  (i * (w % q)) % q = z % q
<1> DEFINE s == r % q
           v == w % q
<1>1. q \in Int /\ q > 0  OBVIOUS
<1>2. s \in Int /\ v \in Int /\ Divides(q, r - s) /\ Divides(q, w - v)
  BY <1>1, ModIs
<1>3. Divides(q, s * i - 1)
  <2>1. s * i \in Int  BY <1>2, SMT
  <2>2. (s * i) % q = 1  OBVIOUS
  <2> DEFINE p == s * i
  <2> HIDE DEF p, s
  <2>3. Divides(q, p - (p % q))  BY <1>1, <2>1, ModIs DEF p
  <2> QED BY <2>2, <2>3 DEF p
<1> HIDE DEF s, v
<1> DEFINE d1 == w - v
           d2 == w - r * z
           d3 == r - s
           d4 == s * i - 1
<1>4. /\ d1 \in Int /\ d2 \in Int /\ d3 \in Int /\ d4 \in Int
      /\ i * d2 \in Int /\ i * d1 \in Int /\ (i * z) * d3 \in Int /\ z * d4 \in Int /\ i * z \in Int
  BY <1>2, SMT
<1>5. i * v - z = ((i * d2 - i * d1) + (i * z) * d3) + z * d4
  <2>1. i * d2 - i * d1 = i * v - i * (r * z)  BY <1>2, SMT
  <2>2. (i * z) * d3 = i * (r * z) - (s * i) * z  BY <1>2, SMT
  <2>3. z * d4 = (s * i) * z - z  BY <1>2, SMT
  <2>4. i * v \in Int /\ i * (r * z) \in Int /\ (s * i) * z \in Int  BY <1>2, SMT
  <2> DEFINE m1 == i * v
             m2 == i * (r * z)
             m3 == (s * i) * z
             n1 == i * d2 - i * d1
             n2 == (i * z) * d3
             n3 == z * d4
  <2>5. n1 = m1 - m2 /\ n2 = m2 - m3 /\ n3 = m3 - z  BY <2>1, <2>2, <2>3, Zenon
  <2>6. m1 \in Int /\ m2 \in Int /\ m3 \in Int  BY <2>4, Zenon
  <2> HIDE DEF m1, m2, m3, n1, n2, n3
  <2>7. m1 - z = (n1 + n2) + n3  BY <2>5, <2>6
  <2> QED BY <2>7, Zenon DEF m1, n1, n2, n3
<1>6. Divides(q, d1) /\ Divides(q, d2) /\ Divides(q, d3) /\ Divides(q, d4)
  BY <1>2, <1>3
<1> HIDE DEF d1, d2, d3, d4
<1>7. Divides(q, i * d2) /\ Divides(q, i * d1) /\ Divides(q, (i * z) * d3) /\ Divides(q, z * d4)
  BY <1>1, <1>4, <1>6, DividesTimes
<1> DEFINE e1 == i * d2
           e2 == i * d1
           e3 == (i * z) * d3
           e4 == z * d4
           p == i * v
<1>8. /\ e1 \in Int /\ e2 \in Int /\ e3 \in Int /\ e4 \in Int /\ p \in Int
      /\ Divides(q, e1) /\ Divides(q, e2) /\ Divides(q, e3) /\ Divides(q, e4)
      /\ p - z = ((e1 - e2) + e3) + e4
  <2>1. i * v \in Int  BY <1>2, SMT
  <2> QED BY <1>4, <1>5, <1>7, <2>1, Zenon
<1> HIDE DEF e1, e2, e3, e4, p
<1>9. Divides(q, e1 - e2) /\ e1 - e2 \in Int  BY <1>1, <1>8, DividesSum
<1>10. Divides(q, (e1 - e2) + e3) /\ (e1 - e2) + e3 \in Int  BY <1>1, <1>8, <1>9, DividesSum
<1>11. Divides(q, ((e1 - e2) + e3) + e4)  BY <1>1, <1>8, <1>10, DividesSum
<1>12. Divides(q, p - z)  BY <1>8, <1>11
<1>13. p % q = z % q  BY <1>1, <1>8, <1>12, SameRemainder
<1> QED BY <1>13 DEF p, v

(* The inverse that the quotient is made with. *)
LEMMA InverseIs ==
  ASSUME NEW c \in IntPair, Invertible(c)
  PROVE  LET i == InvQ(Resultant(c) % Q)
         IN  i \in Int /\ ((Resultant(c) % Q) * i) % Q = 1 /\ Resultant(c) \in Int
<1> DEFINE r == Resultant(c) % Q
<1>1. Q \in Nat /\ Q > 1  BY KeyAssumption
<1>2. Resultant(c) \in Int
  <2>1. c[1] \in Int /\ c[2] \in Int  BY DEF IntPair
  <2> QED BY <2>1, SMT DEF Resultant, SqNorm
<1>3. r \in 1..(Q - 1)
  <2>1. r # 0  BY DEF Invertible
  <2> QED BY <1>1, <1>2, <2>1
<1> HIDE DEF r
<1>4. \E i \in 1..(Q - 1) : (r * i) % Q = 1  BY <1>3, KeyAssumption
<1>5. InvQ(r) \in 1..(Q - 1) /\ (r * InvQ(r)) % Q = 1  BY <1>4, Zenon DEF InvQ
<1>6. InvQ(r) \in Int  BY <1>1, <1>5
<1> QED BY <1>2, <1>5, <1>6 DEF r

(* The coefficients of a product by an adjoint, and of the quotient. *)
LEMMA QuotIs ==
  ASSUME NEW c \in IntPair, NEW d \in IntPair, Invertible(d),
         NEW p, p = c[1] * d[1] + c[2] * d[2], NEW q, q = c[2] * d[1] - c[1] * d[2]
  PROVE  LET i == InvQ(Resultant(d) % Q)
         IN  Quot(c, d) = <<(i * (p % Q)) % Q, (i * (q % Q)) % Q>>
<1> DEFINE i == InvQ(Resultant(d) % Q)
<1>1. Mul(c, Adj(d)) = <<p, q>>
  <2>1. c[1] \in Int /\ c[2] \in Int /\ d[1] \in Int /\ d[2] \in Int  BY DEF IntPair
  <2>2. Mul(c, Adj(d)) = <<c[1] * d[1] - c[2] * (-d[2]), c[1] * (-d[2]) + c[2] * d[1]>>
    BY DEF Mul, Adj
  <2>3. c[1] * d[1] - c[2] * (-d[2]) = p  BY <2>1, SMT
  <2>4. c[1] * (-d[2]) + c[2] * d[1] = q  BY <2>1, SMT
  <2> QED BY <2>2, <2>3, <2>4, Zenon
<1> HIDE DEF i
<1>2. Quot(c, d) = Modulo(Times(i, Modulo(<<p, q>>)))  BY <1>1, Zenon DEF Quot, i
<1>3. Modulo(<<p, q>>) = <<p % Q, q % Q>>  BY DEF Modulo
<1>4. Times(i, <<p % Q, q % Q>>) = <<i * (p % Q), i * (q % Q)>>  BY DEF Times
<1>5. Modulo(<<i * (p % Q), i * (q % Q)>>) = <<(i * (p % Q)) % Q, (i * (q % Q)) % Q>>
  BY DEF Modulo
<1>6. Quot(c, d) = <<(i * (p % Q)) % Q, (i * (q % Q)) % Q>>
  BY <1>2, <1>3, <1>4, <1>5, Zenon
<1> QED BY <1>6 DEF i

(* The product of f and G is that of g and F, but for q: G is F * g / f.   *)
LEMMA Completed ==
  ASSUME NEW c \in IntPair, NEW d \in IntPair, NEW C \in IntPair, NEW D \in IntPair,
         Invertible(c), Det(c, d, C, D) = <<Q, 0>>
  PROVE  Quot(Mul(d, C), c) = <<D[1] % Q, D[2] % Q>>
<1> DEFINE i == InvQ(Resultant(c) % Q)
           R == Resultant(c)
           P == Mul(d, C)
           p == P[1] * c[1] + P[2] * c[2]
           q == P[2] * c[1] - P[1] * c[2]
<1>1. Q \in Nat /\ Q > 1 /\ Q \in Int  BY KeyAssumption
<1>2. i \in Int /\ ((R % Q) * i) % Q = 1 /\ R \in Int  BY InverseIs
<1>3. /\ c[1] \in Int /\ c[2] \in Int /\ d[1] \in Int /\ d[2] \in Int
      /\ C[1] \in Int /\ C[2] \in Int /\ D[1] \in Int /\ D[2] \in Int
  BY DEF IntPair
<1>4. P \in IntPair /\ P[1] \in Int /\ P[2] \in Int
  <2>1. P \in IntPair
    <3>1. 0 \in Int  OBVIOUS
    <3> QED BY <3>1, PairTypes
  <2> HIDE DEF P
  <2> QED BY <2>1 DEF IntPair
<1> DEFINE m == c[1] * D[1] - c[2] * D[2]
           n == c[1] * D[2] + c[2] * D[1]
<1>5. P[1] = m - Q /\ P[2] = n /\ m \in Int /\ n \in Int
  <2> DEFINE r == d[1] * C[1] - d[2] * C[2]
             s == d[1] * C[2] + d[2] * C[1]
  <2>1. m \in Int /\ n \in Int /\ r \in Int /\ s \in Int  BY <1>3, SMT
  <2>2. P = <<r, s>>  BY DEF Mul
  <2>3. Det(c, d, C, D) = <<m - r, n - s>>  BY <2>1, DetIs
  <2> HIDE DEF m, n, r, s, P
  <2>4. m - r = Q /\ n - s = 0
    <3>1. <<m - r, n - s>> = <<Q, 0>>  BY <2>3
    <3> QED BY <3>1
  <2> QED BY <1>1, <2>1, <2>2, <2>4
<1>6. m * c[1] + n * c[2] = R * D[1] /\ n * c[1] - m * c[2] = R * D[2]
  <2>1. R = c[1] * c[1] + c[2] * c[2]  BY DEF Resultant, SqNorm
  <2> QED BY <1>3, <2>1, SMT
<1>7. p - R * D[1] = Q * (-c[1]) /\ q - R * D[2] = Q * c[2]
  <2> HIDE DEF m, n, P, R
  <2>1. (m - Q) * c[1] = m * c[1] - Q * c[1] /\ (m - Q) * c[2] = m * c[2] - Q * c[2]
    BY <1>1, <1>3, <1>5, SMT
  <2>2. p = (m * c[1] - Q * c[1]) + n * c[2] /\ q = n * c[1] - (m * c[2] - Q * c[2])
    BY <1>5, <2>1, Zenon
  <2>3. /\ m * c[1] \in Int /\ m * c[2] \in Int /\ n * c[1] \in Int /\ n * c[2] \in Int
        /\ Q * c[1] \in Int /\ Q * c[2] \in Int /\ Q * (-c[1]) = -(Q * c[1])
    BY <1>1, <1>3, <1>5, SMT
  <2> DEFINE s1 == m * c[1]
             s2 == m * c[2]
             s3 == n * c[1]
             s4 == n * c[2]
             s5 == Q * c[1]
             s6 == Q * c[2]
             s7 == R * D[1]
             s8 == R * D[2]
             s9 == Q * (-c[1])
  <2>4. /\ p = (s1 - s5) + s4 /\ q = s3 - (s2 - s6) /\ s1 + s4 = s7 /\ s3 - s2 = s8 /\ s9 = -s5
        /\ s1 \in Int /\ s2 \in Int /\ s3 \in Int /\ s4 \in Int /\ s5 \in Int /\ s6 \in Int
    BY <1>6, <2>2, <2>3, Zenon
  <2> HIDE DEF p, q, s1, s2, s3, s4, s5, s6, s7, s8, s9
  <2>5. p - s7 = s9 /\ q - s8 = s6  BY <2>4
  <2> QED BY <2>5, Zenon DEF s6, s7, s8, s9
<1>8. p \in Int /\ q \in Int  BY <1>3, <1>4, SMT
<1>9. Quot(P, c) = <<(i * (p % Q)) % Q, (i * (q % Q)) % Q>>
  <2> HIDE DEF P
  <2> QED BY <1>4, QuotIs
<1>10. Divides(Q, p - R * D[1]) /\ Divides(Q, q - R * D[2])
  <2>1. -c[1] \in Int  BY <1>3
  <2>2. Divides(Q, Q * (-c[1])) /\ Divides(Q, Q * c[2])  BY <1>1, <1>3, <2>1, DividesMultiple
  <2> QED BY <1>7, <2>2, Zenon
<1> HIDE DEF i, R, p, q
<1>11. (i * (p % Q)) % Q = D[1] % Q /\ (i * (q % Q)) % Q = D[2] % Q
  <2>1. \A z \in Int, w \in Int : Divides(Q, w - R * z) => (i * (w % Q)) % Q = z % Q
    BY <1>1, <1>2, InverseCancels
  <2> QED BY <1>3, <1>8, <1>10, <2>1, Zenon
<1> QED BY <1>9, <1>11, Zenon

(* The quotient by f, times f. *)
LEMMA QuotientTimes ==
  ASSUME NEW c \in IntPair, NEW d \in IntPair, Invertible(c)
  PROVE  /\ Modulo(Mul(Quot(d, c), c)) = Modulo(d)
         /\ Quot(d, c) \in [1..2 -> 0..(Q - 1)]
<1> DEFINE i == InvQ(Resultant(c) % Q)
           R == Resultant(c)
           p == d[1] * c[1] + d[2] * c[2]
           q == d[2] * c[1] - d[1] * c[2]
           h == (i * (p % Q)) % Q
           k == (i * (q % Q)) % Q
           e1 == d[1]
           e2 == d[2]
           c1 == c[1]
           c2 == c[2]
<1>1. Q \in Nat /\ Q > 1 /\ Q \in Int  BY KeyAssumption
<1>2. i \in Int /\ ((R % Q) * i) % Q = 1 /\ R \in Int  BY InverseIs
<1>3. c1 \in Int /\ c2 \in Int /\ e1 \in Int /\ e2 \in Int  BY DEF IntPair
<1>4. p \in Int /\ q \in Int  BY <1>3, SMT
<1>5. Quot(d, c) = <<h, k>>  BY QuotIs
<1>6. R = c1 * c1 + c2 * c2  BY DEF Resultant, SqNorm
<1>7. p * c1 - q * c2 = R * e1 /\ p * c2 + q * c1 = R * e2
  BY <1>3, <1>6, SMT
<1> HIDE DEF i, R, p, q, h, k, e1, e2, c1, c2
<1>8. ASSUME NEW w \in Int
      PROVE  /\ (i * (w % Q)) % Q \in 0..(Q - 1)
             /\ Divides(Q, ((i * (w % Q)) % Q) - i * w)
  <2> DEFINE v == w % Q
             z == i * v
             t == z % Q
  <2>1. v \in Int /\ Divides(Q, w - v) /\ w - v \in Int  BY <1>1, ModIs
  <2>2. z \in Int  BY <1>2, <2>1, SMT
  <2> HIDE DEF v, z
  <2>3. t \in 0..(Q - 1) /\ Divides(Q, z - t)  BY <1>1, <2>2, ModIs
  <2> HIDE DEF t
  <2> DEFINE o == i * (w - v)
  <2>4. Divides(Q, o)  BY <1>1, <1>2, <2>1, DividesTimes
  <2>5. o = i * w - z /\ i * w \in Int  BY <1>2, <2>1, SMT DEF z
  <2> DEFINE s == i * w
  <2>6. s \in Int /\ o = s - z /\ o \in Int /\ z - t \in Int  BY <2>2, <2>3, <2>5
  <2> HIDE DEF o, s
  <2>7. Divides(Q, o + (z - t))  BY <1>1, <2>3, <2>4, <2>6, DividesSum
  <2>8. Divides(Q, 0 - (o + (z - t)))
    <3>1. Divides(Q, 0)
      <4>1. Q * 0 = 0 /\ 0 \in Int  BY <1>1
      <4> QED BY <4>1 DEF Divides
    <3>2. o + (z - t) \in Int /\ 0 \in Int  BY <2>6
    <3> QED BY <1>1, <2>7, <3>1, <3>2, DividesSum
  <2>9. 0 - (o + (z - t)) = t - s  BY <2>2, <2>3, <2>6
  <2> QED BY <2>3, <2>8, <2>9 DEF s, t, z, v
<1>9. /\ h \in 0..(Q - 1) /\ k \in 0..(Q - 1) /\ h \in Int /\ k \in Int
      /\ Divides(Q, h - i * p) /\ Divides(Q, k - i * q)
  <2>1. h \in 0..(Q - 1) /\ k \in 0..(Q - 1) /\ Divides(Q, h - i * p) /\ Divides(Q, k - i * q)
    BY <1>4, <1>8, Zenon DEF h, k
  <2> QED BY <1>1, <2>1
<1>10. Divides(Q, i * R - 1)
  <2> DEFINE s == R % Q
             z == s * i
  <2>1. s \in Int /\ Divides(Q, R - s) /\ R - s \in Int  BY <1>1, <1>2, ModIs
  <2> HIDE DEF s
  <2>2. z \in Int  BY <1>2, <2>1, SMT
  <2>3. z % Q = 1  BY <1>2 DEF s
  <2> DEFINE o == i * (R - s)
  <2>4. o = i * R - z /\ i * R \in Int /\ o \in Int  BY <1>2, <2>1, SMT
  <2>5. Divides(Q, o)  BY <1>1, <1>2, <2>1, DividesTimes
  <2> HIDE DEF z, o
  <2>6. Divides(Q, z - 1)
    <3>1. Divides(Q, z - (z % Q))  BY <1>1, <2>2, ModIs
    <3> QED BY <2>3, <3>1
  <2> DEFINE t == i * R
  <2>7. t \in Int /\ o = t - z  BY <2>4
  <2> HIDE DEF t
  <2> DEFINE x1 == z - 1
  <2>8. x1 \in Int /\ Divides(Q, x1) /\ o + x1 = t - 1  BY <2>2, <2>6, <2>7
  <2> HIDE DEF x1
  <2>9. Divides(Q, o + x1)  BY <1>1, <2>4, <2>5, <2>8, DividesSum
  <2> QED BY <2>8, <2>9 DEF t
<1> DEFINE g1 == h - i * p
           g2 == k - i * q
           g3 == i * R - 1
<1>11. g1 \in Int /\ g2 \in Int /\ g3 \in Int
  <2>1. i * p \in Int /\ i * q \in Int /\ i * R \in Int  BY <1>2, <1>4, SMT
  <2> QED BY <1>9, <2>1
<1>12. /\ g1 * c1 - g2 * c2 + e1 * g3 = (h * c1 - k * c2) - e1
       /\ g1 * c2 + g2 * c1 + e2 * g3 = (h * c2 + k * c1) - e2
  <2>1. (h - i * p) * c1 - (k - i * q) * c2 = (h * c1 - k * c2) - i * (p * c1 - q * c2)
    BY <1>2, <1>3, <1>4, <1>9, SMT
  <2>2. (h - i * p) * c2 + (k - i * q) * c1 = (h * c2 + k * c1) - i * (p * c2 + q * c1)
    BY <1>2, <1>3, <1>4, <1>9, SMT
  <2>3. e1 * (i * R - 1) = i * (R * e1) - e1 /\ e2 * (i * R - 1) = i * (R * e2) - e2
    BY <1>2, <1>3, SMT
  <2> DEFINE t1 == h * c1 - k * c2
             t2 == h * c2 + k * c1
             t3 == i * (R * e1)
             t4 == i * (R * e2)
             t5 == g1 * c1 - g2 * c2
             t6 == g1 * c2 + g2 * c1
             t7 == e1 * g3
             t8 == e2 * g3
  <2>4. t1 \in Int /\ t2 \in Int /\ t3 \in Int /\ t4 \in Int  BY <1>2, <1>3, <1>9, SMT
  <2>5. t5 = t1 - t3 /\ t6 = t2 - t4 /\ t7 = t3 - e1 /\ t8 = t4 - e2
    BY <1>7, <2>1, <2>2, <2>3, Zenon
  <2> HIDE DEF t1, t2, t3, t4, t5, t6, t7, t8
  <2>6. t5 + t7 = t1 - e1 /\ t6 + t8 = t2 - e2  BY <1>3, <2>4, <2>5
  <2> QED BY <2>6, Zenon DEF t1, t2, t5, t6, t7, t8
<1>13. Divides(Q, g1) /\ Divides(Q, g2) /\ Divides(Q, g3)  BY <1>9, <1>10
<1> HIDE DEF g1, g2, g3
<1>14. /\ g1 * c1 \in Int /\ g2 * c2 \in Int /\ e1 * g3 \in Int
       /\ g1 * c2 \in Int /\ g2 * c1 \in Int /\ e2 * g3 \in Int
       /\ Divides(Q, g1 * c1) /\ Divides(Q, g2 * c2) /\ Divides(Q, e1 * g3)
       /\ Divides(Q, g1 * c2) /\ Divides(Q, g2 * c1) /\ Divides(Q, e2 * g3)
  <2>1. /\ g1 * c1 \in Int /\ g2 * c2 \in Int /\ e1 * g3 \in Int
        /\ g1 * c2 \in Int /\ g2 * c1 \in Int /\ e2 * g3 \in Int
    BY <1>3, <1>11, SMT
  <2>2. \A m \in Int, n \in Int : Divides(Q, m) => Divides(Q, m * n) /\ Divides(Q, n * m)
    BY <1>1, DividesTimes
  <2> QED BY <1>3, <1>11, <1>13, <2>1, <2>2, Zenon
<1>15. \A m \in Int, n \in Int, o \in Int :
         Divides(Q, m) /\ Divides(Q, n) /\ Divides(Q, o)
           => Divides(Q, m - n + o) /\ Divides(Q, m + n + o)
  <2> TAKE m \in Int, n \in Int, o \in Int
  <2> HAVE Divides(Q, m) /\ Divides(Q, n) /\ Divides(Q, o)
  <2>1. Divides(Q, m - n) /\ Divides(Q, m + n) /\ m - n \in Int /\ m + n \in Int
    BY <1>1, DividesSum
  <2> QED BY <1>1, <2>1, DividesSum
<1>16. Divides(Q, (h * c1 - k * c2) - e1) /\ Divides(Q, (h * c2 + k * c1) - e2)
  BY <1>12, <1>14, <1>15, Zenon
<1>17. Mul(<<h, k>>, c) = <<h * c1 - k * c2, h * c2 + k * c1>>  BY DEF Mul, c1, c2
<1> DEFINE z1 == h * c1 - k * c2
           z2 == h * c2 + k * c1
<1>18. z1 \in Int /\ z2 \in Int  BY <1>3, <1>9, SMT
<1> HIDE DEF z1, z2
<1>19. Divides(Q, z1 - e1) /\ Divides(Q, z2 - e2) /\ Mul(<<h, k>>, c) = <<z1, z2>>
  BY <1>16, <1>17, Zenon DEF z1, z2
<1>20. z1 % Q = e1 % Q /\ z2 % Q = e2 % Q
  <2>1. \A m \in Int, n \in Int : Divides(Q, m - n) => m % Q = n % Q
    <3>1. Q \in Nat /\ Q > 0  BY <1>1
    <3> QED BY <3>1, SameRemainder, Zenon
  <2> QED BY <1>3, <1>18, <1>19, <2>1, Zenon
<1>21. Modulo(<<z1, z2>>) = <<z1 % Q, z2 % Q>> /\ Modulo(d) = <<e1 % Q, e2 % Q>>
  BY DEF Modulo, e1, e2
<1>22. Modulo(Mul(Quot(d, c), c)) = Modulo(d)  BY <1>5, <1>19, <1>20, <1>21, Zenon
<1>23. <<h, k>> \in [1..2 -> 0..(Q - 1)]  BY <1>9
<1> QED BY <1>5, <1>22, <1>23

(* What keygen has tested of f and g, and what it has when it is done.     *)
Good(c, d) == Drawn(c) /\ Drawn(d) /\ Encodable(c) /\ Encodable(d) /\ Invertible(c)

Complete(c, d, C) ==
  /\ Good(c, d) /\ C \in Pair(127) /\ Small(C)
  /\ \E D \in Pair(127) : Det(c, d, C, D) = <<Q, 0>>

(* The two keys, and what they are good for. *)
PrivateKey(c, d, C) ==
  Code(c, max_fg_bits) \o Code(d, max_fg_bits) \o Code(C, max_FG_bits)

PublicKey(c, d) == modq_encode(Quot(d, c), Bytes(28))

Matches(c, d, C, D, p) ==
  Det(c, d, C, D) = <<Q, 0>> /\ Modulo(Mul(modq_decode(p, 2).x, c)) = Modulo(d)

LEMMA FieldsFit ==
  ASSUME NEW c, NEW d, NEW C, Complete(c, d, C)
  PROVE  /\ c \in IntPair /\ d \in IntPair /\ C \in IntPair
         /\ \A i \in 1..2 :
              /\ c[i] \in (-(2^(max_fg_bits - 1) - 1))..(2^(max_fg_bits - 1) - 1)
              /\ d[i] \in (-(2^(max_fg_bits - 1) - 1))..(2^(max_fg_bits - 1) - 1)
              /\ C[i] \in (-(2^(max_FG_bits - 1) - 1))..(2^(max_FG_bits - 1) - 1)
<1> DEFINE l == 2^(max_fg_bits - 1)
           m == 2^(max_FG_bits - 1)
<1>1. c \in IntPair /\ d \in IntPair /\ C \in IntPair
  BY DrawnNorm, SmallPair DEF Complete, Good
<1>2. l - 1 \in 1..127 /\ l \in Int
  <2>1. l - 1 \in 1..127  BY KeyAssumption, PowerSmall
  <2>2. l \in Nat
    <3>1. max_fg_bits - 1 \in 0..14  BY KeyAssumption
    <3> QED BY <3>1, PowerNat
  <2> QED BY <2>1, <2>2
<1>3. \A i \in 1..2 : c[i] < l /\ c[i] > -l /\ d[i] < l /\ d[i] > -l
  BY DEF Complete, Good, Encodable
<1>4. \A i \in 1..2 : C[i] \in (-(m - 1))..(m - 1)  BY DEF Complete, Small
<1>5. \A i \in 1..2 : c[i] \in Int /\ d[i] \in Int  BY <1>1 DEF IntPair
<1> HIDE DEF l, m
<1>6. \A i \in 1..2 : c[i] \in (-(l - 1))..(l - 1) /\ d[i] \in (-(l - 1))..(l - 1)
  BY <1>2, <1>3, <1>5
<1> QED BY <1>1, <1>4, <1>6 DEF l, m

(* The encodings that keygen makes are there, and as long as they must be. *)
LEMMA KeyEncoded ==
  ASSUME NEW c, NEW d, NEW C, Complete(c, d, C)
  PROVE  LET ec == trim_encode(c, max_fg_bits, PrivRoom)
             ed == trim_encode(d, max_fg_bits, PrivRoom - Len(ec))
             eC == trim_encode(C, max_FG_bits, PrivRoom - Len(ec) - Len(ed))
         IN  /\ ec # <<>> /\ ed # <<>> /\ eC # <<>>
             /\ ec \o ed \o eC = PrivateKey(c, d, C)
             /\ Len(ec \o ed \o eC) = PrivRoom
<1> DEFINE k == max_fg_bits
           l == max_FG_bits
           m == Bytes(2 * k)
           n == Bytes(2 * l)
           ec == trim_encode(c, k, PrivRoom)
           ed == trim_encode(d, k, PrivRoom - Len(ec))
           eC == trim_encode(C, l, PrivRoom - Len(ec) - Len(ed))
<1>1. k \in 2..8 /\ l \in 2..8  BY KeyAssumption
<1>2. m \in Nat /\ n \in Nat
  <2>1. 2 * k \in Nat /\ 2 * l \in Nat  BY <1>1
  <2> QED BY <2>1, BytesIs
<1>3. PrivRoom = m * 2 + n  BY DEF PrivRoom
<1>4. /\ c \in IntPair /\ d \in IntPair /\ C \in IntPair
      /\ \A i \in 1..2 : /\ c[i] \in (-(2^(k - 1) - 1))..(2^(k - 1) - 1)
                         /\ d[i] \in (-(2^(k - 1) - 1))..(2^(k - 1) - 1)
                         /\ C[i] \in (-(2^(l - 1) - 1))..(2^(l - 1) - 1)
  BY FieldsFit
<1>5. \A room \in Nat : m <= room =>
        /\ trim_encode(c, k, room) = Code(c, k) /\ trim_encode(d, k, room) = Code(d, k)
        /\ Code(c, k) \in Seq(Byte) /\ Len(Code(c, k)) = m
        /\ Code(d, k) \in Seq(Byte) /\ Len(Code(d, k)) = m /\ m > 0
  <2> TAKE room \in Nat
  <2> HAVE m <= room
  <2> QED BY <1>1, <1>4, EncodedPair
<1>6. \A room \in Nat : n <= room =>
        /\ trim_encode(C, l, room) = Code(C, l)
        /\ Code(C, l) \in Seq(Byte) /\ Len(Code(C, l)) = n /\ n > 0
  <2> TAKE room \in Nat
  <2> HAVE n <= room
  <2> QED BY <1>1, <1>4, EncodedPair
<1> HIDE DEF m, n
<1>7. ec = Code(c, k) /\ ec \in Seq(Byte) /\ Len(ec) = m /\ m > 0
  <2>1. PrivRoom \in Nat /\ m <= PrivRoom  BY <1>2, <1>3
  <2> QED BY <1>5, <2>1
<1>8. ed = Code(d, k) /\ ed \in Seq(Byte) /\ Len(ed) = m
  <2> HIDE DEF ec
  <2>1. PrivRoom - Len(ec) \in Nat /\ m <= PrivRoom - Len(ec)  BY <1>2, <1>3, <1>7
  <2> QED BY <1>5, <2>1
<1>9. eC = Code(C, l) /\ eC \in Seq(Byte) /\ Len(eC) = n /\ n > 0
  <2> HIDE DEF ec, ed
  <2>1. PrivRoom - Len(ec) - Len(ed) \in Nat /\ n <= PrivRoom - Len(ec) - Len(ed)
    BY <1>2, <1>3, <1>7, <1>8
  <2> QED BY <1>6, <2>1
<1> HIDE DEF ec, ed, eC
<1>10. ec \o ed \o eC = PrivateKey(c, d, C)  BY <1>7, <1>8, <1>9 DEF PrivateKey
<1>11. Len(ec \o ed \o eC) = PrivRoom
  <2>1. Len(ec \o ed \o eC) = Len(ec) + Len(ed) + Len(eC)  BY <1>7, <1>8, <1>9
  <2> QED BY <1>2, <1>3, <1>7, <1>8, <1>9, <2>1
<1>12. ec # <<>> /\ ed # <<>> /\ eC # <<>>  BY <1>2, <1>7, <1>8, <1>9
<1> QED BY <1>10, <1>11, <1>12 DEF ec, ed, eC

(* The signer's decoder finds them again. *)
LEMMA KeyDecoded ==
  ASSUME NEW c, NEW d, NEW C, Complete(c, d, C)
  PROVE  LET s  == PrivateKey(c, d, C)
             dc == trim_decode(s, max_fg_bits, 2)
             dd == trim_decode(SubSeq(s, dc.v + 1, Len(s)), max_fg_bits, 2)
             dC == trim_decode(SubSeq(s, dc.v + dd.v + 1, Len(s)), max_FG_bits, 2)
         IN  /\ dc.x = c /\ dd.x = d /\ dC.x = C
             /\ dc.v # 0 /\ dd.v # 0 /\ dC.v # 0 /\ dc.v + dd.v + dC.v = Len(s)
<1> DEFINE k == max_fg_bits
           l == max_FG_bits
           m == Bytes(2 * k)
           n == Bytes(2 * l)
           ec == Code(c, k)
           ed == Code(d, k)
           eC == Code(C, l)
           s  == PrivateKey(c, d, C)
           dc == trim_decode(s, k, 2)
           dd == trim_decode(SubSeq(s, dc.v + 1, Len(s)), k, 2)
           dC == trim_decode(SubSeq(s, dc.v + dd.v + 1, Len(s)), l, 2)
<1>1. k \in 2..8 /\ l \in 2..8  BY KeyAssumption
<1>2. /\ c \in IntPair /\ d \in IntPair /\ C \in IntPair
      /\ \A i \in 1..2 : /\ c[i] \in (-(2^(k - 1) - 1))..(2^(k - 1) - 1)
                         /\ d[i] \in (-(2^(k - 1) - 1))..(2^(k - 1) - 1)
                         /\ C[i] \in (-(2^(l - 1) - 1))..(2^(l - 1) - 1)
  BY FieldsFit
<1>3. m \in Nat /\ n \in Nat
  <2>1. 2 * k \in Nat /\ 2 * l \in Nat  BY <1>1
  <2> QED BY <2>1, BytesIs
<1>4. /\ ec \in Seq(Byte) /\ Len(ec) = m /\ m > 0
      /\ ed \in Seq(Byte) /\ Len(ed) = m /\ eC \in Seq(Byte) /\ Len(eC) = n /\ n > 0
  <2>1. m <= m /\ n <= n  BY <1>3
  <2>2. ec \in Seq(Byte) /\ Len(ec) = m /\ m > 0  BY <1>1, <1>2, <1>3, <2>1, EncodedPair
  <2>3. ed \in Seq(Byte) /\ Len(ed) = m  BY <1>1, <1>2, <1>3, <2>1, EncodedPair
  <2>4. eC \in Seq(Byte) /\ Len(eC) = n /\ n > 0  BY <1>1, <1>2, <1>3, <2>1, EncodedPair
  <2> QED BY <2>2, <2>3, <2>4
<1>5. \A e \in Seq(Byte) :
        /\ trim_decode(ec \o e, k, 2) = [x |-> c, v |-> m]
        /\ trim_decode(ed \o e, k, 2) = [x |-> d, v |-> m]
        /\ trim_decode(eC \o e, l, 2) = [x |-> C, v |-> n]
  <2> TAKE e \in Seq(Byte)
  <2>1. trim_decode(ec \o e, k, 2) = [x |-> c, v |-> m]  BY <1>1, <1>2, DecodedAgain
  <2>2. trim_decode(ed \o e, k, 2) = [x |-> d, v |-> m]  BY <1>1, <1>2, DecodedAgain
  <2>3. trim_decode(eC \o e, l, 2) = [x |-> C, v |-> n]  BY <1>1, <1>2, DecodedAgain
  <2> QED BY <2>1, <2>2, <2>3
<1>6. s = ec \o ed \o eC  BY DEF PrivateKey
<1> HIDE DEF m, n, ec, ed, eC, s, k, l
<1>7. /\ s = ec \o (ed \o eC) /\ Len(s) = m + m + n
      /\ SubSeq(s, m + 1, Len(s)) = ed \o eC
      /\ SubSeq(s, m + m + 1, Len(s)) = eC \o <<>> /\ ed \o eC \in Seq(Byte)
  <2>2. /\ s = ec \o (ed \o eC) /\ Len(s) = Len(ec) + Len(ed) + Len(eC)
        /\ SubSeq(s, Len(ec) + 1, Len(s)) = ed \o eC
        /\ SubSeq(s, Len(ec) + Len(ed) + 1, Len(s)) = eC \o <<>>
        /\ ed \o eC \in Seq(Byte)
    <3>1. PICK p1 \in Seq(Byte) : p1 = ec  BY <1>4
    <3>2. PICK p2 \in Seq(Byte) : p2 = ed  BY <1>4
    <3>3. PICK p3 \in Seq(Byte) : p3 = eC  BY <1>4
    <3>4. PICK z : z = s  OBVIOUS
    <3>5. z = p1 \o p2 \o p3  BY <1>6, <3>1, <3>2, <3>3, <3>4
    <3>6. /\ z = p1 \o (p2 \o p3) /\ Len(z) = Len(p1) + Len(p2) + Len(p3)
          /\ SubSeq(z, Len(p1) + 1, Len(z)) = p2 \o p3
          /\ SubSeq(z, Len(p1) + Len(p2) + 1, Len(z)) = p3 \o <<>>
          /\ p2 \o p3 \in Seq(Byte)
      BY <3>5, ThreeParts
    <3> QED BY <3>1, <3>2, <3>3, <3>4, <3>6
  <2> QED BY <1>4, <2>2
<1>8. dc = [x |-> c, v |-> m]  BY <1>5, <1>7
<1>9. dd = [x |-> d, v |-> m]
  <2>1. dc.v = m  BY <1>8
  <2>2. SubSeq(s, dc.v + 1, Len(s)) = ed \o eC  BY <1>7, <2>1
  <2> QED BY <1>4, <1>5, <2>2
<1>10. dC = [x |-> C, v |-> n]
  <2>1. dc.v = m /\ dd.v = m  BY <1>8, <1>9
  <2> HIDE DEF dc, dd
  <2>2. SubSeq(s, dc.v + dd.v + 1, Len(s)) = eC \o <<>>  BY <1>7, <2>1
  <2>3. <<>> \in Seq(Byte)  OBVIOUS
  <2> QED BY <1>5, <2>2, <2>3
<1> HIDE DEF dc, dd, dC
<1>11. dc.x = c /\ dd.x = d /\ dC.x = C /\ dc.v = m /\ dd.v = m /\ dC.v = n
  BY <1>8, <1>9, <1>10
<1>12. m # 0 /\ n # 0  BY <1>3, <1>4
<1> QED BY <1>7, <1>11, <1>12 DEF dc, dd, dC, s, k, l

(* The recentering of a residue. *)
LEMMA Recentred ==
  ASSUME NEW q \in Nat, q >= 256, NEW z \in Int, -127 <= z, z <= 127
  PROVE  (IF z % q >= q \div 2 THEN (z % q) - q ELSE z % q) = z
<1>1. q \in Nat /\ q > 0 /\ z \in Int  OBVIOUS
<1> DEFINE h == q \div 2
           t == z % q
<1>2. h \in Nat /\ h >= 128 /\ 2 * h <= q  OBVIOUS
<1> HIDE DEF h
<1>3. CASE z >= 0
  <2>1. z \in 0..(q - 1)  BY <1>1, <1>3
  <2>2. t = z  BY <1>1, <2>1, ModSmall, Zenon
  <2> HIDE DEF t
  <2>3. ~(t >= h)  BY <1>2, <2>2
  <2> QED BY <2>2, <2>3 DEF t, h
<1>4. CASE z < 0
  <2> DEFINE m == z + q
  <2>1. m \in 0..(q - 1) /\ m \in Int /\ m - z = q  BY <1>1, <1>4
  <2>2. Divides(q, m - z)
    <3>1. q = q * 1 /\ 1 \in Int  BY <1>1
    <3> QED BY <1>1, <2>1, <3>1 DEF Divides
  <2> HIDE DEF m
  <2>3. t = z + q
    <3>1. m % q = z % q  BY <1>1, <2>1, <2>2, SameRemainder
    <3>2. m % q = m  BY <1>1, <2>1, ModSmall
    <3> QED BY <3>1, <3>2 DEF m
  <2> HIDE DEF t
  <2>4. t >= h /\ t - q = z  BY <1>1, <1>2, <2>3
  <2> QED BY <2>4 DEF t, h
<1> QED BY <1>3, <1>4

(* The public key. *)
LEMMA KeyPublished ==
  ASSUME NEW c, NEW d, NEW C, Complete(c, d, C), Q >= 256, Q <= 12289
  PROVE  Modulo(Mul(modq_decode(PublicKey(c, d), 2).x, c)) = Modulo(d)
<1> DEFINE h == Quot(d, c)
           p == PublicKey(c, d)
<1>1. c \in IntPair /\ d \in IntPair /\ Invertible(c)
  BY DrawnNorm DEF Complete, Good
<1>2. h \in [1..2 -> 0..(Q - 1)] /\ Modulo(Mul(h, c)) = Modulo(d)
  BY <1>1, QuotientTimes
<1> HIDE DEF h
<1>3. \A i \in 1..2 : h[i] \in Residue
  <2>1. Q - 1 <= 12288 /\ Q \in Nat  BY KeyAssumption
  <2>2. \A z \in 0..(Q - 1) : z \in Residue  BY <2>1 DEF Residue
  <2> QED BY <1>2, <2>2
<1>4. h \in Seq(Int) /\ Len(h) = 2
  <2>1. \A i \in 1..2 : h[i] \in Int
    <3>1. \A z \in Residue : z \in Int  BY DEF Residue
    <3> QED BY <1>3, <3>1
  <2>2. h \in IntPair  BY <1>2, <2>1 DEF IntPair
  <2> QED BY <2>2, PairIsSeq
<1>5. Bytes(14 * Len(h)) <= Bytes(28) /\ Bytes(28) \in Nat
  <2>1. 14 * Len(h) = 28 /\ 28 \in Nat  BY <1>4
  <2>2. Bytes(28) \in Nat  BY <2>1, BytesIs
  <2> QED BY <2>1, <2>2
<1>6. p = modq_encode(h, Bytes(28))  BY DEF PublicKey, h
<1>7. p \in Seq(Byte)  BY <1>4, <1>6, ModqEncodeType
<1> HIDE DEF p
<1>8. Begins(p, p)  BY <1>7 DEF Begins
<1>9. modq_decode(p, Len(h)) = [x |-> h, v |-> Bytes(14 * Len(h))]
  <2>1. \A u \in 1..Len(h) : h[u] \in Residue  BY <1>3, <1>4
  <2>2. Begins(p, modq_encode(h, Bytes(28)))  BY <1>6, <1>8
  <2> DEFINE r == Bytes(28)
  <2>3. r \in Nat /\ Bytes(14 * Len(h)) <= r  BY <1>5
  <2> HIDE DEF r
  <2>4. PICK z \in Seq(Int) : z = h  BY <1>4
  <2>5. PICK s \in Seq(Byte) : s = p  BY <1>7
  <2>6. /\ \A u \in 1..Len(z) : z[u] \in Residue
        /\ Begins(s, modq_encode(z, r)) /\ Bytes(14 * Len(z)) <= r
    BY <2>1, <2>2, <2>3, <2>4, <2>5 DEF r
  <2>7. modq_decode(s, Len(z)) = [x |-> z, v |-> Bytes(14 * Len(z))]
    BY <2>3, <2>6, ModqRoundTrip
  <2> QED BY <2>4, <2>5, <2>7
<1>10. modq_decode(p, 2).x = h
  <2> DEFINE s == Bytes(14 * Len(h))
  <2> HIDE DEF s
  <2>1. modq_decode(p, 2) = [x |-> h, v |-> s]  BY <1>4, <1>9 DEF s
  <2> QED BY <2>1
<1> QED BY <1>2, <1>10 DEF p

(***************************************************************************)
(* The inductive invariant: what each stage has in its arrays.             *)
(***************************************************************************)
Stages ==
  {"seed", "draw", "check", "deepest", "bezout", "intermediate", "small", "equation",
   "encode", "public", "load", "done"}

Arrays ==
  /\ f \in Poly(127) /\ g \in Poly(127) /\ F \in Poly(127) /\ G \in Poly(127)
  /\ sk \in Seq(Byte) /\ pk \in Seq(Byte)
  /\ err \in {0, RANDOM, FORMAT, INTERNAL}

Held ==
  /\ pc \in Stages
  /\ pc \in {"check", "deepest", "bezout", "intermediate", "small", "equation", "encode", "public"}
       => Drawn(f) /\ Drawn(g)
  /\ pc \in {"deepest", "bezout", "intermediate", "small", "equation"} => ShortBasis
  /\ pc = "bezout" => x = SqNorm(f) /\ y = SqNorm(g)
  /\ pc = "intermediate" =>
       bF \in Int /\ bG \in Int /\ Solves(f, g, SqNorm(f) * bG - SqNorm(g) * bF)
  /\ pc = "small" => bF \in IntPair /\ bG \in IntPair /\ Exact(f, g, bF, bG)
  /\ pc = "equation" => F \in Pair(127) /\ G \in Pair(127) /\ Exact(f, g, F, G)
  /\ pc = "encode" => F \in Pair(127)

KeyInv == SeedInv /\ BezoutInv /\ Arrays /\ Held

LEMMA RestartKept ==
  ASSUME Restart, Arrays
  PROVE  Arrays' /\ Held'
<1>1. /\ pc' = "draw" /\ f' = Stale /\ g' = Stale /\ F' = Stale /\ G' = Stale
      /\ sk' = sk /\ pk' = pk /\ err' = err
  BY DEF Restart, keys
<1>2. Arrays'  BY <1>1 DEF Arrays, Poly
<1>3. Held'  BY <1>1 DEF Held, Stages
<1> QED BY <1>2, <1>3

LEMMA InitPrngKept ==
  ASSUME KeyInv, InitPrng
  PROVE  Arrays' /\ Held'
<1>1. /\ f' = f /\ g' = g /\ F' = F /\ G' = G /\ sk' = sk /\ pk' = pk
      /\ (err' = err \/ err' = RANDOM) /\ pc' \in {"seed", "draw", "done"}
  BY DEF InitPrng, polys
<1>2. Arrays'  BY <1>1 DEF KeyInv, Arrays
<1>3. Held'  BY <1>1 DEF Held, Stages
<1> QED BY <1>2, <1>3

LEMMA DrawKept ==
  ASSUME KeyInv, pc = "draw", NEW p \in Fs, NEW q \in Gs, Draw(p, q)
  PROVE  Arrays' /\ Held'
<1>1. /\ f' = p /\ g' = q /\ F' = F /\ G' = G /\ sk' = sk /\ pk' = pk /\ err' = err
      /\ pc' = "check" /\ OddSum(p) /\ OddSum(q)
  BY DEF Draw, keys
<1>2. p \in Pair(127) /\ q \in Pair(127)  BY KeyAssumption DEF Pair
<1>3. SqNorm(p) < Full /\ SqNorm(q) < Full  BY RoomAssumption, Zenon DEF SqNorm
<1>4. Drawn(p) /\ Drawn(q)  BY <1>1, <1>2, <1>3 DEF Drawn
<1>5. Arrays'  BY <1>1, <1>2 DEF KeyInv, Arrays, Poly, Pair
<1>6. Drawn(f)' /\ Drawn(g)'  BY <1>1, <1>4 DEF Drawn, Pair, OddSum, SqNorm, Full
<1>7. Held'  BY <1>1, <1>6 DEF Held, Stages
<1> QED BY <1>5, <1>7

LEMMA CheckKept ==
  ASSUME KeyInv, Check
  PROVE  Arrays' /\ Held'
<1>1. CASE Restart  BY <1>1, RestartKept DEF KeyInv
<1>2. CASE ShortBasis /\ pc' = "deepest" /\ UNCHANGED <<polys, keys>>
  <2>1. /\ f' = f /\ g' = g /\ F' = F /\ G' = G /\ sk' = sk /\ pk' = pk /\ err' = err
        /\ pc' = "deepest"
    BY <1>2 DEF polys, keys
  <2>2. Arrays'  BY <2>1 DEF KeyInv, Arrays
  <2>3. Drawn(f)' /\ Drawn(g)'
    BY <2>1 DEF Check, KeyInv, Held, Drawn, Pair, OddSum, SqNorm, Full
  <2>4. ShortBasis'  BY <1>2, <2>1 DEF ShortBasis, SqNorm
  <2>5. Held'  BY <2>1, <2>3, <2>4 DEF Held, Stages
  <2> QED BY <2>2, <2>5
<1> QED BY <1>1, <1>2 DEF Check

LEMMA DeepestKept ==
  ASSUME KeyInv, Deepest
  PROVE  Arrays' /\ Held'
<1>1. /\ f' = f /\ g' = g /\ F' = F /\ G' = G /\ sk' = sk /\ pk' = pk /\ err' = err
      /\ pc' = "bezout" /\ pc = "deepest"
  BY DEF Deepest, polys, keys
<1>2. x' = SqNorm(f) /\ y' = SqNorm(g)  BY DEF Deepest, Call, Resultant
<1>3. Arrays'  BY <1>1 DEF KeyInv, Arrays
<1>4. Drawn(f)' /\ Drawn(g)'
  BY <1>1 DEF KeyInv, Held, Drawn, Pair, OddSum, SqNorm, Full
<1>5. ShortBasis'  BY <1>1 DEF KeyInv, Held, ShortBasis, SqNorm
<1>6. x' = SqNorm(f)' /\ y' = SqNorm(g)'  BY <1>1, <1>2 DEF SqNorm
<1>7. Held'  BY <1>1, <1>4, <1>5, <1>6 DEF Held, Stages
<1> QED BY <1>3, <1>7

LEMMA InBezoutKept ==
  ASSUME KeyInv, InBezout
  PROVE  Arrays' /\ Held'
<1>1. /\ f' = f /\ g' = g /\ F' = F /\ G' = G /\ sk' = sk /\ pk' = pk /\ err' = err
      /\ pc' = "bezout" /\ pc = "bezout"
  BY DEF InBezout, polys, keys
<1>2. x' = x /\ y' = y  BY DEF InBezout, BezoutNext, Reduce, Return
<1>3. Arrays'  BY <1>1 DEF KeyInv, Arrays
<1>4. Drawn(f)' /\ Drawn(g)'
  BY <1>1 DEF KeyInv, Held, Drawn, Pair, OddSum, SqNorm, Full
<1>5. ShortBasis'  BY <1>1 DEF KeyInv, Held, ShortBasis, SqNorm
<1>6. x' = SqNorm(f)' /\ y' = SqNorm(g)'  BY <1>1, <1>2 DEF KeyInv, Held, SqNorm
<1>7. Held'  BY <1>1, <1>4, <1>5, <1>6 DEF Held, Stages
<1> QED BY <1>3, <1>7

(* The product with q. *)
LEMMA MultiplyKept ==
  ASSUME KeyInv, Multiply
  PROVE  Arrays' /\ Held'
<1>1. CASE Restart  BY <1>1, RestartKept DEF KeyInv
<1>2. CASE /\ ret = 1 /\ bG' = Q * u0 /\ bF' = Q * v0
           /\ pc' = "intermediate" /\ UNCHANGED <<f, g, F, G, keys>>
  <2>1. /\ f' = f /\ g' = g /\ F' = F /\ G' = G /\ sk' = sk /\ pk' = pk /\ err' = err
        /\ pc' = "intermediate" /\ pc = "bezout"
    BY <1>2 DEF Multiply, keys
  <2>2. Arrays'  BY <2>1 DEF KeyInv, Arrays
  <2>3. Drawn(f) /\ Drawn(g) /\ ShortBasis /\ x = SqNorm(f) /\ y = SqNorm(g)
    BY <2>1 DEF KeyInv, Held
  <2>4. Drawn(f)' /\ Drawn(g)'  BY <2>1, <2>3 DEF Drawn, Pair, OddSum, SqNorm, Full
  <2>5. ShortBasis'  BY <2>1, <2>3 DEF ShortBasis, SqNorm
  <2>6. u0 \in Int /\ v0 \in Int /\ x \in Int /\ y \in Int /\ Q \in Int
    <3>1. x \in Nat /\ y \in Nat /\ u0 \in 0..y /\ v0 \in 0..(x - 1)
      BY DEF KeyInv, BezoutInv, BezoutTypeOK
    <3> QED BY <3>1, KeyAssumption
  <2>7. bF' \in Int /\ bG' \in Int  BY <1>2, <2>6, SMT
  <2>8. x * u0 - y * v0 = 1 \/ (y = 1 /\ x * u0 - y * v0 = 1 - x)
    BY <1>2, ReturnedOne DEF KeyInv
  <2>9. LET e == x * (Q * u0) - y * (Q * v0) IN e = Q \/ (y = 1 /\ e = Q * (1 - x))
    BY <2>6, <2>8, TimesQ
  <2>10. Solves(f, g, SqNorm(f) * bG' - SqNorm(g) * bF')
    <3>1. LET e == SqNorm(f) * bG' - SqNorm(g) * bF'
          IN  e = Q \/ (SqNorm(g) = 1 /\ e = Q * (1 - SqNorm(f)))
      BY <1>2, <2>3, <2>9, Zenon
    <3> QED BY <3>1, Zenon DEF Solves
  <2>11. Solves(f, g, SqNorm(f) * bG - SqNorm(g) * bF)'
    BY <2>1, <2>10, Zenon DEF Solves, SqNorm
  <2>12. Held'  BY <2>1, <2>4, <2>5, <2>7, <2>11 DEF Held, Stages
  <2> QED BY <2>2, <2>12
<1> QED BY <1>1, <1>2 DEF Multiply

(* Babai's reduction. *)
LEMMA IntermediateKept ==
  ASSUME KeyInv, Intermediate
  PROVE  Arrays' /\ Held'
<1>1. /\ f' = f /\ g' = g /\ F' = F /\ G' = G /\ sk' = sk /\ pk' = pk /\ err' = err
      /\ pc' = "small" /\ pc = "intermediate"
  BY DEF Intermediate, keys
<1>2. Arrays'  BY <1>1 DEF KeyInv, Arrays
<1>3. /\ Drawn(f) /\ Drawn(g) /\ ShortBasis /\ bF \in Int /\ bG \in Int
      /\ Solves(f, g, SqNorm(f) * bG - SqNorm(g) * bF)
  BY <1>1 DEF KeyInv, Held
<1>4. Drawn(f)' /\ Drawn(g)'  BY <1>1, <1>3 DEF Drawn, Pair, OddSum, SqNorm, Full
<1>5. ShortBasis'  BY <1>1, <1>3 DEF ShortBasis, SqNorm
<1> DEFINE F0 == Times(bF, Adj(g))
           G0 == Times(bG, Adj(f))
           n  == SqNorm(f) + SqNorm(g)
           t  == Plus(Mul(F0, Adj(f)), Mul(G0, Adj(g)))
<1>6. n \in Nat /\ n > 0
  <2>1. SqNorm(f) \in Nat /\ SqNorm(f) > 0 /\ SqNorm(g) \in Nat /\ SqNorm(g) > 0
    BY <1>3, DrawnNorm
  <2> QED BY <2>1
<1>7. t \in IntPair
  <2>1. f \in IntPair /\ g \in IntPair  BY <1>3, DrawnNorm
  <2>2. Adj(f) \in IntPair /\ Adj(g) \in IntPair  BY <1>3, <2>1, PairTypes
  <2>3. F0 \in IntPair /\ G0 \in IntPair  BY <1>3, <2>2, PairTypes
  <2>4. Mul(F0, Adj(f)) \in IntPair /\ Mul(G0, Adj(g)) \in IntPair
    <3> HIDE DEF F0, G0
    <3> QED BY <1>3, <2>2, <2>3, PairTypes
  <2> HIDE DEF F0, G0
  <2> QED BY <1>3, <2>4, PairTypes
<1>8. PICK k1 \in Nearest(t[1], n), k2 \in Nearest(t[2], n) :
        /\ bF' = Plus(F0, Times(-1, Mul(<<k1, k2>>, f)))
        /\ bG' = Plus(G0, Times(-1, Mul(<<k1, k2>>, g)))
  BY Zenon DEF Intermediate
<1>9. k1 \in Int /\ k2 \in Int
  <2>1. t[1] \in Int /\ t[2] \in Int  BY <1>7 DEF IntPair
  <2> HIDE DEF t, n
  <2> QED BY <1>6, <2>1, NearestType
<1>10. bF' = Reduced(bF, f, g, k1, k2) /\ bG' = Reduced(bG, g, f, k1, k2)
  BY <1>8, Zenon DEF Reduced
<1>11. bF' \in IntPair /\ bG' \in IntPair /\ Exact(f, g, bF', bG')
  BY <1>3, <1>9, <1>10, ReductionExact
<1>12. (bF \in IntPair)' /\ (bG \in IntPair)' /\ Exact(f, g, bF, bG)'
  BY <1>1, <1>11, Zenon DEF IntPair, Exact, Solves, SqNorm, Det, Plus, Mul, Times
<1>13. Held'  BY <1>1, <1>4, <1>5, <1>12 DEF Held, Stages
<1> QED BY <1>2, <1>13

LEMMA BigToSmallKept ==
  ASSUME KeyInv, BigToSmall
  PROVE  Arrays' /\ Held'
<1>1. CASE Restart  BY <1>1, RestartKept DEF KeyInv
<1>2. CASE /\ Small(bF) /\ Small(bG) /\ F' = Int8(bF) /\ G' = Int8(bG)
           /\ pc' = "equation" /\ UNCHANGED <<f, g, keys>>
  <2>1. /\ f' = f /\ g' = g /\ sk' = sk /\ pk' = pk /\ err' = err
        /\ pc' = "equation" /\ pc = "small"
    BY <1>2 DEF BigToSmall, keys
  <2>2. /\ Drawn(f) /\ Drawn(g) /\ ShortBasis
        /\ bF \in IntPair /\ bG \in IntPair /\ Exact(f, g, bF, bG)
    BY <2>1 DEF KeyInv, Held
  <2>3. F' = bF /\ G' = bG /\ bF \in Pair(127) /\ bG \in Pair(127)
    BY <1>2, <2>2, ByteKept
  <2>4. Arrays'  BY <2>1, <2>3 DEF KeyInv, Arrays, Poly, Pair
  <2>5. Drawn(f)' /\ Drawn(g)'  BY <2>1, <2>2 DEF Drawn, Pair, OddSum, SqNorm, Full
  <2>6. ShortBasis'  BY <2>1, <2>2 DEF ShortBasis, SqNorm
  <2>7. Exact(f, g, F', G')  BY <2>2, <2>3
  <2>8. (F \in Pair(127))' /\ (G \in Pair(127))'  BY <2>3 DEF Pair
  <2>9. Exact(f, g, F, G)'
    BY <2>1, <2>7, Zenon DEF Exact, Solves, SqNorm, Det, Plus, Mul, Times
  <2>10. Held'  BY <2>1, <2>5, <2>6, <2>8, <2>9 DEF Held, Stages
  <2> QED BY <2>4, <2>10
<1> QED BY <1>1, <1>2 DEF BigToSmall

LEMMA EquationKept ==
  ASSUME KeyInv, Equation
  PROVE  Arrays' /\ Held'
<1>1. CASE Restart  BY <1>1, RestartKept DEF KeyInv
<1>2. CASE Solved
  <2>1. /\ f' = f /\ g' = g /\ F' = F /\ G' = Stale /\ sk' = sk /\ pk' = pk /\ err' = err
        /\ pc' = "encode" /\ pc = "equation"
    BY <1>2 DEF Equation, Solved, keys
  <2>2. Drawn(f) /\ Drawn(g) /\ F \in Pair(127)  BY <2>1 DEF KeyInv, Held
  <2>3. Arrays'  BY <2>1 DEF KeyInv, Arrays, Poly
  <2>4. Drawn(f)' /\ Drawn(g)'  BY <2>1, <2>2 DEF Drawn, Pair, OddSum, SqNorm, Full
  <2>5. (F \in Pair(127))'  BY <2>1, <2>2 DEF Pair
  <2>6. Held'  BY <2>1, <2>4, <2>5 DEF Held, Stages
  <2> QED BY <2>3, <2>6
<1> QED BY <1>1, <1>2 DEF Equation

LEMMA EncodePrivateKept ==
  ASSUME KeyInv, EncodePrivate
  PROVE  Arrays' /\ Held'
<1> DEFINE ef == trim_encode(f, max_fg_bits, PrivRoom)
           eg == trim_encode(g, max_fg_bits, PrivRoom - Len(ef))
           eF == trim_encode(F, max_FG_bits, PrivRoom - Len(ef) - Len(eg))
<1>1. /\ f' = f /\ g' = g /\ F' = F /\ G' = G /\ pk' = pk /\ pc = "encode"
      /\ \/ err' = INTERNAL /\ pc' = "done" /\ sk' = sk
         \/ err' = err /\ pc' = "public" /\ sk' = ef \o eg \o eF
  BY DEF EncodePrivate, polys
<1>2. Drawn(f) /\ Drawn(g) /\ F \in Pair(127)  BY <1>1 DEF KeyInv, Held
<1>3. ef \o eg \o eF \in Seq(Byte)
  <2>1. f \in Seq(Int) /\ g \in Seq(Int) /\ F \in Seq(Int)
    <3>1. \A c \in IntPair : c \in Seq(Int)  BY ArrayIsSeq DEF IntPair
    <3>2. f \in IntPair /\ g \in IntPair /\ F \in IntPair  BY <1>2, DrawnNorm, SmallPair
    <3> QED BY <3>1, <3>2
  <2>2. max_fg_bits \in 0..14 /\ max_FG_bits \in 0..14  BY KeyAssumption
  <2>3. ef \in Seq(Byte) /\ eg \in Seq(Byte) /\ eF \in Seq(Byte)
    BY <2>1, <2>2, TrimEncodeType
  <2> HIDE DEF ef, eg, eF
  <2> QED BY <2>3
<1> HIDE DEF ef, eg, eF
<1>4. Arrays'  BY <1>1, <1>3 DEF KeyInv, Arrays
<1>5. Drawn(f)' /\ Drawn(g)'  BY <1>1, <1>2 DEF Drawn, Pair, OddSum, SqNorm, Full
<1>6. Held'  BY <1>1, <1>5 DEF Held, Stages
<1> QED BY <1>4, <1>6

LEMMA EncodePublicKept ==
  ASSUME KeyInv, EncodePublic
  PROVE  Arrays' /\ Held'
<1>1. /\ F' = Stale /\ G' = G /\ sk' = sk /\ pc = "public" /\ pc' \in {"load", "done"}
      /\ \/ /\ Invertible(f) /\ pk' = modq_encode(Quot(g, f), Bytes(28))
            /\ f' = Stale /\ g' = Stale /\ err' = err
         \/ err' = INTERNAL /\ f' = f /\ g' = g /\ pk' = pk
  BY DEF EncodePublic
<1>2. Drawn(f) /\ Drawn(g)  BY <1>1 DEF KeyInv, Held
<1>3. ASSUME Invertible(f) PROVE modq_encode(Quot(g, f), Bytes(28)) \in Seq(Byte)
  <2>1. f \in IntPair /\ g \in IntPair  BY <1>2, DrawnNorm
  <2>2. Quot(g, f) \in Seq(Int)  BY <1>3, <2>1, QuotType
  <2> QED BY <2>2, ModqEncodeType
<1>4. Arrays'  BY <1>1, <1>3 DEF KeyInv, Arrays, Poly
<1>5. Held'  BY <1>1 DEF Held, Stages
<1> QED BY <1>4, <1>5

(* What a decoder finds. *)
LEMMA DecodedPair ==
  ASSUME NEW s \in Seq(Byte), NEW k \in 2..8
  PROVE  LET r == trim_decode(s, k, 2)
         IN  r.v \in Nat /\ (r.v = 0 \/ r.x \in Pair(127))
<1> DEFINE r == trim_decode(s, k, 2)
           top == 2^(k - 1) - 1
<1>1. k \in 2..14  OBVIOUS
<1>2. r = Refused \/ (r.x \in [1..2 -> (-top)..top] /\ r.v = Bytes(k * 2))
  BY <1>1, TrimDecodeType
<1>3. top \in 1..127  BY PowerSmall
<1> HIDE DEF r, top
<1>4. CASE r = Refused
  <2>1. r.v = 0  BY <1>4 DEF Refused
  <2> QED BY <2>1 DEF r
<1>5. CASE r.x \in [1..2 -> (-top)..top] /\ r.v = Bytes(k * 2)
  <2>1. r.x \in Pair(127)
    <3>1. \A z \in (-top)..top : z \in (-127)..127  BY <1>3
    <3> QED BY <1>5, <3>1 DEF Pair
  <2>2. Bytes(k * 2) \in Nat  BY <1>1 DEF Bytes
  <2> QED BY <1>5, <2>1, <2>2 DEF r
<1> QED BY <1>2, <1>4, <1>5

LEMMA LoadKept ==
  ASSUME KeyInv, Load
  PROVE  Arrays' /\ Held'
<1> DEFINE df == trim_decode(sk, max_fg_bits, 2)
           sg == SubSeq(sk, df.v + 1, Len(sk))
           dg == trim_decode(sg, max_fg_bits, 2)
           sF == SubSeq(sk, df.v + dg.v + 1, Len(sk))
           dF == trim_decode(sF, max_FG_bits, 2)
           t  == Quot(Mul(dg.x, dF.x), df.x)
           cG == [i \in 1..2 |-> IF t[i] >= Q \div 2 THEN t[i] - Q ELSE t[i]]
<1>1. /\ pc' = "done" /\ sk' = sk /\ pk' = pk
      /\ \/ err' = FORMAT /\ f' = f /\ g' = g /\ F' = F /\ G' = G
         \/ /\ df.v # 0 /\ dg.v # 0 /\ dF.v # 0 /\ \A i \in 1..2 : cG[i] \in (-127)..127
            /\ f' = df.x /\ g' = dg.x /\ F' = dF.x /\ G' = cG /\ err' = err
  BY Zenon DEF Load
<1>2. max_fg_bits \in 2..8 /\ max_FG_bits \in 2..8  BY KeyAssumption
<1>3. sk \in Seq(Byte)  BY DEF KeyInv, Arrays
<1>4. df.v \in Nat /\ (df.v = 0 \/ df.x \in Pair(127))  BY <1>2, <1>3, DecodedPair
<1>5. sg \in Seq(Byte)
  <2> DEFINE k == df.v
  <2>1. k \in Nat  BY <1>4
  <2> HIDE DEF k
  <2>2. SubSeq(sk, k + 1, Len(sk)) \in Seq(Byte)  BY <1>3, <2>1
  <2> QED BY <2>2 DEF k
<1>6. dg.v \in Nat /\ (dg.v = 0 \/ dg.x \in Pair(127))
  <2> HIDE DEF sg
  <2> QED BY <1>2, <1>5, DecodedPair
<1>7. sF \in Seq(Byte)
  <2> DEFINE k == df.v
             l == dg.v
  <2>1. k \in Nat /\ l \in Nat  BY <1>4, <1>6
  <2> HIDE DEF k, l
  <2>2. SubSeq(sk, k + l + 1, Len(sk)) \in Seq(Byte)  BY <1>3, <2>1
  <2> QED BY <2>2 DEF k, l
<1>8. dF.v \in Nat /\ (dF.v = 0 \/ dF.x \in Pair(127))
  <2> HIDE DEF sF
  <2> QED BY <1>2, <1>7, DecodedPair
<1>9. (\A i \in 1..2 : cG[i] \in (-127)..127) => cG \in Pair(127)
  <2> HIDE DEF t
  <2> QED BY DEF Pair
<1> HIDE DEF df, dg, dF, cG, sg, sF, t
<1>10. Arrays'
  <2>1. CASE err' = FORMAT /\ f' = f /\ g' = g /\ F' = F /\ G' = G
    BY <1>1, <2>1 DEF KeyInv, Arrays
  <2>2. CASE /\ df.v # 0 /\ dg.v # 0 /\ dF.v # 0 /\ \A i \in 1..2 : cG[i] \in (-127)..127
             /\ f' = df.x /\ g' = dg.x /\ F' = dF.x /\ G' = cG /\ err' = err
    <3>1. f' \in Pair(127) /\ g' \in Pair(127) /\ F' \in Pair(127) /\ G' \in Pair(127)
      BY <1>4, <1>6, <1>8, <1>9, <2>2
    <3> QED BY <1>1, <2>2, <3>1 DEF KeyInv, Arrays, Poly, Pair
  <2> QED BY <1>1, <2>1, <2>2
<1>11. Held'  BY <1>1 DEF Held, Stages
<1> QED BY <1>10, <1>11

(***************************************************************************)
(* The invariant holds from the beginning, and every step keeps it.        *)
(***************************************************************************)
LEMMA KeyInit ==
  ASSUME Init
  PROVE  KeyInv
<1>1. SeedInv  BY SeedInitInv DEF Init
<1>2. BezoutInv  BY IdleInv DEF Init
<1>3. Arrays  BY DEF Init, Arrays, Poly
<1>4. Held  BY DEF Init, Held, Stages
<1> QED BY <1>1, <1>2, <1>3, <1>4 DEF KeyInv

(* The generator is made once; only get_seed moves the seed. *)
LEMMA SeedKept ==
  ASSUME KeyInv, Next
  PROVE  SeedInv'
<1>1. SeedNext \/ UNCHANGED seedVars
  <2>1. CASE InitPrng  BY <2>1 DEF InitPrng
  <2>2. CASE pc = "draw" /\ \E p \in Fs, q \in Gs : Draw(p, q)  BY <2>2 DEF Draw
  <2>3. CASE Check  BY <2>3 DEF Check, Restart
  <2>4. CASE Deepest  BY <2>4 DEF Deepest
  <2>5. CASE InBezout  BY <2>5 DEF InBezout
  <2>6. CASE Multiply  BY <2>6 DEF Multiply, Restart
  <2>7. CASE Intermediate  BY <2>7 DEF Intermediate
  <2>8. CASE BigToSmall  BY <2>8 DEF BigToSmall, Restart
  <2>9. CASE Equation  BY <2>9 DEF Equation, Solved, Restart
  <2>10. CASE EncodePrivate  BY <2>10 DEF EncodePrivate
  <2>11. CASE EncodePublic  BY <2>11 DEF EncodePublic
  <2>12. CASE Load  BY <2>12 DEF Load
  <2> QED BY <2>1, <2>2, <2>3, <2>4, <2>5, <2>6, <2>7, <2>8, <2>9, <2>10, <2>11, <2>12
          DEF Next, Attempt
<1> QED BY <1>1, SeedStep DEF KeyInv

(* zint_bezout is given the resultants, which are odd and fit, and is then *)
(* left to itself.                                                         *)
LEMMA BezoutKept ==
  ASSUME KeyInv, Next
  PROVE  BezoutInv'
<1>1. CASE BezoutNext \/ UNCHANGED bezoutVars  BY <1>1, BezoutStep DEF KeyInv
<1>2. CASE Forget  BY <1>2, ForgetInv
<1>3. CASE Deepest
  <2>1. Drawn(f) /\ Drawn(g) /\ Call(SqNorm(f), SqNorm(g))
    BY <1>3 DEF Deepest, KeyInv, Held, Resultant
  <2>2. /\ SqNorm(f) \in Nat /\ SqNorm(f) > 0 /\ SqNorm(f) % 2 = 1 /\ SqNorm(f) < Full
        /\ SqNorm(g) \in Nat /\ SqNorm(g) > 0 /\ SqNorm(g) % 2 = 1 /\ SqNorm(g) < Full
    BY <2>1, DrawnNorm
  <2> QED BY <2>1, <2>2, CallInv
<1>4. Deepest \/ Forget \/ BezoutNext \/ UNCHANGED bezoutVars
  <2>1. CASE InitPrng  BY <2>1 DEF InitPrng
  <2>2. CASE pc = "draw" /\ \E p \in Fs, q \in Gs : Draw(p, q)  BY <2>2 DEF Draw
  <2>3. CASE Check  BY <2>3 DEF Check, Restart
  <2>4. CASE Deepest  BY <2>4
  <2>5. CASE InBezout  BY <2>5 DEF InBezout
  <2>6. CASE Multiply  BY <2>6 DEF Multiply, Restart
  <2>7. CASE Intermediate  BY <2>7 DEF Intermediate
  <2>8. CASE BigToSmall  BY <2>8 DEF BigToSmall, Restart
  <2>9. CASE Equation  BY <2>9 DEF Equation, Solved, Restart
  <2>10. CASE EncodePrivate  BY <2>10 DEF EncodePrivate
  <2>11. CASE EncodePublic  BY <2>11 DEF EncodePublic
  <2>12. CASE Load  BY <2>12 DEF Load
  <2> QED BY <2>1, <2>2, <2>3, <2>4, <2>5, <2>6, <2>7, <2>8, <2>9, <2>10, <2>11, <2>12
          DEF Next, Attempt
<1> QED BY <1>1, <1>2, <1>3, <1>4

LEMMA KeyStep ==
  ASSUME KeyInv, [Next]_vars
  PROVE  KeyInv'
<1>1. CASE UNCHANGED vars
  <2>1. SeedInv'  BY <1>1, SeedStep DEF KeyInv, vars
  <2>2. BezoutInv'  BY <1>1, BezoutStep DEF KeyInv, vars
  <2>3. Arrays'  BY <1>1 DEF KeyInv, Arrays, vars, polys, keys
  <2>4. Held'
    BY <1>1 DEF KeyInv, Held, Drawn, Pair, OddSum, SqNorm, Full, ShortBasis, Solves, IntPair,
                Exact, Det, Plus, Mul, Times, vars, polys, keys, bezoutVars
  <2> QED BY <2>1, <2>2, <2>3, <2>4 DEF KeyInv
<1>2. CASE Next
  <2>1. SeedInv' /\ BezoutInv'  BY <1>2, SeedKept, BezoutKept
  <2>2. Arrays' /\ Held'
    BY <1>2, InitPrngKept, DrawKept, CheckKept, DeepestKept, InBezoutKept, MultiplyKept,
       IntermediateKept, BigToSmallKept, EquationKept, EncodePrivateKept, EncodePublicKept,
       LoadKept, Zenon DEF Next, Attempt
  <2> QED BY <2>1, <2>2 DEF KeyInv
<1> QED BY <1>1, <1>2

LEMMA KeyInvariant == Spec => []KeyInv
<1> QED BY KeyInit, KeyStep, PTL DEF Spec

(***************************************************************************)
(* What becomes of a key: from the tests of f and g to its decoding.       *)
(***************************************************************************)
(* What each stage knows of the keys that it has.  Keygen leaves none that *)
(* its callers refuse; encoded keys are those of an f, g and F with a G    *)
(* that nobody has any more.                                               *)
Carried ==
  /\ err \in {0, RANDOM} /\ (pc # "done" => err = 0)
  /\ pc \in {"deepest", "bezout", "intermediate", "small", "equation"} => Good(f, g)
  /\ pc = "equation" => Small(F)
  /\ pc = "encode" => Complete(f, g, F)
  /\ pc = "public" => \E C \in IntPair : Complete(f, g, C) /\ sk = PrivateKey(f, g, C)
  /\ pc = "load" => \E c \in IntPair, d \in IntPair, C \in IntPair :
                      Complete(c, d, C) /\ sk = PrivateKey(c, d, C) /\ pk = PublicKey(c, d)
  /\ pc = "done" /\ err = 0 => Matches(f, g, F, G, pk)

LEMMA CarriedInit ==
  ASSUME Init
  PROVE  Carried
BY DEF Init, Carried

(* What an action does not touch. *)
LEMMA CarriedRestart ==
  ASSUME Carried, Restart, pc # "done"
  PROVE  Carried'
BY DEF Carried, Restart, keys

LEMMA CarriedSeed ==
  ASSUME Carried, InitPrng
  PROVE  Carried'
<1>1. /\ pc # "done"
      /\ \/ pc' \in {"seed", "draw"} /\ err' = err
         \/ pc' = "done" /\ err' = RANDOM
  BY DEF InitPrng
<1>2. err = 0 /\ RANDOM # 0  BY <1>1 DEF Carried, RANDOM
<1> QED BY <1>1, <1>2 DEF Carried

LEMMA CarriedDraw ==
  ASSUME Carried, pc = "draw", NEW p, NEW q, Draw(p, q)
  PROVE  Carried'
<1>1. pc' = "check" /\ err' = err  BY DEF Draw, keys
<1> QED BY <1>1 DEF Carried

LEMMA CarriedCheck ==
  ASSUME KeyInv, Carried, Check
  PROVE  Carried'
<1>1. CASE Restart
  <2>1. pc # "done"  BY DEF Check
  <2> QED BY <1>1, <2>1, CarriedRestart
<1>2. CASE /\ Encodable(f) /\ Encodable(g) /\ Invertible(f)
           /\ pc' = "deepest" /\ UNCHANGED <<polys, keys>>
  <2>1. f' = f /\ g' = g /\ err' = err /\ pc' = "deepest" /\ pc = "check"
    BY <1>2 DEF Check, polys, keys
  <2>2. Good(f, g)  BY <1>2, <2>1 DEF KeyInv, Held, Good
  <2>3. Good(f, g)'  BY <2>1, <2>2
  <2> QED BY <2>1, <2>3 DEF Carried
<1> QED BY <1>1, <1>2 DEF Check

LEMMA CarriedDeepest ==
  ASSUME Carried, Deepest
  PROVE  Carried'
<1>1. f' = f /\ g' = g /\ err' = err /\ pc' = "bezout" /\ pc = "deepest"
  BY DEF Deepest, polys, keys
<1>2. Good(f, g)'  BY <1>1 DEF Carried
<1> QED BY <1>1, <1>2 DEF Carried

LEMMA CarriedBezout ==
  ASSUME Carried, InBezout
  PROVE  Carried'
<1>1. f' = f /\ g' = g /\ err' = err /\ pc' = "bezout" /\ pc = "bezout"
  BY DEF InBezout, polys, keys
<1>2. Good(f, g)'  BY <1>1 DEF Carried
<1> QED BY <1>1, <1>2 DEF Carried

LEMMA CarriedMultiply ==
  ASSUME Carried, Multiply
  PROVE  Carried'
<1>1. CASE Restart
  <2>1. pc # "done"  BY DEF Multiply
  <2> QED BY <1>1, <2>1, CarriedRestart
<1>2. CASE pc' = "intermediate" /\ UNCHANGED <<f, g, keys>>
  <2>1. f' = f /\ g' = g /\ err' = err /\ pc' = "intermediate" /\ pc = "bezout"
    BY <1>2 DEF Multiply, keys
  <2>2. Good(f, g)'  BY <2>1 DEF Carried
  <2> QED BY <2>1, <2>2 DEF Carried
<1> QED BY <1>1, <1>2 DEF Multiply

LEMMA CarriedIntermediate ==
  ASSUME Carried, Intermediate
  PROVE  Carried'
<1>1. f' = f /\ g' = g /\ err' = err /\ pc' = "small" /\ pc = "intermediate"
  BY DEF Intermediate, keys
<1>2. Good(f, g)'  BY <1>1 DEF Carried
<1> QED BY <1>1, <1>2 DEF Carried

LEMMA CarriedSmall ==
  ASSUME KeyInv, Carried, BigToSmall
  PROVE  Carried'
<1>1. CASE Restart
  <2>1. pc # "done"  BY DEF BigToSmall
  <2> QED BY <1>1, <2>1, CarriedRestart
<1>2. CASE /\ Small(bF) /\ F' = Int8(bF)
           /\ pc' = "equation" /\ UNCHANGED <<f, g, keys>>
  <2>1. f' = f /\ g' = g /\ err' = err /\ pc' = "equation" /\ pc = "small"
    BY <1>2 DEF BigToSmall, keys
  <2>2. bF \in IntPair  BY <2>1 DEF KeyInv, Held
  <2>3. F' = bF  BY <1>2, <2>2, ByteKept
  <2>4. Small(F)'
    <3>1. Small(F')  BY <1>2, <2>3
    <3> QED BY <3>1
  <2>5. Good(f, g)'  BY <2>1 DEF Carried
  <2> QED BY <2>1, <2>4, <2>5 DEF Carried
<1> QED BY <1>1, <1>2 DEF BigToSmall

LEMMA CarriedEquation ==
  ASSUME KeyInv, Carried, Equation
  PROVE  Carried'
<1>1. CASE Restart
  <2>1. pc # "done"  BY DEF Equation
  <2> QED BY <1>1, <2>1, CarriedRestart
<1>2. CASE Solved /\ Det(f, g, F, G) = <<Q, 0>>
  <2>1. f' = f /\ g' = g /\ F' = F /\ err' = err /\ pc' = "encode" /\ pc = "equation"
    BY <1>2 DEF Equation, Solved, keys
  <2>2. Good(f, g) /\ Small(F)  BY <2>1 DEF Carried
  <2>3. F \in Pair(127) /\ G \in Pair(127)  BY <2>1 DEF KeyInv, Held
  <2>4. Complete(f, g, F)  BY <1>2, <2>2, <2>3 DEF Complete
  <2>5. Complete(f, g, F)'  BY <2>1, <2>4
  <2> QED BY <2>1, <2>5 DEF Carried
<1> QED BY <1>1, <1>2 DEF Equation, Det

(* Each encoding succeeds ... *)
LEMMA CarriedPrivate ==
  ASSUME Carried, EncodePrivate
  PROVE  Carried'
<1> DEFINE ef == trim_encode(f, max_fg_bits, PrivRoom)
           eg == trim_encode(g, max_fg_bits, PrivRoom - Len(ef))
           eF == trim_encode(F, max_FG_bits, PrivRoom - Len(ef) - Len(eg))
<1>1. pc = "encode" /\ f' = f /\ g' = g  BY DEF EncodePrivate, polys
<1>2. Complete(f, g, F)  BY <1>1 DEF Carried
<1>3. /\ ef # <<>> /\ eg # <<>> /\ eF # <<>>
      /\ ef \o eg \o eF = PrivateKey(f, g, F) /\ Len(ef \o eg \o eF) = PrivRoom
  BY <1>2, KeyEncoded
<1>4. IF ef = <<>> \/ eg = <<>> \/ eF = <<>> \/ Len(ef \o eg \o eF) # PrivRoom
      THEN err' = INTERNAL /\ pc' = "done" /\ UNCHANGED sk
      ELSE sk' = ef \o eg \o eF /\ pc' = "public" /\ UNCHANGED err
  BY Zenon DEF EncodePrivate
<1> HIDE DEF ef, eg, eF
<1>5. sk' = PrivateKey(f, g, F) /\ pc' = "public" /\ err' = err  BY <1>3, <1>4
<1>6. F \in IntPair  BY <1>2, FieldsFit
<1>7. (\E C \in IntPair : Complete(f, g, C) /\ sk = PrivateKey(f, g, C))'
  <2>1. \E C \in IntPair : Complete(f', g', C) /\ sk' = PrivateKey(f', g', C)
    BY <1>1, <1>2, <1>5, <1>6
  <2> QED BY <2>1 DEF IntPair
<1> QED BY <1>1, <1>5, <1>7 DEF Carried

LEMMA CarriedPublic ==
  ASSUME Carried, EncodePublic
  PROVE  Carried'
<1>1. pc = "public" /\ sk' = sk  BY DEF EncodePublic
<1>2. PICK C \in IntPair : Complete(f, g, C) /\ sk = PrivateKey(f, g, C)  BY <1>1 DEF Carried
<1>3. Invertible(f) /\ f \in IntPair /\ g \in IntPair
  <2>1. Invertible(f)  BY <1>2 DEF Complete, Good
  <2> QED BY <1>2, <2>1, FieldsFit
<1>4. pk' = PublicKey(f, g) /\ pc' = "load" /\ err' = err
  BY <1>3 DEF EncodePublic, PublicKey
<1>5. (\E c \in IntPair, d \in IntPair, D \in IntPair :
         Complete(c, d, D) /\ sk = PrivateKey(c, d, D) /\ pk = PublicKey(c, d))'
  <2>1. \E c \in IntPair, d \in IntPair, D \in IntPair :
          Complete(c, d, D) /\ sk' = PrivateKey(c, d, D) /\ pk' = PublicKey(c, d)
    BY <1>1, <1>2, <1>3, <1>4
  <2> QED BY <2>1 DEF IntPair
<1> QED BY <1>1, <1>4, <1>5 DEF Carried

(* What the load does. *)
LEMMA LoadCases ==
  ASSUME Load
  PROVE  LET df == trim_decode(sk, max_fg_bits, 2)
             dg == trim_decode(SubSeq(sk, df.v + 1, Len(sk)), max_fg_bits, 2)
             dF == trim_decode(SubSeq(sk, df.v + dg.v + 1, Len(sk)), max_FG_bits, 2)
             t  == Quot(Mul(dg.x, dF.x), df.x)
             cG == [i \in 1..2 |-> IF t[i] >= Q \div 2 THEN t[i] - Q ELSE t[i]]
         IN  /\ pc = "load" /\ pc' = "done" /\ pk' = pk
             /\ \/ df.v = 0 \/ dg.v = 0 \/ dF.v = 0 \/ df.v + dg.v + dF.v # Len(sk)
                \/ ~Invertible(df.x) \/ \E i \in 1..2 : cG[i] \notin (-127)..127
                \/ f' = df.x /\ g' = dg.x /\ F' = dF.x /\ G' = cG /\ err' = err
BY Zenon DEF Load

(* What the bytes of G and the 14 bits of a residue ask of q. *)
Between(q) == 256 <= q /\ q <= 12289

(* ... and the decoding of what was encoded, which gives G again. *)
LEMMA CarriedLoad ==
  ASSUME Carried, Load, Between(Q)
  PROVE  Carried'
<1> DEFINE df == trim_decode(sk, max_fg_bits, 2)
           dg == trim_decode(SubSeq(sk, df.v + 1, Len(sk)), max_fg_bits, 2)
           dF == trim_decode(SubSeq(sk, df.v + dg.v + 1, Len(sk)), max_FG_bits, 2)
           t  == Quot(Mul(dg.x, dF.x), df.x)
           cG == [i \in 1..2 |-> IF t[i] >= Q \div 2 THEN t[i] - Q ELSE t[i]]
<1>1. pc = "load" /\ pc' = "done" /\ pk' = pk  BY LoadCases, Zenon
<1>2. PICK c \in IntPair, d \in IntPair, C \in IntPair :
        Complete(c, d, C) /\ sk = PrivateKey(c, d, C) /\ pk = PublicKey(c, d)
  BY <1>1 DEF Carried
<1>3. /\ df.x = c /\ dg.x = d /\ dF.x = C
      /\ df.v # 0 /\ dg.v # 0 /\ dF.v # 0 /\ df.v + dg.v + dF.v = Len(sk)
  BY <1>2, KeyDecoded
<1>4. PICK D \in Pair(127) : Det(c, d, C, D) = <<Q, 0>>  BY <1>2 DEF Complete
<1>5. Invertible(c) /\ D \in IntPair  BY <1>2, <1>4, SmallPair DEF Complete, Good
<1>6. \/ df.v = 0 \/ dg.v = 0 \/ dF.v = 0 \/ df.v + dg.v + dF.v # Len(sk)
      \/ ~Invertible(df.x) \/ \E i \in 1..2 : cG[i] \notin (-127)..127
      \/ f' = df.x /\ g' = dg.x /\ F' = dF.x /\ G' = cG /\ err' = err
  BY LoadCases, Zenon
<1>7. t = <<D[1] % Q, D[2] % Q>>
  <2>1. Quot(Mul(d, C), c) = <<D[1] % Q, D[2] % Q>>  BY <1>2, <1>4, <1>5, Completed
  <2> QED BY <1>3, <2>1
<1> HIDE DEF df, dg, dF, t
<1>8. \A i \in 1..2 : D[i] \in (-127)..127 /\ D[i] \in Int  BY <1>4 DEF Pair
<1>9. Q \in Nat  BY KeyAssumption
<1>10. \A i \in 1..2 : (IF t[i] >= Q \div 2 THEN t[i] - Q ELSE t[i]) = D[i]
  <2>1. \A i \in 1..2 : t[i] = D[i] % Q  BY <1>7
  <2>2. \A z \in Int : -127 <= z /\ z <= 127 =>
          (IF z % Q >= Q \div 2 THEN (z % Q) - Q ELSE z % Q) = z
    BY <1>9, Recentred DEF Between
  <2>3. \A i \in 1..2 : -127 <= D[i] /\ D[i] <= 127  BY <1>8
  <2> QED BY <1>8, <2>1, <2>2, <2>3
<1>11. cG = D
  <2>1. D = [i \in 1..2 |-> D[i]]  BY <1>4 DEF Pair
  <2> QED BY <1>10, <2>1
<1> HIDE DEF cG
<1>12. f' = c /\ g' = d /\ F' = C /\ G' = D /\ err' = err
  BY <1>3, <1>5, <1>6, <1>8, <1>11
<1>13. Modulo(Mul(modq_decode(pk, 2).x, c)) = Modulo(d)  BY <1>2, KeyPublished DEF Between
<1>14. Matches(c, d, C, D, pk)  BY <1>4, <1>13 DEF Matches
<1>15. Matches(f, g, F, G, pk)'  BY <1>1, <1>12, <1>14
<1> QED BY <1>1, <1>12, <1>15 DEF Carried

LEMMA CarriedStep ==
  ASSUME KeyInv, Carried, [Next]_vars, Q >= 256, Q <= 12289
  PROVE  Carried'
<1>1. CASE UNCHANGED vars
  <2>1. /\ pc' = pc /\ f' = f /\ g' = g /\ F' = F /\ G' = G /\ sk' = sk /\ pk' = pk /\ err' = err
    BY <1>1 DEF vars, polys, keys
  <2> QED BY <2>1 DEF Carried, IntPair
<1>2. CASE Next
  <2>1. CASE InitPrng  BY <2>1, CarriedSeed
  <2>2. CASE pc = "draw" /\ \E p \in Fs, q \in Gs : Draw(p, q)  BY <2>2, CarriedDraw
  <2>3. CASE Check  BY <2>3, CarriedCheck
  <2>4. CASE Deepest \/ InBezout  BY <2>4, CarriedDeepest, CarriedBezout
  <2>5. CASE Multiply \/ Intermediate  BY <2>5, CarriedMultiply, CarriedIntermediate
  <2>6. CASE BigToSmall \/ Equation  BY <2>6, CarriedSmall, CarriedEquation
  <2>7. CASE EncodePrivate \/ EncodePublic  BY <2>7, CarriedPrivate, CarriedPublic
  <2>8. CASE Load  BY <2>8, CarriedLoad DEF Between
  <2> QED BY <1>2, <2>1, <2>2, <2>3, <2>4, <2>5, <2>6, <2>7, <2>8 DEF Next, Attempt
<1> QED BY <1>1, <1>2

LEMMA CarriedInvariant ==
  ASSUME Q >= 256, Q <= 12289
  PROVE  Spec => []Carried
<1>1. Init => Carried  BY CarriedInit
<1>2. KeyInv /\ Carried /\ [Next]_vars => Carried'  BY CarriedStep
<1> QED BY <1>1, <1>2, KeyInvariant, PTL DEF Spec

(***************************************************************************)
(* Theorems.                                                               *)
(***************************************************************************)

(* A generator is only made from a buffer that the system has written from *)
(* end to end (rng.c:60-95, falcon.c:76-88).                               *)
THEOREM SeedIsWritten == Spec => []SeedWritten
<1>1. KeyInv => SeedWritten  BY DEF KeyInv, SeedInv
<1> QED BY <1>1, KeyInvariant, PTL

(* Every array has values of its type, zint_bezout's integers fit in their *)
(* words and its coefficients stay in their ranges (keygen.c:1592-1597).   *)
THEOREM TypeCorrect == Spec => []TypeOK
<1>1. KeyInv => TypeOK  BY DEF KeyInv, SeedInv, BezoutInv, Arrays, TypeOK
<1> QED BY <1>1, KeyInvariant, PTL

(* The four factors of a turn stay within a word, two by two, whatever its *)
(* decisions on the top words (keygen.c:1470-1471).                        *)
THEOREM FactorsWithinWord == Spec => []FactorsBounded
<1>1. KeyInv => FactorsBounded
  <2>1. ASSUME KeyInv PROVE FactorsBounded
    <3>1. a \in Int /\ b \in Int  BY <2>1, FullInt DEF KeyInv, BezoutInv, BezoutTypeOK
    <3>2. Abs(Factors.pa) + Abs(Factors.pb) <= Word /\ Abs(Factors.qa) + Abs(Factors.qb) <= Word
      BY <3>1, FactorsExact
    <3> QED BY <3>2, Zenon DEF FactorsBounded, Abs, Word
  <2> QED BY <2>1
<1> QED BY <1>1, KeyInvariant, PTL

(* Every turn of zint_bezout keeps its coefficients together with its      *)
(* integers, modulo the product of the operands, and with 1 it returns     *)
(* those that it promises, unless its second operand is 1                  *)
(* (keygen.c:1573-1576, 1588-1597).                                        *)
THEOREM CoefficientsFollow == Spec => []Coefficients
<1>1. KeyInv => Coefficients
  <2>1. ASSUME KeyInv, ret = 1, y > 1 PROVE x * u0 - y * v0 = 1
    <3>1. x * u0 - y * v0 = 1 \/ y = 1  BY <2>1, ReturnedOne DEF KeyInv
    <3>2. y # 1  BY <2>1
    <3> QED BY <3>1, <3>2
  <2>2. ASSUME KeyInv
        PROVE  (x * u0 - y * v0 - a) % (x * y) = 0 /\ (x * u1 - y * v1 - b) % (x * y) = 0
    BY <2>2, CongruencesHold DEF KeyInv
  <2> QED BY <2>1, <2>2 DEF Coefficients
<1> QED BY <1>1, KeyInvariant, PTL

(***************************************************************************)
(* The greatest common divisor.                                            *)
(***************************************************************************)
CommonDivisors(j, k) == {d \in Nat : Divides(d, j) /\ Divides(d, k)}

IsGcd(j, k, e) == e \in Nat /\ CommonDivisors(j, k) = CommonDivisors(e, 0)

LEMMA DividesZero ==
  ASSUME NEW d \in Nat
  PROVE  Divides(d, 0)
<1>1. 0 = d * 0  OBVIOUS
<1> QED BY <1>1 DEF Divides

LEMMA DividesItself ==
  ASSUME NEW d \in Nat
  PROVE  Divides(d, d)
<1>1. d = d * 1  OBVIOUS
<1> QED BY <1>1 DEF Divides

(* Of two positive integers that divide each other neither is greater.     *)
LEMMA DividesBelow ==
  ASSUME NEW d \in Nat, NEW e \in Nat, e > 0, Divides(d, e)
  PROVE  d <= e
<1>1. PICK i \in Int : e = d * i  BY DEF Divides
<1>2. CASE i <= 0
  <2>1. d * i <= 0  BY <1>2, SMT
  <2> QED BY <1>1, <2>1
<1>3. CASE i >= 1
  <2>1. d * i >= d  BY <1>3, SMT
  <2> QED BY <1>1, <2>1
<1> QED BY <1>2, <1>3

LEMMA DividesZeroOnly ==
  ASSUME NEW e \in Nat, Divides(0, e)
  PROVE  e = 0
<1>1. PICK i \in Int : e = 0 * i  BY DEF Divides
<1> QED BY <1>1

LEMMA DivideEachOther ==
  ASSUME NEW d \in Nat, NEW e \in Nat, Divides(d, e), Divides(e, d)
  PROVE  d = e
<1>1. CASE d = 0  BY <1>1, DividesZeroOnly
<1>2. CASE e = 0  BY <1>2, DividesZeroOnly
<1>3. CASE d > 0 /\ e > 0
  <2>1. d <= e /\ e <= d  BY <1>3, DividesBelow
  <2> QED BY <2>1
<1> QED BY <1>1, <1>2, <1>3

(* A turn of Euclid's algorithm.                                           *)
LEMMA GcdTurn ==
  ASSUME NEW j \in Nat, NEW k \in Nat, k # 0
  PROVE  j % k \in Nat /\ j % k < k /\ CommonDivisors(j, k) = CommonDivisors(k, j % k)
<1>1. PICK r \in Nat, q \in Int : r = j % k /\ r < k /\ j = k * q + r
  <2>1. j % k \in 0..(k - 1) /\ j \div k \in Int /\ j = k * (j \div k) + (j % k)
    BY ModIs
  <2> DEFINE r == j % k
             q == j \div k
  <2>2. r \in 0..(k - 1) /\ q \in Int /\ j = k * q + r  BY <2>1
  <2>3. r = j % k  OBVIOUS
  <2> HIDE DEF r, q
  <2>4. r \in Nat /\ r < k  BY <2>2
  <2> QED BY <2>2, <2>3, <2>4
<1>2. PICK z \in Int : z = k * q /\ j = z + r  BY <1>1, SMT
<1>3. ASSUME NEW d \in Nat, Divides(d, k) PROVE Divides(d, r) <=> Divides(d, j)
  <2>1. Divides(d, z)
    <3>1. d \in Int /\ k \in Int  OBVIOUS
    <3>2. Divides(d, k * q)  BY <1>3, <3>1, DividesTimes, Zenon
    <3> QED BY <1>2, <3>2
  <2>2. Divides(d, r) => Divides(d, z + r)  BY <2>1, DividesSum
  <2>3. Divides(d, j) => Divides(d, j - z)  BY <2>1, DividesSum
  <2>4. j - z = r  BY <1>2
  <2> QED BY <1>2, <2>2, <2>3, <2>4
<1>4. CommonDivisors(j, k) = CommonDivisors(k, r)  BY <1>3 DEF CommonDivisors
<1> QED BY <1>1, <1>4

LEMMA GcdOfZero ==
  ASSUME NEW j \in Nat
  PROVE  IsGcd(j, 0, j) /\ \A e : IsGcd(j, 0, e) => e = j
<1>1. IsGcd(j, 0, j)  BY DEF IsGcd
<1>2. ASSUME NEW e, IsGcd(j, 0, e) PROVE e = j
  <2>1. e \in Nat /\ j \in CommonDivisors(j, 0) /\ e \in CommonDivisors(e, 0)
    BY <1>2, DividesItself, DividesZero DEF IsGcd, CommonDivisors
  <2>2. Divides(j, e) /\ Divides(e, j)  BY <1>2, <2>1 DEF IsGcd, CommonDivisors
  <2> QED BY <2>1, <2>2, DivideEachOther
<1> QED BY <1>1, <1>2

(* Gcd is what its definition says it is: there is such a function.        *)
LEMMA GcdDefined ==
  \A j \in Nat, k \in Nat : Gcd[<<j, k>>] = IF k = 0 THEN j ELSE Gcd[<<k, j % k>>]
<1> DEFINE D(w) == w = [p \in Nat \X Nat |-> IF p[2] = 0 THEN p[1] ELSE w[<<p[2], p[1] % p[2]>>]]
           w0 == [p \in Nat \X Nat |-> CHOOSE e : IsGcd(p[1], p[2], e)]
           v == CHOOSE w : D(w)
<1>1. ASSUME NEW j \in Nat, NEW k \in Nat
      PROVE  w0[<<j, k>>] = IF k = 0 THEN j ELSE w0[<<k, j % k>>]
  <2>1. CASE k = 0
    <3>1. IsGcd(j, 0, j) /\ \A e : IsGcd(j, 0, e) => e = j  BY GcdOfZero
    <3>2. IsGcd(j, 0, CHOOSE e : IsGcd(j, 0, e))  BY <3>1, Zenon
    <3>3. (CHOOSE e : IsGcd(j, 0, e)) = j  BY <3>1, <3>2
    <3> QED BY <2>1, <3>3
  <2>2. CASE k # 0
    <3>1. j % k \in Nat /\ CommonDivisors(j, k) = CommonDivisors(k, j % k)  BY <2>2, GcdTurn
    <3>2. \A e : IsGcd(j, k, e) <=> IsGcd(k, j % k, e)  BY <3>1 DEF IsGcd
    <3>3. (CHOOSE e : IsGcd(j, k, e)) = (CHOOSE e : IsGcd(k, j % k, e))  BY <3>2
    <3>4. w0[<<j, k>>] = CHOOSE e : IsGcd(j, k, e)  OBVIOUS
    <3>5. w0[<<k, j % k>>] = CHOOSE e : IsGcd(k, j % k, e)  BY <3>1
    <3> QED BY <2>2, <3>3, <3>4, <3>5
  <2> QED BY <2>1, <2>2
<1>2. D(w0)
  <2>1. ASSUME NEW p \in Nat \X Nat
        PROVE  w0[p] = IF p[2] = 0 THEN p[1] ELSE w0[<<p[2], p[1] % p[2]>>]
    <3>1. p[1] \in Nat /\ p[2] \in Nat /\ p = <<p[1], p[2]>>  OBVIOUS
    <3> HIDE DEF w0
    <3>2. w0[<<p[1], p[2]>>] = IF p[2] = 0 THEN p[1] ELSE w0[<<p[2], p[1] % p[2]>>]
      BY <1>1, <3>1
    <3> QED BY <3>1, <3>2
  <2>2. w0 = [p \in Nat \X Nat |-> w0[p]]  OBVIOUS
  <2> HIDE DEF w0
  <2>3. w0 = [p \in Nat \X Nat |-> IF p[2] = 0 THEN p[1] ELSE w0[<<p[2], p[1] % p[2]>>]]
    BY <2>1, <2>2
  <2> QED BY <2>3
<1>3. D(v)
  <2> HIDE DEF D
  <2> QED BY <1>2
<1>4. Gcd = v  BY DEF Gcd
<1> HIDE DEF v
<1>5. Gcd = [p \in Nat \X Nat |-> IF p[2] = 0 THEN p[1] ELSE Gcd[<<p[2], p[1] % p[2]>>]]
  BY <1>3, <1>4
<1> QED BY <1>5

LEMMA GcdIs ==
  \A j \in Nat, k \in Nat : IsGcd(j, k, Gcd[<<j, k>>])
<1> DEFINE P(k) == \A j \in Nat : IsGcd(j, k, Gcd[<<j, k>>])
           T == {k \in Nat : ~P(k)}
<1> SUFFICES ASSUME T # {} PROVE FALSE
  OBVIOUS
<1>1. T \subseteq Nat  OBVIOUS
<1>2. PICK k \in T : \A i \in T : ~(<<i, k>> \in OpToRel(<, Nat))
  BY <1>1, WFMin, NatLessThanWellFounded
<1>3. \A i \in Nat : i < k => P(i)  BY <1>1, <1>2 DEF OpToRel
<1>4. PICK j \in Nat : ~IsGcd(j, k, Gcd[<<j, k>>])  OBVIOUS
<1> HIDE DEF T
<1>5. CASE k = 0
  <2>1. Gcd[<<j, k>>] = j  BY <1>1, <1>5, GcdDefined
  <2> QED BY <1>4, <1>5, <2>1, GcdOfZero
<1>6. CASE k # 0
  <2>1. k \in Nat /\ j % k \in Nat /\ j % k < k
        /\ CommonDivisors(j, k) = CommonDivisors(k, j % k)
    BY <1>1, <1>6, GcdTurn
  <2>2. IsGcd(k, j % k, Gcd[<<k, j % k>>])  BY <1>3, <2>1
  <2>3. Gcd[<<j, k>>] = Gcd[<<k, j % k>>]  BY <1>6, <2>1, GcdDefined
  <2> QED BY <1>4, <2>1, <2>2, <2>3 DEF IsGcd
<1> QED BY <1>5, <1>6

(* The greatest common divisor is 1 if no other number divides both.       *)
LEMMA GcdIsOne ==
  ASSUME NEW j \in Nat, NEW k \in Nat
  PROVE  Gcd[<<j, k>>] = 1 <=> \A d \in Nat : Divides(d, j) /\ Divides(d, k) => d = 1
<1> DEFINE e == Gcd[<<j, k>>]
<1>1. e \in Nat /\ CommonDivisors(j, k) = CommonDivisors(e, 0)  BY GcdIs DEF IsGcd
<1> HIDE DEF e
<1>2. e \in CommonDivisors(j, k)  BY <1>1, DividesItself, DividesZero DEF CommonDivisors
<1>3. ASSUME e = 1, NEW d \in Nat, Divides(d, j), Divides(d, k) PROVE d = 1
  <2>1. Divides(d, 1)  BY <1>1, <1>3 DEF CommonDivisors
  <2>2. Divides(1, d)
    <3>1. d = 1 * d  OBVIOUS
    <3> QED BY <3>1 DEF Divides
  <2> QED BY <2>1, <2>2, DivideEachOther
<1> QED BY <1>2, <1>3 DEF CommonDivisors, e

(* zint_bezout returns 1 only for operands that have no common factor,     *)
(* whatever its turns have decided on the top words; and it returns 1 for  *)
(* all of them if b is 0 by then (keygen.c:1571-1572).  The one direction  *)
(* holds because a common factor divides what the coefficients make of x   *)
(* and y, the other because a turn can be undone.  That the count of turns *)
(* suffices for b to become 0 is the comment's other claim.                *)
THEOREM ResultOnceReduced == Spec => []((ret = 0 => b = 0) => Result)
<1>1. ASSUME KeyInv, ret = 1, NEW d \in Nat, Divides(d, x), Divides(d, y) PROVE d = 1
  <2>1. x \in Int /\ y \in Int /\ u0 \in Int /\ v0 \in Int
    BY <1>1 DEF KeyInv, BezoutInv, BezoutTypeOK
  <2>2. x * u0 - y * v0 = 1 \/ y = 1  BY <1>1, ReturnedOne DEF KeyInv
  <2>3. Divides(d, 1)
    <3>1. CASE x * u0 - y * v0 = 1
      <4>1. Divides(d, x * u0) /\ Divides(d, y * v0)
        <5>1. d \in Int  OBVIOUS
        <5> QED BY <1>1, <2>1, <5>1, DividesTimes, Zenon
      <4>2. x * u0 \in Int /\ y * v0 \in Int  BY <2>1, SMT
      <4>3. Divides(d, x * u0 - y * v0)  BY <4>1, <4>2, DividesSum
      <4> QED BY <3>1, <4>3
    <3>2. CASE y = 1  BY <1>1, <3>2
    <3> QED BY <2>2, <3>1, <3>2
  <2>4. d <= 1 /\ d # 0  BY <2>3, DividesBelow, DividesZeroOnly
  <2> QED BY <2>4
<1>2. ASSUME KeyInv, ret = 0, b = 0 PROVE Divides(a, x) /\ Divides(a, y) /\ a \in Nat /\ a # 1
  <2>1. a \in Nat /\ a # 1 /\ CommonDivide(a, b, x, y)
    BY <1>2, FullInt DEF KeyInv, BezoutInv, BezoutTypeOK
  <2>2. Divides(a, a) /\ Divides(a, b)  BY <1>2, <2>1, DividesItself, DividesZero
  <2> QED BY <2>1, <2>2 DEF CommonDivide
<1>3. ASSUME KeyInv, ret = 0 => b = 0 PROVE Result
  <2>1. x \in Nat /\ y \in Nat  BY <1>3 DEF KeyInv, BezoutInv
  <2>2. ret = 1 => Gcd[<<x, y>>] = 1  BY <1>1, <1>3, <2>1, GcdIsOne
  <2>3. ret = 0 => Gcd[<<x, y>>] # 1  BY <1>2, <1>3, <2>1, GcdIsOne
  <2> QED BY <2>2, <2>3 DEF Result
<1>4. KeyInv => ((ret = 0 => b = 0) => Result)  BY <1>3
<1> QED BY <1>4, KeyInvariant, PTL

(* What solve_NTRU's last test is given passes it (keygen.c:3975-4085), as *)
(* soon as q is not small: 12289 in the code.                              *)
THEOREM SolverIsExact ==
  ASSUME Q >= 140
  PROVE  Spec => []SolverExact
<1>1. KeyInv => SolverExact
  <2>1. ASSUME KeyInv, pc = "equation" PROVE Det(f, g, F, G) = <<Q, 0>>
    <3>1. /\ Drawn(f) /\ Drawn(g) /\ ShortBasis
          /\ F \in Pair(127) /\ G \in Pair(127) /\ Exact(f, g, F, G)
      BY <2>1 DEF KeyInv, Held
    <3>2. f \in IntPair /\ g \in IntPair /\ SqNorm(f) > 0  BY <3>1, DrawnNorm
    <3>3. PICK e \in Int : Solves(f, g, e) /\ Det(f, g, F, G) = <<e, 0>>  BY <3>1 DEF Exact
    <3>4. CASE e = Q  BY <3>3, <3>4
    <3>5. CASE SqNorm(g) = 1 /\ e = Q * (1 - SqNorm(f))
      <4>1. 10000 * Q < 13689 * (SqNorm(f) + SqNorm(g))  BY <3>1 DEF ShortBasis
      <4>2. Det(f, g, F, G) = <<Q * (1 - SqNorm(f)), 0>>  BY <3>3, <3>5
      <4>3. SqNorm(f) = 0  BY <3>1, <3>2, <3>5, <4>1, <4>2, TooLarge
      <4>4. FALSE  BY <3>2, <4>3
      <4> QED BY <4>4
    <3> QED BY <3>3, <3>4, <3>5 DEF Solves
  <2> QED BY <2>1 DEF SolverExact, Det
<1> QED BY <1>1, KeyInvariant, PTL

(* The keys that keygen returns are never refused: both can be encoded, f  *)
(* is invertible when the public key is computed, and the signer's decoder *)
(* finds f, g and F in the private one and a G that fits (falcon.c:176-223,*)
(* 398-427), for every q in which a byte is known by its residue and that  *)
(* fits in a 14-bit field: 12289 in the code.                              *)
THEOREM KeysAccepted ==
  ASSUME Q >= 256, Q <= 12289
  PROVE  Spec => []NeverRefused
<1>1. Carried => NeverRefused
  BY DEF Carried, NeverRefused, RANDOM, INTERNAL, FORMAT
<1> QED BY <1>1, CarriedInvariant, PTL

(* What the signer decodes and completes solves the NTRU equation over the *)
(* integers, although G is recovered modulo q only, and the public key is  *)
(* the quotient of its g and f (keygen.c:4213-4301, falcon.c:398-427).     *)
THEOREM KeysMatch ==
  ASSUME Q >= 256, Q <= 12289
  PROVE  Spec => []KeyPair
<1>1. Carried => KeyPair
  BY DEF Carried, KeyPair, Matches, Det
<1> QED BY <1>1, CarriedInvariant, PTL
=============================================================================
