---------------------------- MODULE Codec_proofs ----------------------------
(***************************************************************************)
(* The codec for every buffer, value and width: encoders yield bytes;      *)
(* decoders yield as many values as they are asked for, within the range   *)
(* of their format, whatever the bytes; what an encoder writes, its        *)
(* decoder finds again, whatever follows; and what a decoder accepts is    *)
(* the only encoding of the values that it finds.                          *)
(*                                                                         *)
(* Loops are functions defined by recursion.  That such a function exists, *)
(* and what its values have in common, is proved by induction on a set of  *)
(* indices: the least index that is not in it.                             *)
(***************************************************************************)
EXTENDS Codec, SequenceTheorems, WellFoundedInduction, TLAPS

(* Induction up to k, on a set: by the least number that is not in it. *)
LEMMA UpTo ==
  ASSUME NEW k \in Nat, NEW P, 0 \in P,
         \A j \in 0..(k - 1) : j \in P => j + 1 \in P
  PROVE  \A j \in 0..k : j \in P
<1> DEFINE T == {j \in 0..k : j \notin P}
<1> SUFFICES ASSUME T # {} PROVE FALSE
  OBVIOUS
<1>1. T \subseteq Nat
  OBVIOUS
<1>2. PICK j \in T : \A i \in T : ~(<<i, j>> \in OpToRel(<, Nat))
  BY <1>1, WFMin, NatLessThanWellFounded
<1>3. \A i \in Nat : i < j => i \notin T
  BY <1>1, <1>2 DEF OpToRel
<1>4. j \in 0..k /\ j \notin P /\ j # 0
  OBVIOUS
<1>5. j - 1 \in 0..(k - 1) /\ j - 1 \in Nat /\ j - 1 < j /\ (j - 1) + 1 = j
  BY <1>4
<1>6. j - 1 \in P
  BY <1>3, <1>5
<1> QED
  BY <1>4, <1>5, <1>6

(* A sequence of steps exists if each can be taken: the existence of a     *)
(* function that is defined by recursion.                                  *)
Runs(k, S)     == [0..k -> S]
Steps(w, k, R) == \A i \in 1..k : <<i, w[i - 1], w[i]>> \in R
Total(k, S, R) == \A i \in 1..k : \A s \in S : \E t \in S : <<i, s, t>> \in R

LEMMA Chain ==
  ASSUME NEW k \in Nat, NEW S, NEW s0 \in S, NEW R, Total(k, S, R)
  PROVE  \E w \in Runs(k, S) : w[0] = s0 /\ Steps(w, k, R)
<1>1. \A i \in 1..k : \A s \in S : \E t \in S : <<i, s, t>> \in R
  BY DEF Total
<1> DEFINE Is(w, j) == w[0] = s0 /\ \A i \in 1..j : <<i, w[i - 1], w[i]>> \in R
           P == {j \in 0..k : \E w \in [0..j -> S] : Is(w, j)}
<1>2. 0 \in P
  <2> DEFINE v == [i \in 0..0 |-> s0]
  <2>1. v \in [0..0 -> S] /\ v[0] = s0
    OBVIOUS
  <2>2. Is(v, 0)
    BY <2>1
  <2> HIDE DEF v, Is
  <2> QED
    BY <2>1, <2>2
<1>3. ASSUME NEW j \in 0..(k - 1), j \in P PROVE j + 1 \in P
  <2>1. PICK w \in [0..j -> S] : Is(w, j)
    BY <1>3
  <2>2. j + 1 \in 1..k /\ j \in 0..j /\ w[j] \in S
    OBVIOUS
  <2>3. PICK t \in S : <<j + 1, w[j], t>> \in R
    BY <1>1, <2>2
  <2> DEFINE v == [i \in 0..(j + 1) |-> IF i = j + 1 THEN t ELSE w[i]]
  <2>4. v \in [0..(j + 1) -> S]
    OBVIOUS
  <2>5. v[0] = s0
    BY <2>1
  <2>6. ASSUME NEW i \in 1..(j + 1) PROVE <<i, v[i - 1], v[i]>> \in R
    <3>1. CASE i = j + 1
      <4>1. i - 1 = j /\ j \in 0..(j + 1) /\ j # j + 1 /\ i \in 0..(j + 1)
        BY <3>1
      <4>2. v[i - 1] = w[j] /\ v[i] = t
        BY <3>1, <4>1
      <4> QED
        BY <2>3, <3>1, <4>2
    <3>2. CASE i # j + 1
      <4>1. i \in 1..j /\ i - 1 \in 0..j /\ i - 1 # j + 1 /\ i \in 0..(j + 1)
            /\ i - 1 \in 0..(j + 1)
        BY <3>2
      <4>2. v[i - 1] = w[i - 1] /\ v[i] = w[i]
        BY <3>2, <4>1
      <4> QED
        BY <2>1, <4>1, <4>2
    <3> QED
      BY <3>1, <3>2
  <2>7. Is(v, j + 1)
    BY <2>5, <2>6
  <2> HIDE DEF v, Is
  <2> QED
    BY <2>2, <2>4, <2>7
<1>4. k \in P
  <2> HIDE DEF P
  <2>1. \A j \in 0..k : j \in P
    BY <1>2, <1>3, UpTo
  <2> QED
    BY <2>1
<1> QED
  BY <1>4 DEF Steps, Runs

(* What every step keeps holds all along. *)
LEMMA ChainType ==
  ASSUME NEW k \in Nat, NEW S, NEW v, v = [i \in 0..k |-> v[i]], v[0] \in S,
         \A j \in 0..(k - 1) : v[j] \in S => v[j + 1] \in S
  PROVE  v \in Runs(k, S) /\ v \in [0..k -> S]
<1> DEFINE P == {j \in 0..k : v[j] \in S}
<1>1. 0 \in P
  OBVIOUS
<1>2. ASSUME NEW j \in 0..(k - 1), j \in P PROVE j + 1 \in P
  <2>1. j + 1 \in 0..k /\ v[j] \in S
    BY <1>2
  <2> QED
    BY <2>1
<1>3. \A j \in 0..k : j \in P
  <2> HIDE DEF P
  <2> QED
    BY <1>1, <1>2, UpTo
<1>4. \A j \in 0..k : v[j] \in S
  BY <1>3
<1> QED
  BY <1>4 DEF Runs

-----------------------------------------------------------------------------
Bit == {0, 1}

(* The recursion that Value is. *)
LEMMA ValueRec ==
  ASSUME NEW bits \in Seq(Bit)
  PROVE  \E v \in [0..Len(bits) -> Nat] :
           /\ Value(bits) = v[Len(bits)] /\ v[0] = 0
           /\ \A i \in 1..Len(bits) : v[i] = 2 * v[i - 1] + bits[i]
<1> DEFINE k == Len(bits)
           Def(v) == v = [i \in 0..k |-> IF i = 0 THEN 0 ELSE 2 * v[i - 1] + bits[i]]
           v == CHOOSE w : Def(w)
<1>1. k \in Nat /\ \A i \in 1..k : bits[i] \in Nat
  BY DEF Bit
<1>2. \E w : Def(w)
  <2> DEFINE R == {r \in (1..k) \X Nat \X Nat : r[3] = 2 * r[2] + bits[r[1]]}
  <2>1. Total(k, Nat, R)
    <3>1. ASSUME NEW i \in 1..k, NEW s \in Nat PROVE \E t \in Nat : <<i, s, t>> \in R
      <4>1. 2 * s + bits[i] \in Nat
        BY <1>1
      <4> QED
        BY <4>1
    <3> QED
      BY <3>1 DEF Total
  <2>2. PICK w \in Runs(k, Nat) : w[0] = 0 /\ Steps(w, k, R)
    <3> HIDE DEF R
    <3>1. k \in Nat /\ 0 \in Nat
      BY <1>1
    <3> HIDE DEF k
    <3> QED
      BY <2>1, <3>1, Chain, Zenon
  <2>3. \A i \in 1..k : w[i] = 2 * w[i - 1] + bits[i]
    BY <2>2 DEF Steps
  <2>4. \A i \in 0..k : w[i] = IF i = 0 THEN 0 ELSE 2 * w[i - 1] + bits[i]
    BY <1>1, <2>2, <2>3
  <2>5. Def(w)
    BY <2>4 DEF Runs
  <2> QED BY <2>5
<1>3. Def(v)
  <2> HIDE DEF Def
  <2> QED BY <1>2
<1>4. Value(bits) = v[k]
  BY DEF Value
<1>5. \A i \in 0..k : v[i] = IF i = 0 THEN 0 ELSE 2 * v[i - 1] + bits[i]
  <2> HIDE DEF v
  <2> QED BY <1>3
<1>6. v = [i \in 0..k |-> IF i = 0 THEN 0 ELSE 2 * v[i - 1] + bits[i]]
  <2> HIDE DEF v
  <2> QED BY <1>3
<1> HIDE DEF v, Def
<1>7. v[0] = 0 /\ \A i \in 1..k : v[i] = 2 * v[i - 1] + bits[i]
  BY <1>1, <1>5
<1>8. v \in [0..k -> Nat]
  <2>1. v[0] \in Nat
    BY <1>7
  <2>2. ASSUME NEW j \in 0..(k - 1), v[j] \in Nat PROVE v[j + 1] \in Nat
    <3>1. j + 1 \in 1..k /\ (j + 1) - 1 = j
      BY <1>1
    <3>2. v[j + 1] = 2 * v[j] + bits[j + 1]
      BY <1>7, <3>1
    <3> QED
      BY <1>1, <2>2, <3>1, <3>2
  <2>3. v = [i \in 0..k |-> v[i]] /\ k \in Nat
    BY <1>1, <1>6
  <2> HIDE DEF v
  <2> QED
    BY <2>1, <2>2, <2>3, ChainType, Zenon
<1> QED
  BY <1>4, <1>7, <1>8

LEMMA Doubled ==
  ASSUME NEW j \in 0..13
  PROVE  2^j \in Nat /\ 2^(j + 1) \in Nat /\ 2^(j + 1) = 2 * 2^j /\ 2^j > 0
<1>1. CASE j = 0
  <2>1. j + 1 = 1
    BY <1>1
  <2> QED
    BY <1>1, <2>1
<1>2. CASE j = 1
  <2>1. j + 1 = 2
    BY <1>2
  <2> QED
    BY <1>2, <2>1
<1>3. CASE j = 2
  <2>1. j + 1 = 3
    BY <1>3
  <2> QED
    BY <1>3, <2>1
<1>4. CASE j = 3
  <2>1. j + 1 = 4
    BY <1>4
  <2> QED
    BY <1>4, <2>1
<1>5. CASE j = 4
  <2>1. j + 1 = 5
    BY <1>5
  <2> QED
    BY <1>5, <2>1
<1>6. CASE j = 5
  <2>1. j + 1 = 6
    BY <1>6
  <2> QED
    BY <1>6, <2>1
<1>7. CASE j = 6
  <2>1. j + 1 = 7
    BY <1>7
  <2> QED
    BY <1>7, <2>1
<1>8. CASE j = 7
  <2>1. j + 1 = 8
    BY <1>8
  <2> QED
    BY <1>8, <2>1
<1>9. CASE j = 8
  <2>1. j + 1 = 9
    BY <1>9
  <2> QED
    BY <1>9, <2>1
<1>10. CASE j = 9
  <2>1. j + 1 = 10
    BY <1>10
  <2> QED
    BY <1>10, <2>1
<1>11. CASE j = 10
  <2>1. j + 1 = 11
    BY <1>11
  <2> QED
    BY <1>11, <2>1
<1>12. CASE j = 11
  <2>1. j + 1 = 12
    BY <1>12
  <2> QED
    BY <1>12, <2>1
<1>13. CASE j = 12
  <2>1. j + 1 = 13
    BY <1>13
  <2> QED
    BY <1>13, <2>1
<1>14. CASE j = 13
  <2>1. j + 1 = 14
    BY <1>14
  <2> QED
    BY <1>14, <2>1
<1> QED
  BY <1>1, <1>2, <1>3, <1>4, <1>5, <1>6, <1>7, <1>8, <1>9, <1>10, <1>11, <1>12, <1>13, <1>14

(* k bits make a number below 2^k. *)
LEMMA ValueBound ==
  ASSUME NEW bits \in Seq(Bit), Len(bits) <= 14
  PROVE  Value(bits) \in Nat /\ Value(bits) < 2^Len(bits)
<1> DEFINE k == Len(bits)
<1>1. PICK v \in [0..k -> Nat] : /\ Value(bits) = v[k] /\ v[0] = 0
                               /\ \A i \in 1..k : v[i] = 2 * v[i - 1] + bits[i]
  BY ValueRec
<1> DEFINE P == {j \in 0..k : v[j] < 2^j}
<1>2. k \in Nat /\ k \in 0..14 /\ \A i \in 1..k : bits[i] \in Bit
  OBVIOUS
<1> HIDE DEF k
<1>3. 0 \in P
  BY <1>1, <1>2
<1>4. \A j \in 0..(k - 1) : j \in P => j + 1 \in P
  <2> SUFFICES ASSUME NEW j \in 0..(k - 1), j \in P PROVE j + 1 \in P
    OBVIOUS
  <2>1. j \in 0..13 /\ j + 1 \in 1..k /\ j + 1 \in 0..k /\ j \in 0..k /\ (j + 1) - 1 = j
    BY <1>2
  <2>2. v[j + 1] = 2 * v[j] + bits[j + 1] /\ v[j] \in Nat
    BY <1>1, <2>1
  <2>3. bits[j + 1] \in Bit
    BY <1>2, <2>1
  <2>4. 2^j \in Nat /\ 2^(j + 1) = 2 * 2^j
    BY <2>1, Doubled
  <2>5. v[j] < 2^j
    OBVIOUS
  <2> DEFINE a == v[j]
             p == 2^j
  <2>6. 2 * a + bits[j + 1] < 2 * p
    <3> HIDE DEF a, p
    <3>1. a \in Nat /\ p \in Nat /\ a < p
      BY <2>2, <2>4, <2>5 DEF a, p
    <3> QED
      BY <2>3, <3>1 DEF Bit
  <2>7. v[j + 1] < 2^(j + 1)
    BY <2>2, <2>4, <2>6
  <2> QED
    BY <2>1, <2>7
<1> HIDE DEF P
<1>5. \A j \in 0..k : j \in P
  BY <1>2, <1>3, <1>4, UpTo
<1>6. k \in 0..k
  BY <1>2
<1>7. v[k] < 2^k /\ v[k] \in Nat
  BY <1>1, <1>5, <1>6 DEF P
<1> QED
  BY <1>1, <1>7 DEF k


LEMMA OfByte ==
  ASSUME NEW x \in Byte
  PROVE  x \in Int /\ 0 <= x /\ x <= 255
BY DEF Byte

LEMMA ArrayIsSeq ==
  ASSUME NEW k \in Nat, NEW S, NEW f \in [1..k -> S]
  PROVE  f \in Seq(S) /\ Len(f) = k
OBVIOUS

(* Eight bits make a byte. *)
LEMMA ValueByte ==
  ASSUME NEW bits \in [1..8 -> Bit]
  PROVE  Value(bits) \in Byte
<1>1. bits \in Seq(Bit) /\ Len(bits) = 8
  <2>1. 8 \in Nat
    OBVIOUS
  <2> QED
    BY <2>1, ArrayIsSeq
<1>2. Value(bits) \in Nat /\ Value(bits) < 2^Len(bits)
  <2>1. Len(bits) <= 14
    BY <1>1
  <2> QED
    BY <1>1, <2>1, ValueBound, Zenon
<1>3. 2^8 = 256 /\ Value(bits) < 2^8
  BY <1>1, <1>2
<1> DEFINE x == Value(bits)
<1> HIDE DEF x
<1>4. x \in Nat /\ x < 256
  BY <1>2, <1>3 DEF x
<1>5. x \in Byte
  BY <1>4 DEF Byte
<1> QED
  BY <1>5 DEF x

LEMMA OneBit ==
  ASSUME NEW x \in Int, NEW e \in 0..14
  PROVE  (x \div 2^e) % 2 \in Bit
<1>1. 2^e \in Nat /\ 2^e > 0
  <2>1. CASE e = 14
    BY <2>1
  <2>2. CASE e # 14
    <3>1. e \in 0..13
      BY <2>2
    <3> QED
      BY <3>1, Doubled
  <2> QED
    BY <2>1, <2>2
<1> DEFINE p == 2^e
<1>2. x \div p \in Int
  <2> HIDE DEF p
  <2>1. p \in Nat /\ p > 0
    BY <1>1 DEF p
  <2> QED
    BY <2>1
<1> DEFINE y == x \div p
<1>3. y \in Int
  BY <1>2
<1> HIDE DEF y, p
<1>4. y % 2 \in Bit
  BY <1>3 DEF Bit
<1> QED
  BY <1>4 DEF y, p

LEMMA BytesAsBits ==
  ASSUME NEW buf \in Seq(Byte)
  PROVE  ByteBits(buf) \in Seq(Bit) /\ Len(ByteBits(buf)) = 8 * Len(buf)
<1> DEFINE k == 8 * Len(buf)
<1>1. k \in Nat
  OBVIOUS
<1>2. ASSUME NEW i \in 1..k
      PROVE  (buf[(i - 1) \div 8 + 1] \div 2^(7 - ((i - 1) % 8))) % 2 \in Bit
  <2>1. (i - 1) \div 8 + 1 \in 1..Len(buf)
    OBVIOUS
  <2>2. buf[(i - 1) \div 8 + 1] \in Int
    <3> DEFINE j == (i - 1) \div 8 + 1
    <3> HIDE DEF j
    <3>1. buf[j] \in Byte
      BY <2>1 DEF j
    <3>2. buf[j] \in Int
      BY <3>1, OfByte, Zenon
    <3> QED
      BY <3>2 DEF j
  <2>3. 7 - ((i - 1) % 8) \in 0..14
    OBVIOUS
  <2> QED
    BY <2>2, <2>3, OneBit
<1>3. ByteBits(buf) = [i \in 1..k |-> (buf[(i - 1) \div 8 + 1] \div 2^(7 - ((i - 1) % 8))) % 2]
  BY DEF ByteBits
<1> HIDE DEF k
<1>4. ByteBits(buf) \in [1..k -> Bit]
  BY <1>2, <1>3
<1>5. ByteBits(buf) \in Seq(Bit) /\ Len(ByteBits(buf)) = k
  BY <1>1, <1>4
<1> QED
  BY <1>5 DEF k

LEMMA BitsType ==
  ASSUME NEW x \in Int, NEW k \in 0..14
  PROVE  Bits(x, k) \in Seq(Bit) /\ Len(Bits(x, k)) = k
<1>1. ASSUME NEW i \in 1..k PROVE (x \div 2^(k - i)) % 2 \in Bit
  <2>1. k - i \in 0..14
    OBVIOUS
  <2> QED
    BY <2>1, OneBit
<1>2. Bits(x, k) \in [1..k -> Bit]
  BY <1>1 DEF Bits
<1> QED
  BY <1>2

LEMMA ZeroBits ==
  ASSUME NEW k \in Nat
  PROVE  Zeros(k) \in Seq(Bit) /\ Len(Zeros(k)) = k /\ Zeros(k) \in Seq(Byte)
BY DEF Zeros, Bit, Byte

(* The bits of a value of a sequence. *)
LEMMA Field ==
  ASSUME NEW s \in Seq(Bit), NEW a \in Nat, NEW k \in 1..14, a + k <= Len(s)
  PROVE  /\ SubSeq(s, a + 1, a + k) \in Seq(Bit)
         /\ Len(SubSeq(s, a + 1, a + k)) = k
         /\ Value(SubSeq(s, a + 1, a + k)) \in Nat
         /\ Value(SubSeq(s, a + 1, a + k)) < 2^k
<1> DEFINE t == SubSeq(s, a + 1, a + k)
<1>1. t \in Seq(Bit) /\ Len(t) = k
  OBVIOUS
<1> HIDE DEF t
<1>2. Value(t) \in Nat /\ Value(t) < 2^Len(t)
  BY <1>1, ValueBound
<1> QED
  BY <1>1, <1>2 DEF t

Acc       == {a \in Seq(Bit) : Len(a) = AccBits}
PushState == [acc : Acc, len : 0..7, buf : Seq(Byte)]

(* A push keeps acc as it is, and adds bytes.                              *)
LEMMA PushType ==
  ASSUME NEW st \in PushState, NEW piece \in Seq(Bit)
  PROVE  Push(st, piece) \in PushState
<1> DEFINE all   == st.acc \o piece
           acc   == SubSeq(all, Len(all) - AccBits + 1, Len(all))
           len   == st.len + Len(piece)
           bit(k) == IF k < AccBits THEN acc[AccBits - k] ELSE 0
           byte(j) == Value([i \in 1..8 |-> bit(len - 8 * j + 8 - i)])
           new   == [j \in 1..(len \div 8) |-> byte(j)]
<1>1. st.acc \in Seq(Bit) /\ Len(st.acc) = 32 /\ st.len \in 0..7 /\ st.buf \in Seq(Byte)
  BY DEF PushState, Acc, AccBits
<1>2. acc \in Seq(Bit) /\ Len(acc) = 32
  <2>1. all \in Seq(Bit) /\ Len(all) = 32 + Len(piece)
    <3> DEFINE a == st.acc
    <3> HIDE DEF a
    <3>1. a \in Seq(Bit) /\ Len(a) = 32
      BY <1>1 DEF a
    <3>2. a \o piece \in Seq(Bit) /\ Len(a \o piece) = Len(a) + Len(piece)
      BY <3>1, ConcatProperties, Zenon
    <3> QED
      BY <3>1, <3>2 DEF a
  <2> HIDE DEF all
  <2> QED
    BY <2>1 DEF AccBits
<1>3. len \in Nat /\ len \div 8 \in Nat /\ len % 8 \in 0..7
  <2>1. len \in Nat
    BY <1>1
  <2> HIDE DEF len
  <2> QED
    BY <2>1
<1> HIDE DEF acc, len
<1>4. ASSUME NEW k \in Nat PROVE bit(k) \in Bit
  <2>1. CASE k < 32
    <3>1. 32 - k \in 1..Len(acc)
      BY <1>2, <2>1
    <3>2. acc[32 - k] \in Bit
      BY <1>2, <3>1, ElementOfSeq, Zenon
    <3> QED
      BY <2>1, <3>2 DEF AccBits
  <2>2. CASE ~(k < 32)
    BY <2>2 DEF AccBits, Bit
  <2> QED
    BY <2>1, <2>2
<1> HIDE DEF bit
<1>5. ASSUME NEW j \in 1..(len \div 8) PROVE byte(j) \in Byte
  <2>1. ASSUME NEW i \in 1..8 PROVE bit(len - 8 * j + 8 - i) \in Bit
    <3>1. len - 8 * j + 8 - i \in Nat
      BY <1>3
    <3> QED
      BY <1>4, <3>1
  <2>2. [i \in 1..8 |-> bit(len - 8 * j + 8 - i)] \in [1..8 -> Bit]
    BY <2>1
  <2> QED
    BY <2>2, ValueByte
<1> HIDE DEF byte
<1>6. new \in Seq(Byte)
  <2>1. new \in [1..(len \div 8) -> Byte]
    BY <1>5
  <2> HIDE DEF new
  <2> QED
    BY <1>3, <2>1, ArrayIsSeq
<1> HIDE DEF new
<1>7. st.buf \o new \in Seq(Byte)
  BY <1>1, <1>6
<1>8. Push(st, piece) = [acc |-> acc, len |-> len % 8, buf |-> st.buf \o new]
  BY DEF Push, acc, len, bit, byte, new
<1>9. acc \in Acc
  BY <1>2 DEF Acc, AccBits
<1> QED
  BY <1>3, <1>7, <1>8, <1>9 DEF PushState

FirstState == [acc |-> Zeros(AccBits), len |-> 0, buf |-> <<>>]

LEMMA FirstType == FirstState \in PushState
<1>1. Zeros(AccBits) \in Acc
  <2>1. AccBits \in Nat
    BY DEF AccBits
  <2> QED
    BY <2>1, ZeroBits DEF Acc
<1> QED
  BY <1>1 DEF FirstState, PushState

(* The states that the encoder goes through. *)
LEMMA WrittenRec ==
  ASSUME NEW pieces \in Seq(Seq(Bit))
  PROVE  \E w \in [0..Len(pieces) -> PushState] :
           /\ w[0] = FirstState
           /\ \A i \in 1..Len(pieces) : w[i] = Push(w[i - 1], pieces[i])
           /\ LET st   == w[Len(pieces)]
                  rest == SubSeq(st.acc, AccBits - st.len + 1, AccBits) \o Zeros(8 - st.len)
              IN  Written(pieces) = IF st.len = 0 THEN st.buf ELSE Append(st.buf, Value(rest))
<1> DEFINE k == Len(pieces)
           Def(w) == w = [i \in 0..k |->
                            IF i = 0 THEN [acc |-> Zeros(AccBits), len |-> 0, buf |-> <<>>]
                            ELSE Push(w[i - 1], pieces[i])]
           v == CHOOSE w : Def(w)
<1>1. k \in Nat /\ \A i \in 1..k : pieces[i] \in Seq(Bit)
  OBVIOUS
<1>2. PICK w \in [0..k -> PushState] :
        w[0] = FirstState /\ \A i \in 1..k : w[i] = Push(w[i - 1], pieces[i])
  <2> DEFINE U == {r \in (1..k) \X PushState \X PushState : r[3] = Push(r[2], pieces[r[1]])}
  <2>1. Total(k, PushState, U)
    <3>1. ASSUME NEW i \in 1..k, NEW s \in PushState
          PROVE  \E t \in PushState : <<i, s, t>> \in U
      <4>1. Push(s, pieces[i]) \in PushState
        BY <1>1, PushType
      <4> QED
        BY <4>1
    <3> QED
      BY <3>1 DEF Total
  <2>2. PICK w \in Runs(k, PushState) : w[0] = FirstState /\ Steps(w, k, U)
    <3> HIDE DEF U, k
    <3> QED
      BY <1>1, <2>1, FirstType, Chain, Zenon
  <2>3. \A i \in 1..k : w[i] = Push(w[i - 1], pieces[i])
    BY <2>2 DEF Steps
  <2> QED
    BY <2>2, <2>3 DEF Runs
<1>3. Def(w)
  <2>1. ASSUME NEW i \in 0..k
        PROVE  w[i] = IF i = 0 THEN [acc |-> Zeros(AccBits), len |-> 0, buf |-> <<>>]
                      ELSE Push(w[i - 1], pieces[i])
    <3>1. CASE i = 0
      BY <1>2, <3>1 DEF FirstState
    <3>2. CASE i # 0
      <4>1. i \in 1..k
        BY <3>2
      <4> QED
        BY <1>2, <3>2, <4>1
    <3> QED
      BY <3>1, <3>2
  <2> QED
    BY <1>2, <2>1
<1>4. Def(v)
  <2> HIDE DEF Def
  <2> QED BY <1>3
<1>5. LET st   == v[k]
          rest == SubSeq(st.acc, AccBits - st.len + 1, AccBits) \o Zeros(8 - st.len)
      IN  Written(pieces) = IF st.len = 0 THEN st.buf ELSE Append(st.buf, Value(rest))
  BY DEF Written
<1> HIDE DEF v
<1>6. v[0] = FirstState /\ \A i \in 1..k : v[i] = Push(v[i - 1], pieces[i])
  <2>1. \A i \in 0..k : v[i] = IF i = 0 THEN [acc |-> Zeros(AccBits), len |-> 0, buf |-> <<>>]
                               ELSE Push(v[i - 1], pieces[i])
    BY <1>4
  <2> QED
    BY <1>1, <2>1 DEF FirstState
<1>7. v \in [0..k -> PushState]
  <2>1. v[0] \in PushState
    BY <1>6, FirstType
  <2>2. ASSUME NEW j \in 0..(k - 1), v[j] \in PushState PROVE v[j + 1] \in PushState
    <3>1. j + 1 \in 1..k /\ (j + 1) - 1 = j
      BY <1>1
    <3>2. v[j + 1] = Push(v[j], pieces[j + 1])
      BY <1>6, <3>1
    <3> QED
      BY <1>1, <2>2, <3>1, <3>2, PushType
  <2>3. v = [i \in 0..k |-> v[i]] /\ k \in Nat
    BY <1>1, <1>4
  <2> HIDE DEF v
  <2> QED
    BY <2>1, <2>2, <2>3, ChainType, Zenon
<1> HIDE DEF Def
<1> QED
  BY <1>5, <1>6, <1>7

(* Whatever is written is bytes. *)
LEMMA WrittenType ==
  ASSUME NEW pieces \in Seq(Seq(Bit))
  PROVE  Written(pieces) \in Seq(Byte)
<1>1. PICK st \in PushState :
        LET rest == SubSeq(st.acc, AccBits - st.len + 1, AccBits) \o Zeros(8 - st.len)
        IN  Written(pieces) = IF st.len = 0 THEN st.buf ELSE Append(st.buf, Value(rest))
  <2>1. Len(pieces) \in 0..Len(pieces)
    OBVIOUS
  <2> QED
    BY <2>1, WrittenRec
<1>2. st.acc \in Seq(Bit) /\ Len(st.acc) = 32 /\ st.len \in 0..7 /\ st.buf \in Seq(Byte)
  BY DEF PushState, Acc, AccBits
<1> DEFINE rest == SubSeq(st.acc, AccBits - st.len + 1, AccBits) \o Zeros(8 - st.len)
<1>3. CASE st.len = 0
  BY <1>1, <1>2, <1>3
<1>4. CASE st.len # 0
  <2> DEFINE l == st.len
             a == SubSeq(st.acc, AccBits - l + 1, AccBits)
             z == Zeros(8 - l)
  <2>1. l \in 1..7
    BY <1>2, <1>4
  <2> HIDE DEF l
  <2>2. a \in Seq(Bit) /\ Len(a) = l
    <3> DEFINE c == st.acc
    <3> HIDE DEF c
    <3>1. c \in Seq(Bit) /\ Len(c) = 32
      BY <1>2 DEF c
    <3>2. \A i \in (32 - l + 1)..32 : c[i] \in Bit
      <4> SUFFICES ASSUME NEW i \in (32 - l + 1)..32 PROVE c[i] \in Bit
        OBVIOUS
      <4>1. i \in 1..Len(c)
        BY <2>1, <3>1
      <4> QED
        BY <3>1, <4>1, ElementOfSeq, Zenon
    <3>3. 32 - l + 1 \in Int /\ 32 \in Int /\ 32 - l + 1 <= 32 /\ 32 - (32 - l + 1) + 1 = l
      BY <2>1
    <3>4. SubSeq(c, 32 - l + 1, 32) \in Seq(Bit) /\ Len(SubSeq(c, 32 - l + 1, 32)) = l
      BY <3>2, <3>3, SubSeqProperties
    <3> QED
      BY <3>4 DEF c, AccBits
  <2>3. z \in Seq(Bit) /\ Len(z) = 8 - l
    BY <2>1, ZeroBits
  <2> HIDE DEF a, z
  <2> DEFINE b == a \o z
  <2>4. a \o z \in Seq(Bit) /\ Len(a \o z) = 8
    BY <2>1, <2>2, <2>3
  <2>5. b \in [1..8 -> Bit]
    <3> HIDE DEF b
    <3>1. b \in Seq(Bit) /\ Len(b) = 8
      BY <2>4 DEF b
    <3> QED
      BY <3>1, LenProperties
  <2>6. Value(rest) \in Byte
    BY <2>5, ValueByte DEF b, a, z, l
  <2>7. Append(st.buf, Value(rest)) \in Seq(Byte)
    <3> HIDE DEF rest
    <3> QED
      BY <1>2, <2>6
  <2> QED
    BY <1>1, <1>4, <2>7
<1> QED
  BY <1>3, <1>4

LEMMA MinIsLeast ==
  ASSUME NEW T \in SUBSET Nat, T # {}
  PROVE  Min(T) \in T /\ \A j \in T : Min(T) <= j
<1>1. PICK i \in T : \A j \in T : ~(<<j, i>> \in OpToRel(<, Nat))
  BY WFMin, NatLessThanWellFounded
<1>2. \A j \in Nat : j < i => j \notin T
  BY <1>1 DEF OpToRel
<1>3. \A j \in T : i <= j
  BY <1>2
<1> QED
  BY <1>1, <1>3 DEF Min

(* The fields of a buffer, from its first bit on.                          *)
LEMMA Fields ==
  ASSUME NEW buf \in Seq(Byte), NEW k \in 1..14, NEW count \in Nat,
         Bytes(k * count) <= Len(buf), NEW u \in 1..count
  PROVE  LET w == Value(SubSeq(ByteBits(buf), k * (u - 1) + 1, k * u))
         IN  w \in Nat /\ w < 2^k
<1> DEFINE s == ByteBits(buf)
           a == k * (u - 1)
<1>1. s \in Seq(Bit) /\ Len(s) = 8 * Len(buf)
  BY BytesAsBits
<1>2. a \in Nat /\ a + k = k * u /\ k * u <= k * count /\ k * count \in Nat /\ k * u \in Nat
  OBVIOUS
<1>3. k * u <= 8 * Len(buf)
  <2> DEFINE b == k * u
             c == k * count
             l == Len(buf)
  <2>1. b \in Nat /\ c \in Nat /\ b <= c /\ (c + 7) \div 8 <= l /\ l \in Nat
    BY <1>2 DEF Bytes
  <2> HIDE DEF b, c, l
  <2>2. b <= 8 * l
    BY <2>1
  <2> QED
    BY <2>2 DEF b, l
<1>4. a + k <= Len(s)
  BY <1>1, <1>2, <1>3
<1> HIDE DEF s, a
<1>5. Value(SubSeq(s, a + 1, a + k)) \in Nat /\ Value(SubSeq(s, a + 1, a + k)) < 2^k
  BY <1>1, <1>2, <1>4, Field
<1>6. a + k = k * u
  BY <1>2
<1> QED
  BY <1>5, <1>6 DEF s, a

Residue == 0..12288

LEMMA IsBelow ==
  ASSUME NEW t \in Nat, ~(t >= 12289)
  PROVE  t \in Residue
BY DEF Residue

(* modq_decode yields residues, whatever the bytes (codec.c:75-113). *)
THEOREM ModqDecodeType ==
  ASSUME NEW buf \in Seq(Byte), NEW count \in Nat
  PROVE  LET r == modq_decode(buf, count)
         IN  \/ r = Refused
             \/ r.x \in [1..count -> Residue] /\ r.v = Bytes(14 * count)
<1> DEFINE w(u) == Value(SubSeq(ByteBits(buf), 14 * (u - 1) + 1, 14 * u))
           x == [u \in 1..count |-> w(u)]
           r == modq_decode(buf, count)
<1>1. SUFFICES ASSUME r # Refused
      PROVE  r.x \in [1..count -> Residue] /\ r.v = Bytes(14 * count)
  OBVIOUS
<1>2. /\ Bytes(14 * count) <= Len(buf) /\ ~(\E u \in 1..count : x[u] >= 12289)
      /\ r = [x |-> x, v |-> Bytes(14 * count)]
  <2>1. ~(Bytes(14 * count) > Len(buf)) /\ ~(\E u \in 1..count : x[u] >= 12289)
        /\ r = [x |-> x, v |-> Bytes(14 * count)]
    BY <1>1 DEF modq_decode
  <2>2. Bytes(14 * count) \in Nat /\ Len(buf) \in Nat
    BY DEF Bytes
  <2> QED
    BY <2>1, <2>2
<1>3. ASSUME NEW u \in 1..count PROVE w(u) \in Residue
  <2>1. w(u) \in Nat
    <3>1. 14 \in 1..14
      OBVIOUS
    <3> QED
      BY <1>2, <3>1, Fields, SMTT(30)
  <2>2. ~(x[u] >= 12289) /\ x[u] = w(u)
    BY <1>2
  <2> DEFINE t == w(u)
  <2>3. t \in Nat /\ ~(t >= 12289)
    BY <2>1, <2>2
  <2> HIDE DEF t
  <2>4. t \in Residue
    BY <2>3, IsBelow
  <2> QED
    BY <2>4 DEF t
<1> HIDE DEF w
<1>4. x \in [1..count -> Residue]
  BY <1>3
<1> QED
  BY <1>2, <1>4

LEMMA Power ==
  ASSUME NEW k \in 2..14
  PROVE  2^(k - 1) \in Nat /\ 2^k \in Nat /\ 2^k = 2 * 2^(k - 1)
<1>1. k - 1 \in 0..13 /\ (k - 1) + 1 = k
  OBVIOUS
<1> QED
  BY <1>1, Doubled

(* trim_decode yields values of the width, never the most negative one     *)
(* (codec.c:160-209).                                                      *)
THEOREM TrimDecodeType ==
  ASSUME NEW buf \in Seq(Byte), NEW k \in 2..14, NEW count \in Nat
  PROVE  LET r == trim_decode(buf, k, count)
             top == 2^(k - 1) - 1
         IN  \/ r = Refused
             \/ r.x \in [1..count -> (-top)..top] /\ r.v = Bytes(k * count)
<1> DEFINE w(u) == Value(SubSeq(ByteBits(buf), k * (u - 1) + 1, k * u))
           e(u) == IF w(u) >= 2^(k - 1) THEN w(u) - 2^k ELSE w(u)
           x == [u \in 1..count |-> e(u)]
           r == trim_decode(buf, k, count)
           top == 2^(k - 1) - 1
<1>1. SUFFICES ASSUME r # Refused
      PROVE  r.x \in [1..count -> (-top)..top] /\ r.v = Bytes(k * count)
  OBVIOUS
<1>2. /\ Bytes(k * count) <= Len(buf) /\ ~(\E u \in 1..count : x[u] = -(2^(k - 1)))
      /\ r = [x |-> x, v |-> Bytes(k * count)]
  <2>1. ~(Bytes(k * count) > Len(buf)) /\ ~(\E u \in 1..count : x[u] = -(2^(k - 1)))
        /\ r = [x |-> x, v |-> Bytes(k * count)]
    BY <1>1 DEF trim_decode
  <2>2. Bytes(k * count) \in Nat /\ Len(buf) \in Nat
    <3>1. k * count \in Nat
      OBVIOUS
    <3> QED
      BY <3>1 DEF Bytes
  <2> QED
    BY <2>1, <2>2
<1>3. ASSUME NEW u \in 1..count PROVE e(u) \in (-top)..top
  <2>1. w(u) \in Nat /\ w(u) < 2^k
    <3>1. k \in 1..14
      OBVIOUS
    <3> QED
      BY <1>2, <3>1, Fields
  <2>2. e(u) # -(2^(k - 1))
    BY <1>2
  <2> DEFINE a == w(u)
             p == 2^(k - 1)
             q == 2^k
  <2>3. a \in Nat /\ a < q /\ p \in Nat /\ q = 2 * p
    BY <2>1, Power
  <2>4. (IF a >= p THEN a - q ELSE a) # -p
    BY <2>2
  <2> HIDE DEF a, p, q
  <2>5. (IF a >= p THEN a - q ELSE a) \in (-(p - 1))..(p - 1)
    BY <2>3, <2>4
  <2> QED
    BY <2>5 DEF a, p, q
<1> HIDE DEF e, top
<1>4. x \in [1..count -> (-top)..top]
  BY <1>3
<1> QED
  BY <1>2, <1>4

CompState(l) == [x : Seq(Coefficient), p : (-1)..l]

LEMMA IsCoefficient ==
  ASSUME NEW t \in Nat, ~(t > 2047)
  PROVE  t \in Coefficient /\ -t \in Coefficient
BY DEF Coefficient

LEMMA CompValueType ==
  ASSUME NEW s \in Seq(Bit), NEW st \in CompState(Len(s))
  PROVE  LET d == CompValue(s, st)
         IN  /\ d \in CompState(Len(s))
             /\ d.p = -1 \/ (st.p # -1 /\ Len(d.x) = Len(st.x) + 1)
<1> DEFINE p    == st.p
           ones == {i \in (p + 9)..Len(s) : s[i] = 1}
           stop == Min(ones)
           m    == Value(SubSeq(s, p + 2, p + 8)) + 128 * (stop - (p + 9))
           neg  == s[p + 1] = 1
           d    == CompValue(s, st)
<1> SUFFICES d \in CompState(Len(s)) /\ (d.p = -1 \/ (st.p # -1 /\ Len(d.x) = Len(st.x) + 1))
  OBVIOUS
<1>1. st.x \in Seq(Coefficient) /\ p \in (-1)..Len(s) /\ Len(s) \in Nat
      /\ st = [x |-> st.x, p |-> st.p]
  BY DEF CompState
<1>2. CASE d = [st EXCEPT !.p = -1]
  <2>1. d.p = -1 /\ d.x = st.x /\ d = [x |-> st.x, p |-> -1]
    <3> HIDE DEF d
    <3> QED
      BY <1>1, <1>2
  <2>2. -1 \in (-1)..Len(s)
    BY <1>1
  <2> HIDE DEF d
  <2>3. d \in CompState(Len(s))
    BY <1>1, <2>1, <2>2 DEF CompState
  <2> QED
    BY <2>1, <2>3
<1>3. CASE d # [st EXCEPT !.p = -1]
  <2>1. /\ p # -1 /\ ~(p + 8 > Len(s)) /\ ones # {} /\ ~(m > 2047)
        /\ d = [x |-> Append(st.x, IF neg THEN -m ELSE m), p |-> stop]
    BY <1>3 DEF CompValue
  <2>2. ones \in SUBSET Nat /\ ones \subseteq (p + 9)..Len(s)
    BY <1>1, <2>1
  <2>3. stop \in ones
    <3>1. ones # {}
      BY <2>1
    <3> HIDE DEF ones
    <3> QED
      BY <2>2, <3>1, MinIsLeast, Zenon
  <2> HIDE DEF p, ones, stop
  <2>4. stop \in (p + 9)..Len(s) /\ stop \in (-1)..Len(s) /\ p \in Nat
    BY <1>1, <2>1, <2>2, <2>3
  <2>5. Value(SubSeq(s, p + 2, p + 8)) \in Nat
    <3>1. p + 1 \in Nat /\ 7 \in 1..14 /\ (p + 1) + 7 <= Len(s)
          /\ (p + 1) + 1 = p + 2 /\ (p + 1) + 7 = p + 8
      BY <1>1, <2>1, <2>4, SMTT(30)
    <3>2. Value(SubSeq(s, (p + 1) + 1, (p + 1) + 7)) \in Nat
      BY <3>1, Field, Zenon
    <3> QED
      BY <3>1, <3>2
  <2> DEFINE v == Value(SubSeq(s, p + 2, p + 8))
  <2>6. v + 128 * (stop - (p + 9)) \in Nat
    <3> HIDE DEF v
    <3>1. v \in Nat
      BY <2>5 DEF v
    <3> QED
      BY <2>4, <3>1
  <2>7. m \in Nat
    BY <2>6
  <2> HIDE DEF m, neg
  <2>8. m \in Coefficient /\ -m \in Coefficient
    BY <2>1, <2>7, IsCoefficient
  <2> DEFINE t == IF neg THEN -m ELSE m
  <2>9. t \in Coefficient
    BY <2>8
  <2> HIDE DEF t, d
  <2>10. d = [x |-> Append(st.x, t), p |-> stop]
    BY <2>1 DEF t
  <2> DEFINE z == st.x
  <2>11. z \in Seq(Coefficient) /\ Append(z, t) \in Seq(Coefficient)
         /\ Len(Append(z, t)) = Len(z) + 1
    <3>1. z \in Seq(Coefficient)
      BY <1>1
    <3> HIDE DEF z
    <3> QED
      BY <2>9, <3>1
  <2>12. d.x = Append(z, t) /\ d.p = stop
    BY <2>10
  <2>13. d \in CompState(Len(s))
    <3> HIDE DEF z
    <3> QED
      BY <2>4, <2>10, <2>11 DEF CompState, z
  <2> QED
    BY <2>1, <2>11, <2>12, <2>13 DEF p
<1> QED
  BY <1>2, <1>3

(* The states that the decoder goes through. *)
LEMMA CompRec ==
  ASSUME NEW buf \in Seq(Byte), NEW count \in Nat
  PROVE  LET s == ByteBits(buf)
         IN  \E w \in [0..count -> CompState(Len(s))] :
               /\ w[0] = [x |-> <<>>, p |-> 0]
               /\ \A u \in 1..count : w[u] = CompValue(s, w[u - 1])
               /\ comp_decode(buf, count) =
                    IF w[count].p = -1 \/ ~PaddedWithZeros(s, w[count].p) THEN Refused
                    ELSE [x |-> w[count].x, v |-> Bytes(w[count].p)]
<1> DEFINE s == ByteBits(buf)
           X == CompState(Len(s))
           Def(w) == w = [u \in 0..count |->
                            IF u = 0 THEN [x |-> <<>>, p |-> 0] ELSE CompValue(s, w[u - 1])]
           v == CHOOSE w : Def(w)
<1>1. s \in Seq(Bit) /\ Len(s) \in Nat
  BY BytesAsBits
<1>2. [x |-> <<>>, p |-> 0] \in X
  <2>1. 0 \in (-1)..Len(s)
    BY <1>1
  <2> QED
    BY <2>1 DEF CompState
<1>3. ASSUME NEW t \in X PROVE CompValue(s, t) \in X
  BY <1>1, CompValueType
<1> HIDE DEF X
<1>4. PICK w \in [0..count -> X] :
        w[0] = [x |-> <<>>, p |-> 0] /\ \A u \in 1..count : w[u] = CompValue(s, w[u - 1])
  <2> DEFINE U == {r \in (1..count) \X X \X X : r[3] = CompValue(s, r[2])}
             s0 == [x |-> <<>>, p |-> 0]
  <2>1. Total(count, X, U)
    <3>1. ASSUME NEW i \in 1..count, NEW t \in X PROVE \E z \in X : <<i, t, z>> \in U
      <4>1. CompValue(s, t) \in X
        BY <1>3
      <4> QED
        BY <4>1
    <3> QED
      BY <3>1 DEF Total
  <2>2. s0 \in X
    BY <1>2
  <2>3. PICK w \in Runs(count, X) : w[0] = s0 /\ Steps(w, count, U)
    <3> HIDE DEF U, s0
    <3> QED
      BY <2>1, <2>2, Chain, Zenon
  <2>4. \A u \in 1..count : w[u] = CompValue(s, w[u - 1])
    BY <2>3 DEF Steps
  <2> QED
    BY <2>3, <2>4 DEF Runs
<1>5. Def(w)
  <2>1. ASSUME NEW u \in 0..count
        PROVE  w[u] = IF u = 0 THEN [x |-> <<>>, p |-> 0] ELSE CompValue(s, w[u - 1])
    <3>1. CASE u = 0
      BY <1>4, <3>1
    <3>2. CASE u # 0
      <4>1. u \in 1..count
        BY <3>2
      <4> QED
        BY <1>4, <3>2, <4>1
    <3> QED
      BY <3>1, <3>2
  <2> QED
    BY <1>4, <2>1
<1>6. Def(v)
  <2> HIDE DEF Def
  <2> QED BY <1>5
<1>7. comp_decode(buf, count) =
        IF v[count].p = -1 \/ ~PaddedWithZeros(s, v[count].p) THEN Refused
        ELSE [x |-> v[count].x, v |-> Bytes(v[count].p)]
  BY DEF comp_decode
<1> HIDE DEF v
<1>8. v[0] = [x |-> <<>>, p |-> 0] /\ \A u \in 1..count : v[u] = CompValue(s, v[u - 1])
  <2>1. \A u \in 0..count : v[u] = IF u = 0 THEN [x |-> <<>>, p |-> 0]
                                   ELSE CompValue(s, v[u - 1])
    BY <1>6
  <2> QED
    BY <2>1
<1>9. v \in [0..count -> X]
  <2>1. v[0] \in X
    BY <1>2, <1>8
  <2>2. ASSUME NEW j \in 0..(count - 1), v[j] \in X PROVE v[j + 1] \in X
    <3>1. j + 1 \in 1..count /\ (j + 1) - 1 = j
      BY <1>1
    <3>2. v[j + 1] = CompValue(s, v[j])
      BY <1>8, <3>1
    <3> QED
      BY <1>3, <2>2, <3>2
  <2>3. v = [i \in 0..count |-> v[i]] /\ count \in Nat
    BY <1>1, <1>6
  <2> HIDE DEF v
  <2> QED
    BY <2>1, <2>2, <2>3, ChainType, Zenon
<1> HIDE DEF Def
<1> QED
  BY <1>7, <1>8, <1>9 DEF X

(* comp_decode yields as many values as are asked for, in their range,     *)
(* whatever the bytes (codec.c:403-473).                                   *)
THEOREM CompDecodeType ==
  ASSUME NEW buf \in Seq(Byte), NEW count \in Nat
  PROVE  LET r == comp_decode(buf, count)
         IN  r = Refused \/ r.x \in [1..count -> Coefficient]
<1> DEFINE s == ByteBits(buf)
<1>1. PICK w \in [0..count -> CompState(Len(s))] :
        /\ w[0] = [x |-> <<>>, p |-> 0]
        /\ \A u \in 1..count : w[u] = CompValue(s, w[u - 1])
        /\ comp_decode(buf, count) =
             IF w[count].p = -1 \/ ~PaddedWithZeros(s, w[count].p) THEN Refused
             ELSE [x |-> w[count].x, v |-> Bytes(w[count].p)]
  BY CompRec
<1>2. s \in Seq(Bit)
  BY BytesAsBits
<1> HIDE DEF s
<1> DEFINE P == {j \in 0..count : w[j].p = -1 \/ Len(w[j].x) = j}
<1>3. 0 \in P
  <2>1. Len(<<>>) = 0
    OBVIOUS
  <2>2. w[0].x = <<>>
    BY <1>1
  <2> QED
    BY <2>1, <2>2
<1>4. \A j \in 0..(count - 1) : j \in P => j + 1 \in P
  <2> SUFFICES ASSUME NEW j \in 0..(count - 1), j \in P PROVE j + 1 \in P
    OBVIOUS
  <2>1. j + 1 \in 1..count /\ (j + 1) - 1 = j /\ j \in 0..count /\ j + 1 \in 0..count
    OBVIOUS
  <2>2. w[j + 1] = CompValue(s, w[j]) /\ w[j] \in CompState(Len(s))
    BY <1>1, <2>1
  <2>3. w[j + 1].p = -1 \/ (w[j].p # -1 /\ Len(w[j + 1].x) = Len(w[j].x) + 1)
    BY <1>2, <2>2, CompValueType
  <2>4. w[j].p = -1 \/ Len(w[j].x) = j
    OBVIOUS
  <2>5. w[j + 1].p = -1 \/ Len(w[j + 1].x) = j + 1
    BY <2>3, <2>4
  <2> QED
    BY <2>1, <2>5
<1> HIDE DEF P
<1>5. \A j \in 0..count : j \in P
  BY <1>3, <1>4, UpTo
<1>6. w[count].p = -1 \/ Len(w[count].x) = count
  BY <1>5 DEF P
<1>7. w[count] \in CompState(Len(s))
  BY <1>1
<1>8. w[count].x \in Seq(Coefficient)
  BY <1>7 DEF CompState
<1> DEFINE r == comp_decode(buf, count)
<1>9. ASSUME r # Refused PROVE r.x \in [1..count -> Coefficient]
  <2>1. r.x = w[count].x /\ w[count].p # -1
    BY <1>1, <1>9
  <2> DEFINE z == w[count].x
  <2> HIDE DEF z, r
  <2>2. r.x = z /\ z \in Seq(Coefficient) /\ Len(z) = count
    BY <1>6, <1>8, <2>1 DEF z
  <2> QED
    BY <2>2, LenProperties
<1> QED
  BY <1>9

-----------------------------------------------------------------------------
(* Encoders yield bytes. *)
LEMMA FieldsWritten ==
  ASSUME NEW x \in Seq(Int), NEW k \in 0..14
  PROVE  Written([u \in DOMAIN x |-> Bits(x[u], k)]) \in Seq(Byte)
<1> DEFINE pieces == [u \in DOMAIN x |-> Bits(x[u], k)]
<1>1. DOMAIN x = 1..Len(x) /\ Len(x) \in Nat /\ \A u \in 1..Len(x) : x[u] \in Int
  BY LenProperties
<1>2. pieces \in [1..Len(x) -> Seq(Bit)]
  BY <1>1, BitsType
<1> HIDE DEF pieces
<1>3. pieces \in Seq(Seq(Bit))
  BY <1>1, <1>2, ArrayIsSeq
<1> QED
  BY <1>3, WrittenType DEF pieces

LEMMA CompPieceType ==
  ASSUME NEW t \in Int
  PROVE  CompPiece(t) \in Seq(Bit)
<1> DEFINE w == IF t < 0 THEN -t ELSE t
           h == IF t < 0 THEN 1 ELSE 0
           b == Bits(w, 7)
           z == Zeros(w \div 128)
<1>1. w \in Nat /\ h \in Bit
  BY DEF Bit
<1> HIDE DEF w, h
<1>2. b \in Seq(Bit)
  <2>1. w \in Int /\ 7 \in 0..14
    BY <1>1
  <2> QED
    BY <2>1, BitsType
<1>3. z \in Seq(Bit)
  <2>1. w \div 128 \in Nat
    BY <1>1
  <2> QED
    BY <2>1, ZeroBits
<1> HIDE DEF b, z
<1>4. <<h>> \in Seq(Bit) /\ <<1>> \in Seq(Bit)
  BY <1>1 DEF Bit
<1>5. <<h>> \o b \in Seq(Bit)
  BY <1>2, <1>4, ConcatProperties
<1>6. <<h>> \o b \o z \in Seq(Bit)
  BY <1>3, <1>5, ConcatProperties
<1>7. <<h>> \o b \o z \o <<1>> \in Seq(Bit)
  BY <1>4, <1>6, ConcatProperties
<1> QED
  BY <1>7 DEF CompPiece, w, h, b, z

LEMMA ModqEncodeType ==
  ASSUME NEW x \in Seq(Int), NEW room
  PROVE  modq_encode(x, room) \in Seq(Byte)
<1>1. <<>> \in Seq(Byte)
  OBVIOUS
<1>2. Written([u \in DOMAIN x |-> Bits(x[u], 14)]) \in Seq(Byte)
  <2>1. 14 \in 0..14
    OBVIOUS
  <2> QED
    BY <2>1, FieldsWritten
<1> QED
  BY <1>1, <1>2 DEF modq_encode

LEMMA TrimEncodeType ==
  ASSUME NEW x \in Seq(Int), NEW k \in 0..14, NEW room
  PROVE  trim_encode(x, k, room) \in Seq(Byte)
<1>1. <<>> \in Seq(Byte)
  OBVIOUS
<1>2. Written([u \in DOMAIN x |-> Bits(x[u], k)]) \in Seq(Byte)
  BY FieldsWritten
<1> QED
  BY <1>1, <1>2 DEF trim_encode

(* A compressed value fits in the room it is given. *)
THEOREM CompEncodeType ==
  ASSUME NEW x \in Seq(Int), NEW room \in Nat
  PROVE  comp_encode(x, room) \in Seq(Byte) /\ Len(comp_encode(x, room)) <= room
<1> DEFINE pieces == [u \in DOMAIN x |-> CompPiece(x[u])]
           out == Written(pieces)
<1>1. DOMAIN x = 1..Len(x) /\ Len(x) \in Nat /\ \A u \in 1..Len(x) : x[u] \in Int
  BY LenProperties
<1>2. pieces \in [1..Len(x) -> Seq(Bit)]
  BY <1>1, CompPieceType
<1>3. pieces \in Seq(Seq(Bit))
  <2> HIDE DEF pieces
  <2> QED
    BY <1>1, <1>2, ArrayIsSeq
<1>4. out \in Seq(Byte)
  <2> HIDE DEF pieces
  <2> QED
    BY <1>3, WrittenType
<1>5. <<>> \in Seq(Byte) /\ Len(<<>>) = 0
  OBVIOUS
<1>6. \/ comp_encode(x, room) = <<>>
      \/ comp_encode(x, room) = out /\ ~(Len(out) > room)
  BY DEF comp_encode
<1> HIDE DEF out
<1> DEFINE e == comp_encode(x, room)
<1> HIDE DEF e
<1>7. e \in Seq(Byte) /\ Len(e) <= room
  <2>1. CASE e = <<>>
    BY <1>5, <2>1
  <2>2. CASE e = out /\ ~(Len(out) > room)
    <3>1. Len(out) \in Nat
      BY <1>4, LenProperties
    <3> QED
      BY <1>4, <2>2, <3>1
  <2> QED
    BY <1>6, <2>1, <2>2 DEF e
<1> QED
  BY <1>7 DEF e

-----------------------------------------------------------------------------
(***************************************************************************)
(* Divisibility and remainders.                                            *)
(***************************************************************************)
Divides(k, z) == \E j \in Int : z = k * j

LEMMA DividesSum ==
  ASSUME NEW k \in Int, NEW c \in Int, NEW d \in Int, Divides(k, c), Divides(k, d)
  PROVE  Divides(k, c + d) /\ Divides(k, c - d)
<1>1. PICK i \in Int : c = k * i  BY DEF Divides
<1>2. PICK j \in Int : d = k * j  BY DEF Divides
<1>3. c + d = k * (i + j) /\ c - d = k * (i - j)  BY <1>1, <1>2, SMT
<1>4. i + j \in Int /\ i - j \in Int  OBVIOUS
<1> QED BY <1>3, <1>4 DEF Divides

LEMMA DividesTimes ==
  ASSUME NEW k \in Int, NEW c \in Int, NEW d \in Int, Divides(k, c)
  PROVE  Divides(k, d * c) /\ Divides(k, c * d)
<1>1. PICK i \in Int : c = k * i  BY DEF Divides
<1>2. d * c = k * (d * i) /\ c * d = k * (d * i)  BY <1>1, SMT
<1> QED BY <1>2 DEF Divides

LEMMA DividesMultiple ==
  ASSUME NEW k \in Int, NEW d \in Int
  PROVE  Divides(k, k * d) /\ Divides(k, d * k)
<1>1. d * k = k * d  BY SMT
<1> QED BY <1>1 DEF Divides

LEMMA DividesTrans ==
  ASSUME NEW k \in Int, NEW l \in Int, NEW c \in Int, Divides(k, l), Divides(l, c)
  PROVE  Divides(k, c)
<1>1. PICK i \in Int : l = k * i  BY DEF Divides
<1>2. PICK j \in Int : c = l * j  BY DEF Divides
<1>3. c = k * (i * j) /\ i * j \in Int  BY <1>1, <1>2, SMT
<1> QED BY <1>3 DEF Divides

(* The remainder and the number differ by a multiple. *)
LEMMA ModIs ==
  ASSUME NEW k \in Nat, k > 0, NEW z \in Int
  PROVE  /\ z % k \in 0..(k - 1) /\ z \div k \in Int /\ z = k * (z \div k) + (z % k)
         /\ Divides(k, z - (z % k))
<1>1. z % k \in 0..(k - 1) /\ z \div k \in Int /\ z = k * (z \div k) + (z % k)
  BY SMT
<1> DEFINE r == z % k
           q == z \div k
<1>2. z - r = k * q
  <2>1. r \in Int /\ q \in Int /\ z = k * q + r  BY <1>1
  <2> HIDE DEF r, q
  <2> QED BY <2>1, SMT
<1> HIDE DEF q, r
<1>3. Divides(k, z - r)  BY <1>1, <1>2 DEF Divides, q
<1> QED BY <1>1, <1>3 DEF r

(* Between -k and k there is one multiple of k. *)
LEMMA OnlyMultiple ==
  ASSUME NEW k \in Nat, k > 0, NEW z \in Int, Divides(k, z), -k < z, z < k
  PROVE  z = 0
<1>1. PICK j \in Int : z = k * j  BY DEF Divides
<1>2. CASE j >= 1
  <2>1. k * j >= k  BY <1>2, SMT
  <2> QED BY <1>1, <2>1
<1>3. CASE j <= -1
  <2>1. k * j <= -k  BY <1>3, SMT
  <2> QED BY <1>1, <2>1
<1>4. CASE j = 0  BY <1>1, <1>4
<1> QED BY <1>2, <1>3, <1>4

LEMMA ModZero ==
  ASSUME NEW k \in Nat, k > 0, NEW z \in Int
  PROVE  z % k = 0 <=> Divides(k, z)
<1> DEFINE r == z % k
<1>1. r \in 0..(k - 1) /\ Divides(k, z - r)  BY ModIs
<1> HIDE DEF r
<1>2. ASSUME r = 0 PROVE Divides(k, z)
  <2>1. z - r = z  BY <1>2
  <2> QED BY <1>1, <2>1
<1>3. ASSUME Divides(k, z) PROVE r = 0
  <2>1. z - r \in Int /\ z - (z - r) = r /\ r \in Int  BY <1>1
  <2>2. Divides(k, z - (z - r))  BY <1>1, <1>3, <2>1, DividesSum
  <2>3. Divides(k, r) /\ -k < r /\ r < k  BY <1>1, <2>1, <2>2
  <2> QED BY <2>1, <2>3, OnlyMultiple
<1> QED BY <1>2, <1>3 DEF r

(* A quotient and a remainder are known by what they must satisfy. *)
LEMMA DivIs ==
  ASSUME NEW k \in Nat, k > 0, NEW z \in Int, NEW q \in Int, NEW r \in 0..(k - 1),
         z = k * q + r
  PROVE  z \div k = q /\ z % k = r
<1> DEFINE p == z \div k
           t == z % k
<1>1. t \in 0..(k - 1) /\ p \in Int /\ z = k * p + t  BY ModIs
<1> HIDE DEF p, t
<1>2. t - r = k * (q - p) /\ q - p \in Int /\ t - r \in Int /\ -k < t - r /\ t - r < k
  BY <1>1, SMT
<1>3. Divides(k, t - r)  BY <1>2 DEF Divides
<1>4. t - r = 0  BY <1>2, <1>3, OnlyMultiple
<1>5. q - p = 0
  <2>1. k * (q - p) = 0  BY <1>2, <1>4
  <2> QED BY <1>2, <2>1, SMT
<1>6. t = r /\ p = q  BY <1>1, <1>2, <1>4, <1>5
<1> QED BY <1>6 DEF p, t

(* Numbers that differ by a multiple have the same remainder. *)
LEMMA SameRemainder ==
  ASSUME NEW k \in Nat, k > 0, NEW p \in Int, NEW z \in Int, Divides(k, p - z)
  PROVE  p % k = z % k
<1> DEFINE r == z % k
           t == z \div k
<1>1. r \in 0..(k - 1) /\ t \in Int /\ z = k * t + r  BY ModIs
<1>2. PICK j \in Int : p - z = k * j  BY DEF Divides
<1> HIDE DEF r, t
<1>3. p = k * (t + j) + r
  <2>1. k * (t + j) = k * t + k * j /\ k * t \in Int /\ k * j \in Int  BY <1>1, SMT
  <2> DEFINE m == k * t
             n == k * j
  <2>2. m \in Int /\ n \in Int /\ p - z = n /\ z = m + r  BY <1>1, <1>2, <2>1
  <2> HIDE DEF m, n
  <2>3. p = (m + n) + r  BY <1>1, <2>2
  <2>4. m + n = k * (t + j)  BY <2>1, Zenon DEF m, n
  <2> QED BY <2>3, <2>4
<1>4. t + j \in Int  BY <1>1
<1>5. p % k = r  BY <1>1, <1>3, <1>4, DivIs
<1> QED BY <1>5 DEF r

LEMMA HalfAgain ==
  ASSUME NEW z \in Int, NEW k \in Nat, k > 0
  PROVE  z \div k \in Int /\ (z \div k) \div 2 = z \div (2 * k)
<1> DEFINE y == z \div k
           c == y \div 2
           d == y % 2
           t == z % k
<1>1. y \in Int /\ t \in 0..(k - 1) /\ z = k * y + t  BY ModIs
<1> HIDE DEF y, t
<1>2. c \in Int /\ d \in 0..1 /\ y = 2 * c + d  BY <1>1
<1> HIDE DEF c, d
<1>3. z = (2 * k) * c + (k * d + t)
  <2>1. k * y = k * (2 * c) + k * d  BY <1>1, <1>2, SMT
  <2>2. k * (2 * c) = (2 * k) * c  BY <1>2, SMT
  <2> QED BY <1>1, <1>2, <2>1, <2>2
<1>4. k * d + t \in 0..(2 * k - 1)
  <2>1. CASE d = 0  BY <1>1, <2>1
  <2>2. CASE d = 1  BY <1>1, <2>2
  <2> QED BY <1>2, <2>1, <2>2
<1>5. z \div (2 * k) = c
  <2>1. 2 * k \in Nat /\ 2 * k > 0  OBVIOUS
  <2> DEFINE kk == 2 * k
             rr == k * d + t
  <2> HIDE DEF kk, rr
  <2>2. kk \in Nat /\ kk > 0 /\ rr \in 0..(kk - 1) /\ z = kk * c + rr
    BY <1>3, <1>4, <2>1 DEF kk, rr
  <2>3. z \div kk = c  BY <1>2, <2>2, DivIs
  <2> QED BY <2>3 DEF kk
<1> QED BY <1>1, <1>5 DEF c, y

(* The low bits of a number, one more. *)
LEMMA LowBitsMore ==
  ASSUME NEW y \in Int, NEW p \in Nat, p > 0
  PROVE  2 * ((y \div 2) % p) + (y % 2) = y % (2 * p)
<1> DEFINE a == y \div 2
           b == y % 2
           c == a \div p
           d == a % p
<1>1. a \in Int /\ b \in 0..1 /\ y = 2 * a + b  OBVIOUS
<1> HIDE DEF a, b
<1>2. c \in Int /\ d \in 0..(p - 1) /\ a = p * c + d  BY <1>1, ModIs
<1> HIDE DEF c, d
<1>3. y = (2 * p) * c + (2 * d + b)
  <2>1. (2 * p) * c = 2 * (p * c)  BY <1>2, SMT
  <2>2. p * c \in Int  BY <1>2, SMT
  <2> QED BY <1>1, <1>2, <2>1, <2>2
<1> DEFINE kk == 2 * p
           rr == 2 * d + b
<1>4. kk \in Nat /\ kk > 0 /\ rr \in 0..(kk - 1)  BY <1>1, <1>2
<1> HIDE DEF kk, rr
<1>5. y = kk * c + rr  BY <1>3 DEF kk, rr
<1>6. y % kk = rr  BY <1>2, <1>4, <1>5, DivIs
<1> QED BY <1>6 DEF kk, rr, a, b, d

LEMMA PowerNat ==
  ASSUME NEW j \in 0..14
  PROVE  2^j \in Nat /\ 2^j > 0
<1>1. CASE j = 14  BY <1>1
<1>2. CASE j # 14
  <2>1. j \in 0..13  BY <1>2
  <2> QED BY <2>1, Doubled
<1> QED BY <1>1, <1>2

(* The bits of a value are those it was made of. *)
LEMMA BitsOfValue ==
  ASSUME NEW s \in Seq(Bit), Len(s) <= 14
  PROVE  \A i \in 1..Len(s) : (Value(s) \div 2^(Len(s) - i)) % 2 = s[i]
<1> DEFINE k == Len(s)
<1>1. PICK v \in [0..k -> Nat] : /\ Value(s) = v[k] /\ v[0] = 0
                                 /\ \A i \in 1..k : v[i] = 2 * v[i - 1] + s[i]
  BY ValueRec
<1>2. k \in 0..14 /\ k \in Nat /\ \A i \in 1..k : s[i] \in Bit
  OBVIOUS
<1> DEFINE P == {j \in 0..k : v[k] \div 2^j = v[k - j]}
<1> HIDE DEF k
<1>3. 0 \in P
  <2>1. k \in 0..k /\ k - 0 = k /\ 2^0 = 1 /\ 0 \in 0..k  BY <1>2
  <2>2. v[k] \in Nat  BY <1>1, <2>1
  <2>3. v[k] \div 1 = v[k]  BY <2>2
  <2> QED BY <2>1, <2>3
<1>4. ASSUME NEW j \in 0..(k - 1), j \in P PROVE j + 1 \in P
  <2>1. j \in 0..13 /\ j \in 0..14 /\ j + 1 \in 0..k /\ k \in 0..k /\ k - j \in 1..k
        /\ k - (j + 1) \in 0..k /\ (k - j) - 1 = k - (j + 1)
    BY <1>2
  <2>2. 2^j \in Nat /\ 2^j > 0 /\ 2^(j + 1) = 2 * 2^j  BY <2>1, Doubled
  <2>3. v[k] \in Int  BY <1>1, <2>1
  <2>4. v[k] \div 2^(j + 1) = (v[k] \div 2^j) \div 2  BY <2>2, <2>3, HalfAgain
  <2>5. v[k] \div 2^j = v[k - j]  BY <1>4
  <2>6. v[k - j] = 2 * v[k - (j + 1)] + s[k - j]  BY <1>1, <2>1
  <2>7. v[k - (j + 1)] \in Nat /\ s[k - j] \in Bit  BY <1>1, <1>2, <2>1
  <2> DEFINE c == v[k - (j + 1)]
             d == s[k - j]
             e == v[k - j]
  <2>8. e \div 2 = c
    <3> HIDE DEF c, d, e
    <3>1. c \in Nat /\ d \in {0, 1} /\ e = 2 * c + d  BY <2>6, <2>7 DEF c, d, e, Bit
    <3> QED BY <3>1
  <2> QED BY <2>1, <2>4, <2>5, <2>8
<1>5. \A j \in 0..k : j \in P
  <2> HIDE DEF P
  <2> QED BY <1>2, <1>3, <1>4, UpTo
<1>6. ASSUME NEW i \in 1..k PROVE (Value(s) \div 2^(k - i)) % 2 = s[i]
  <2>1. k - i \in 0..k /\ k - (k - i) = i /\ i - 1 \in 0..k /\ i \in 0..k  BY <1>2
  <2>2. v[k] \div 2^(k - i) = v[i]  BY <1>5, <2>1
  <2>3. v[i] = 2 * v[i - 1] + s[i] /\ v[i - 1] \in Nat /\ s[i] \in Bit  BY <1>1, <1>2, <2>1
  <2> DEFINE c == v[i - 1]
             d == s[i]
             e == v[i]
  <2>4. e % 2 = d
    <3> HIDE DEF c, d, e
    <3>1. c \in Nat /\ d \in {0, 1} /\ e = 2 * c + d  BY <2>3 DEF c, d, e, Bit
    <3> QED BY <3>1
  <2> QED BY <1>1, <2>2, <2>4
<1> QED BY <1>6 DEF k

LEMMA BitsValue ==
  ASSUME NEW s \in Seq(Bit), Len(s) <= 14
  PROVE  Bits(Value(s), Len(s)) = s
<1>1. \A i \in 1..Len(s) : (Value(s) \div 2^(Len(s) - i)) % 2 = s[i]  BY BitsOfValue
<1>2. s = [i \in 1..Len(s) |-> s[i]]  OBVIOUS
<1> QED BY <1>1, <1>2 DEF Bits

(* The value of the k low bits of a number. *)
LEMMA ValueBits ==
  ASSUME NEW z \in Int, NEW k \in 0..14
  PROVE  Value(Bits(z, k)) = z % 2^k
<1> DEFINE s == Bits(z, k)
<1>1. s \in Seq(Bit) /\ Len(s) = k  BY BitsType
<1>2. \A i \in 1..k : s[i] = (z \div 2^(k - i)) % 2  BY DEF Bits
<1> HIDE DEF s
<1>3. PICK v \in [0..k -> Nat] : /\ Value(s) = v[k] /\ v[0] = 0
                                 /\ \A i \in 1..k : v[i] = 2 * v[i - 1] + s[i]
  BY <1>1, ValueRec
<1> DEFINE P == {i \in 0..k : v[i] = (z \div 2^(k - i)) % 2^i}
<1>4. 0 \in P
  <2> DEFINE y == z \div 2^(k - 0)
  <2>1. y \in Int
    <3>1. k - 0 \in 0..14  OBVIOUS
    <3>2. 2^(k - 0) \in Nat /\ 2^(k - 0) > 0  BY <3>1, PowerNat
    <3> QED BY <3>2, HalfAgain
  <2>2. 2^0 = 1  OBVIOUS
  <2>3. y % 2^0 = 0
    <3> HIDE DEF y
    <3>1. y % 1 = 0  BY <2>1
    <3> QED BY <2>2, <3>1
  <2>4. 0 \in 0..k  OBVIOUS
  <2> QED BY <1>3, <2>3, <2>4
<1>5. ASSUME NEW j \in 0..(k - 1), j \in P PROVE j + 1 \in P
  <2>1. k - (j + 1) \in 0..13 /\ k - (j + 1) \in 0..14 /\ (k - (j + 1)) + 1 = k - j
        /\ j \in 0..13 /\ j \in 0..14 /\ j + 1 \in 1..k /\ j + 1 \in 0..k /\ (j + 1) - 1 = j
    OBVIOUS
  <2> DEFINE q == 2^(k - (j + 1))
             p == 2^j
             y == z \div q
  <2>2. q \in Nat /\ q > 0 /\ p \in Nat /\ p > 0  BY <2>1, PowerNat
  <2>3. 2^(k - j) = 2 * q
    <3> DEFINE e == k - (j + 1)
    <3>1. e \in 0..13 /\ k - j = e + 1  BY <2>1
    <3> HIDE DEF e
    <3>2. 2^(k - j) = 2 * 2^e  BY <3>1, Doubled
    <3> QED BY <3>2 DEF e
  <2>4. 2^(j + 1) = 2 * p  BY <2>1, Doubled
  <2> HIDE DEF p, q
  <2>5. y \in Int /\ y \div 2 = z \div (2 * q)  BY <2>2, HalfAgain
  <2>6. v[j] = (y \div 2) % p
    <3>1. v[j] = (z \div 2^(k - j)) % 2^j  BY <1>5
    <3> QED BY <2>3, <2>5, <3>1 DEF p
  <2>7. v[j + 1] = 2 * v[j] + (y % 2)
    <3>1. v[j + 1] = 2 * v[j] + s[j + 1]  BY <1>3, <2>1
    <3>2. s[j + 1] = y % 2  BY <1>2, <2>1 DEF q
    <3> QED BY <3>1, <3>2
  <2> HIDE DEF y
  <2>8. v[j + 1] = y % (2 * p)  BY <2>2, <2>5, <2>6, <2>7, LowBitsMore
  <2> QED BY <2>1, <2>4, <2>8 DEF y, q
<1>6. \A j \in 0..k : j \in P
  <2> HIDE DEF P
  <2>1. k \in Nat  OBVIOUS
  <2> QED BY <1>4, <1>5, <2>1, UpTo
<1>7. v[k] = z % 2^k
  <2>1. k \in 0..k /\ k - k = 0 /\ 2^0 = 1  OBVIOUS
  <2>2. v[k] = (z \div 2^(k - k)) % 2^k  BY <1>6, <2>1
  <2>3. z \div 1 = z  OBVIOUS
  <2> QED BY <2>1, <2>2, <2>3
<1> QED BY <1>3, <1>7 DEF s

(***************************************************************************)
(* What an encoder writes, bit by bit.                                     *)
(***************************************************************************)

(* Bit i of byte j. *)
LEMMA BitAt ==
  ASSUME NEW buf \in Seq(Byte), NEW j \in 1..Len(buf), NEW i \in 1..8
  PROVE  /\ 8 * (j - 1) + i \in 1..(8 * Len(buf))
         /\ ByteBits(buf)[8 * (j - 1) + i] = (buf[j] \div 2^(8 - i)) % 2
<1> DEFINE q == 8 * (j - 1) + i
<1>1. /\ q \in 1..(8 * Len(buf)) /\ (q - 1) \div 8 + 1 = j /\ 7 - ((q - 1) % 8) = 8 - i
  <2>1. j \in Nat /\ j >= 1 /\ j <= Len(buf) /\ Len(buf) \in Nat  OBVIOUS
  <2> QED BY <2>1
<1>2. ByteBits(buf)[q] = (buf[(q - 1) \div 8 + 1] \div 2^(7 - ((q - 1) % 8))) % 2
  <2> HIDE DEF q
  <2> QED BY <1>1 DEF ByteBits
<1> QED BY <1>1, <1>2

LEMMA BitPlace ==
  ASSUME NEW l \in Nat, NEW q \in 1..(8 * l)
  PROVE  \E j \in 1..l, i \in 1..8 : q = 8 * (j - 1) + i
<1>1. (q - 1) \div 8 + 1 \in 1..l /\ ((q - 1) % 8) + 1 \in 1..8
      /\ q = 8 * (((q - 1) \div 8 + 1) - 1) + (((q - 1) % 8) + 1)
  OBVIOUS
<1> QED BY <1>1

LEMMA ByteOfBits ==
  ASSUME NEW buf \in Seq(Byte), NEW j \in 1..Len(buf), NEW bits \in [1..8 -> Bit],
         buf[j] = Value(bits), NEW i \in 1..8
  PROVE  ByteBits(buf)[8 * (j - 1) + i] = bits[i]
<1>1. bits \in Seq(Bit) /\ Len(bits) = 8
  <2>1. 8 \in Nat  OBVIOUS
  <2> QED BY <2>1, ArrayIsSeq
<1>2. Len(bits) <= 14 /\ i \in 1..Len(bits)  BY <1>1
<1>3. (Value(bits) \div 2^(Len(bits) - i)) % 2 = bits[i]  BY <1>1, <1>2, BitsOfValue
<1> QED BY <1>1, <1>3, BitAt

(* The bits t have been pushed: the full bytes are in buf, and the others  *)
(* at the low end of acc.                                                  *)
Holds(st, t) ==
  /\ 8 * Len(st.buf) + st.len = Len(t)
  /\ \A q \in 1..(8 * Len(st.buf)) : ByteBits(st.buf)[q] = t[q]
  /\ \A q \in 1..st.len : st.acc[AccBits - st.len + q] = t[8 * Len(st.buf) + q]

LEMMA ConcatAt ==
  ASSUME NEW S, NEW c \in Seq(S), NEW d \in Seq(S)
  PROVE  /\ c \o d \in Seq(S) /\ Len(c \o d) = Len(c) + Len(d)
         /\ \A i \in 1..Len(c) : (c \o d)[i] = c[i]
         /\ \A i \in 1..Len(d) : (c \o d)[Len(c) + i] = d[i]
<1>1. c \o d \in Seq(S) /\ Len(c \o d) = Len(c) + Len(d)  OBVIOUS
<1>2. \A i \in 1..Len(c) : (c \o d)[i] = c[i]  OBVIOUS
<1>3. \A i \in 1..Len(d) : (c \o d)[Len(c) + i] = d[i]  OBVIOUS
<1> QED BY <1>1, <1>2, <1>3

(* A piece of at most 24 bits does not push any bit that is still to be    *)
(* written out of acc.                                                     *)
LEMMA PushBits ==
  ASSUME NEW st \in PushState, NEW t \in Seq(Bit), Holds(st, t),
         NEW piece \in Seq(Bit), Len(piece) <= 24
  PROVE  Holds(Push(st, piece), t \o piece)
<1> DEFINE acc0  == st.acc
           buf   == st.buf
           l     == st.len
           L     == Len(piece)
           nb    == Len(buf)
           all   == acc0 \o piece
           acc   == SubSeq(all, Len(all) - AccBits + 1, Len(all))
           len   == l + L
           bit(k) == IF k < AccBits THEN acc[AccBits - k] ELSE 0
           byte(j) == Value([i \in 1..8 |-> bit(len - 8 * j + 8 - i)])
           new   == [j \in 1..(len \div 8) |-> byte(j)]
           u     == t \o piece
           st1   == Push(st, piece)
<1>1. /\ acc0 \in Seq(Bit) /\ Len(acc0) = 32 /\ l \in 0..7 /\ buf \in Seq(Byte)
      /\ nb \in Nat /\ L \in 0..24 /\ Len(t) = 8 * nb + l
      /\ \A q \in 1..(8 * nb) : ByteBits(buf)[q] = t[q]
      /\ \A q \in 1..l : acc0[32 - l + q] = t[8 * nb + q]
  <2>1. acc0 \in Seq(Bit) /\ Len(acc0) = 32 /\ l \in 0..7 /\ buf \in Seq(Byte)
    BY DEF PushState, Acc, AccBits
  <2>2. nb \in Nat /\ L \in Nat
    <3> HIDE DEF buf
    <3> QED BY <2>1
  <2>3. L \in 0..24
    <3>1. L \in Nat /\ L <= 24  BY <2>2
    <3> HIDE DEF L
    <3> QED BY <3>1
  <2>4. 8 * nb + l = Len(t)  BY DEF Holds
  <2>5. \A q \in 1..(8 * nb) : ByteBits(buf)[q] = t[q]  BY DEF Holds
  <2>6. \A q \in 1..l : acc0[32 - l + q] = t[8 * nb + q]  BY DEF Holds, AccBits
  <2> QED BY <2>1, <2>2, <2>3, <2>4, <2>5, <2>6
<1>2. st1 = [acc |-> acc, len |-> len % 8, buf |-> buf \o new]  BY DEF Push
<1>3. st1 \in PushState  BY PushType
<1> HIDE DEF st1
<1>4. all \in Seq(Bit) /\ Len(all) = 32 + L
      /\ (\A i \in 1..32 : all[i] = acc0[i]) /\ \A i \in 1..L : all[32 + i] = piece[i]
  <2>1. acc0 \in Seq(Bit) /\ Len(acc0) = 32  BY <1>1
  <2> HIDE DEF acc0
  <2>3. PICK c \in Seq(Bit) : c = acc0  BY <2>1
  <2>2. /\ acc0 \o piece \in Seq(Bit) /\ Len(acc0 \o piece) = Len(acc0) + Len(piece)
        /\ \A i \in 1..Len(acc0) : (acc0 \o piece)[i] = acc0[i]
        /\ \A i \in 1..Len(piece) : (acc0 \o piece)[Len(acc0) + i] = piece[i]
    BY <2>3, ConcatAt
  <2> QED BY <2>1, <2>2
<1>5. u \in Seq(Bit) /\ Len(u) = 8 * nb + len
      /\ (\A i \in 1..(8 * nb + l) : u[i] = t[i]) /\ \A i \in 1..L : u[8 * nb + l + i] = piece[i]
  <2>1. u \in Seq(Bit) /\ Len(u) = Len(t) + Len(piece)
        /\ (\A i \in 1..Len(t) : u[i] = t[i]) /\ \A i \in 1..Len(piece) : u[Len(t) + i] = piece[i]
    BY ConcatAt
  <2> HIDE DEF u, nb, l
  <2> QED BY <1>1, <2>1
<1> HIDE DEF all, u
<1>6. \A i \in 1..32 : acc[i] = all[L + i]
  <2>1. Len(all) - AccBits + 1 = L + 1 /\ Len(all) = L + 32  BY <1>1, <1>4 DEF AccBits
  <2>2. acc = SubSeq(all, L + 1, L + 32)  BY <2>1
  <2>3. L \in Nat  BY <1>1
  <2> HIDE DEF acc, L
  <2>4. \A i \in 1..32 : SubSeq(all, L + 1, L + 32)[i] = all[L + i]
    BY <1>4, <2>3
  <2> QED BY <2>2, <2>4
<1> HIDE DEF acc
<1>7. len \in 0..31 /\ len \div 8 \in Nat /\ len % 8 \in 0..7 /\ 8 * (len \div 8) + (len % 8) = len
  <2>1. len \in 0..31
    <3>1. l \in 0..7 /\ L \in 0..24  BY <1>1
    <3> HIDE DEF l, L
    <3> QED BY <3>1
  <2> HIDE DEF len
  <2> QED BY <2>1
<1>8. ASSUME NEW q \in 1..len PROVE acc[32 - len + q] = u[8 * nb + q]
  <2> HIDE DEF acc0, l, L, nb
  <2>1. 32 - len + q \in 1..32 /\ L + (32 - len + q) = 32 - l + q
    <3>1. l \in 0..7 /\ L \in 0..24 /\ len = l + L /\ len \in 0..31  BY <1>1, <1>7
    <3> HIDE DEF len
    <3>2. 32 - len + q \in 1..32  BY <3>1
    <3>3. L + (32 - len + q) = 32 - l + q  BY <3>1
    <3> QED BY <3>2, <3>3
  <2>2. acc[32 - len + q] = all[32 - l + q]  BY <1>6, <2>1
  <2>3. CASE q <= l
    <3>1. q \in 1..l /\ 32 - l + q \in 1..32 /\ 8 * nb + q \in 1..(8 * nb + l)
      BY <1>1, <1>7, <2>3
    <3>2. all[32 - l + q] = acc0[32 - l + q]  BY <1>4, <3>1
    <3>3. acc0[32 - l + q] = t[8 * nb + q]  BY <1>1, <3>1
    <3>4. u[8 * nb + q] = t[8 * nb + q]  BY <1>5, <3>1
    <3> QED BY <2>2, <3>2, <3>3, <3>4
  <2>4. CASE q > l
    <3>1. q - l \in 1..L /\ 32 + (q - l) = 32 - l + q /\ 8 * nb + l + (q - l) = 8 * nb + q
      BY <1>1, <1>7, <2>4
    <3>2. all[32 + (q - l)] = piece[q - l] /\ u[8 * nb + l + (q - l)] = piece[q - l]
      BY <1>4, <1>5, <3>1
    <3>3. all[32 - l + q] = u[8 * nb + q]  BY <3>1, <3>2
    <3> QED BY <2>2, <3>3
  <2>5. q <= l \/ q > l  BY <1>1, <1>7
  <2> QED BY <2>3, <2>4, <2>5
<1> HIDE DEF len
<1>9. ASSUME NEW j \in 1..(len \div 8)
      PROVE  /\ [i \in 1..8 |-> u[8 * nb + (8 * (j - 1) + i)]] \in [1..8 -> Bit]
             /\ byte(j) = Value([i \in 1..8 |-> u[8 * nb + (8 * (j - 1) + i)]])
  <2>1. ASSUME NEW i \in 1..8
        PROVE  /\ u[8 * nb + (8 * (j - 1) + i)] \in Bit
               /\ bit(len - 8 * j + 8 - i) = u[8 * nb + (8 * (j - 1) + i)]
    <3> DEFINE q == 8 * (j - 1) + i
               k == len - 8 * j + 8 - i
    <3>1. q \in 1..len /\ k < 32 /\ 32 - k = 32 - len + q  BY <1>7
    <3>2. bit(k) = acc[32 - k]
      <4> HIDE DEF k
      <4> QED BY <3>1 DEF AccBits
    <3> HIDE DEF q, k, bit, nb
    <3>3. bit(k) = u[8 * nb + q]  BY <1>8, <3>1, <3>2
    <3>4. 8 * nb + q \in 1..Len(u)  BY <1>1, <1>5, <1>7, <3>1
    <3>5. u[8 * nb + q] \in Bit  BY <1>5, <3>4, ElementOfSeq, Zenon
    <3> QED BY <3>3, <3>5 DEF q, k
  <2> HIDE DEF bit, nb
  <2>2. [i \in 1..8 |-> bit(len - 8 * j + 8 - i)] = [i \in 1..8 |-> u[8 * nb + (8 * (j - 1) + i)]]
    BY <2>1
  <2> QED BY <2>1, <2>2
<1> HIDE DEF byte, bit
<1>10. new \in Seq(Byte) /\ Len(new) = len \div 8 /\ \A j \in 1..(len \div 8) : new[j] = byte(j)
  <2>1. \A j \in 1..(len \div 8) : byte(j) \in Byte  BY <1>9, ValueByte
  <2>2. new \in [1..(len \div 8) -> Byte]  BY <2>1
  <2>3. \A j \in 1..(len \div 8) : new[j] = byte(j)  OBVIOUS
  <2> HIDE DEF new
  <2> QED BY <1>7, <2>2, <2>3, ArrayIsSeq
<1> HIDE DEF new
<1> DEFINE out == buf \o new
<1>11. out \in Seq(Byte) /\ Len(out) = nb + len \div 8
       /\ (\A i \in 1..nb : out[i] = buf[i]) /\ \A j \in 1..(len \div 8) : out[nb + j] = new[j]
  <2>1. buf \in Seq(Byte)  BY <1>1
  <2> HIDE DEF buf
  <2>3. PICK c \in Seq(Byte) : c = buf  BY <2>1
  <2>4. PICK d \in Seq(Byte) : d = new  BY <1>10
  <2>2. /\ buf \o new \in Seq(Byte) /\ Len(buf \o new) = Len(buf) + Len(new)
        /\ \A i \in 1..Len(buf) : (buf \o new)[i] = buf[i]
        /\ \A i \in 1..Len(new) : (buf \o new)[Len(buf) + i] = new[i]
    BY <2>3, <2>4, ConcatAt
  <2> QED BY <1>10, <2>2
<1> HIDE DEF out
<1>12. 8 * Len(out) + (len % 8) = Len(u)
  <2> HIDE DEF nb
  <2> QED BY <1>1, <1>5, <1>7, <1>11
<1>13. ASSUME NEW q \in 1..(8 * Len(out)) PROVE ByteBits(out)[q] = u[q]
  <2>1. Len(out) \in Nat  BY <1>11
  <2>2. PICK j \in 1..Len(out), i \in 1..8 : q = 8 * (j - 1) + i  BY <2>1, BitPlace
  <2>3. ByteBits(out)[q] = (out[j] \div 2^(8 - i)) % 2  BY <1>11, <2>2, BitAt
  <2>4. CASE j <= nb
    <3>1. j \in 1..nb  BY <1>1, <2>4
    <3>2. out[j] = buf[j]  BY <1>11, <3>1
    <3>3. q \in 1..(8 * nb) /\ ByteBits(buf)[q] = (buf[j] \div 2^(8 - i)) % 2
      BY <1>1, <2>2, <3>1, BitAt
    <3>4. ByteBits(buf)[q] = t[q]  BY <1>1, <3>3
    <3>5. q \in 1..(8 * nb + l)
      <4> HIDE DEF nb, l
      <4> QED BY <1>1, <3>3
    <3> QED BY <1>5, <2>3, <3>2, <3>3, <3>4, <3>5
  <2>5. CASE j > nb
    <3> DEFINE jj == j - nb
               bits == [e \in 1..8 |-> u[8 * nb + (8 * (jj - 1) + e)]]
    <3>1. jj \in 1..(len \div 8) /\ nb + jj = j /\ 8 * nb + (8 * (jj - 1) + i) = q
      <4> HIDE DEF nb
      <4> QED BY <1>1, <1>7, <1>11, <2>2, <2>5
    <3> HIDE DEF jj
    <3>2. out[j] = byte(jj)  BY <1>10, <1>11, <3>1
    <3>3. bits \in [1..8 -> Bit] /\ byte(jj) = Value(bits)  BY <1>9, <3>1
    <3>4. bits[i] = u[8 * nb + (8 * (jj - 1) + i)]  OBVIOUS
    <3> HIDE DEF bits
    <3>5. ByteBits(out)[8 * (j - 1) + i] = bits[i]  BY <1>11, <3>2, <3>3, ByteOfBits
    <3> QED BY <2>2, <3>1, <3>4, <3>5
  <2>6. j \in Nat  OBVIOUS
  <2> QED BY <1>1, <2>4, <2>5, <2>6
<1>14. ASSUME NEW q \in 1..(len % 8) PROVE acc[32 - (len % 8) + q] = u[8 * Len(out) + q]
  <2> DEFINE d == len \div 8
             e == len % 8
             p == 8 * d + q
  <2>1. d \in Nat /\ e \in 0..7 /\ 8 * d + e = len /\ q \in 1..e  BY <1>7
  <2> HIDE DEF d, e
  <2>2. p \in 1..len /\ 32 - len + p = 32 - e + q  BY <1>7, <2>1
  <2>3. 8 * nb + p = 8 * Len(out) + q
    <3>1. Len(out) = nb + d  BY <1>11 DEF d
    <3> HIDE DEF nb
    <3> QED BY <1>1, <2>1, <3>1
  <2> HIDE DEF p
  <2>4. acc[32 - len + p] = u[8 * nb + p]  BY <1>8, <2>2
  <2> QED BY <2>2, <2>3, <2>4 DEF e
<1>15. st1.acc = acc /\ st1.len = len % 8 /\ st1.buf = out  BY <1>2 DEF len, out
<1>16. Holds(st1, u)
  <2>1. 8 * Len(st1.buf) + st1.len = Len(u)  BY <1>12, <1>15
  <2>2. \A q \in 1..(8 * Len(st1.buf)) : ByteBits(st1.buf)[q] = u[q]  BY <1>13, <1>15
  <2>3. \A q \in 1..st1.len : st1.acc[AccBits - st1.len + q] = u[8 * Len(st1.buf) + q]
    BY <1>14, <1>15 DEF AccBits
  <2> QED BY <2>1, <2>2, <2>3 DEF Holds
<1> QED BY <1>16 DEF st1, u

(* Pieces joined, the first i of them in c[i]. *)
IsJoin(c, pieces) ==
  /\ c \in [0..Len(pieces) -> Seq(Bit)] /\ c[0] = <<>>
  /\ \A i \in 1..Len(pieces) : c[i] = c[i - 1] \o pieces[i]

LEMMA JoinExists ==
  ASSUME NEW pieces \in Seq(Seq(Bit))
  PROVE  \E c : IsJoin(c, pieces)
<1> DEFINE k == Len(pieces)
           R == {r \in (1..k) \X Seq(Bit) \X Seq(Bit) : r[3] = r[2] \o pieces[r[1]]}
<1>1. k \in Nat /\ \A i \in 1..k : pieces[i] \in Seq(Bit)  OBVIOUS
<1>2. Total(k, Seq(Bit), R)
  <2>1. ASSUME NEW i \in 1..k, NEW s \in Seq(Bit) PROVE \E t \in Seq(Bit) : <<i, s, t>> \in R
    <3>1. pieces[i] \in Seq(Bit)  BY <1>1
    <3>2. s \o pieces[i] \in Seq(Bit)  BY <3>1
    <3> QED BY <3>2
  <2> QED BY <2>1 DEF Total
<1>3. <<>> \in Seq(Bit)  OBVIOUS
<1>4. PICK c \in Runs(k, Seq(Bit)) : c[0] = <<>> /\ Steps(c, k, R)
  <2> HIDE DEF R, k
  <2> QED BY <1>1, <1>2, <1>3, Chain, Zenon
<1>5. \A i \in 1..k : c[i] = c[i - 1] \o pieces[i]  BY <1>4 DEF Steps
<1> QED BY <1>4, <1>5 DEF Runs, IsJoin

LEMMA JoinNext ==
  ASSUME NEW pieces \in Seq(Seq(Bit)), NEW c, IsJoin(c, pieces), NEW i \in 1..Len(pieces)
  PROVE  /\ c[i - 1] \in Seq(Bit) /\ c[i] \in Seq(Bit) /\ pieces[i] \in Seq(Bit)
         /\ Len(c[i]) = Len(c[i - 1]) + Len(pieces[i])
         /\ \A q \in 1..Len(c[i - 1]) : c[i][q] = c[i - 1][q]
         /\ \A q \in 1..Len(pieces[i]) : c[i][Len(c[i - 1]) + q] = pieces[i][q]
<1>1. i \in 0..Len(pieces) /\ i - 1 \in 0..Len(pieces)  OBVIOUS
<1>2. c[i - 1] \in Seq(Bit) /\ c[i] \in Seq(Bit) /\ c[i] = c[i - 1] \o pieces[i]
  BY <1>1 DEF IsJoin
<1>3. pieces[i] \in Seq(Bit)  OBVIOUS
<1>4. PICK d \in Seq(Bit) : d = c[i - 1]  BY <1>2
<1>5. PICK e \in Seq(Bit) : e = pieces[i]  BY <1>3
<1>6. /\ Len(d \o e) = Len(d) + Len(e)
      /\ \A q \in 1..Len(d) : (d \o e)[q] = d[q]
      /\ \A q \in 1..Len(e) : (d \o e)[Len(d) + q] = e[q]
  BY ConcatAt
<1>7. c[i] = d \o e  BY <1>2, <1>4, <1>5
<1> QED BY <1>2, <1>3, <1>4, <1>5, <1>6, <1>7, Zenon

(* What has been joined stays. *)
LEMMA JoinPrefix ==
  ASSUME NEW pieces \in Seq(Seq(Bit)), NEW c, IsJoin(c, pieces), NEW j \in 0..Len(pieces),
         NEW i \in j..Len(pieces)
  PROVE  /\ Len(c[j]) \in Nat /\ Len(c[i]) \in Nat /\ Len(c[j]) <= Len(c[i])
         /\ \A q \in 1..Len(c[j]) : c[i][q] = c[j][q]
<1> DEFINE k == Len(pieces)
           T == {d \in 0..(k - j) :
                   /\ Len(c[j + d]) \in Nat /\ Len(c[j]) <= Len(c[j + d])
                   /\ \A q \in 1..Len(c[j]) : c[j + d][q] = c[j][q]}
<1>1. k \in Nat /\ k - j \in Nat /\ Len(c[j]) \in Nat
  <2>1. k \in Nat /\ k - j \in Nat  OBVIOUS
  <2>2. c[j] \in Seq(Bit)  BY DEF IsJoin
  <2> QED BY <2>1, <2>2
<1>2. 0 \in T
  <2>1. j + 0 = j /\ 0 \in 0..(k - j)  BY <1>1
  <2> QED BY <1>1, <2>1
<1>3. ASSUME NEW d \in 0..((k - j) - 1), d \in T PROVE d + 1 \in T
  <2>1. j + (d + 1) \in 1..k /\ (j + (d + 1)) - 1 = j + d /\ d + 1 \in 0..(k - j)  BY <1>1
  <2>2. /\ Len(c[j + d]) \in Nat /\ Len(c[j]) <= Len(c[j + d])
        /\ \A q \in 1..Len(c[j]) : c[j + d][q] = c[j][q]
    BY <1>3
  <2> HIDE DEF T
  <2>3. PICK e \in 1..Len(pieces) : e = j + (d + 1)  BY <2>1
  <2>4. /\ c[e - 1] \in Seq(Bit) /\ c[e] \in Seq(Bit) /\ pieces[e] \in Seq(Bit)
        /\ Len(c[e]) = Len(c[e - 1]) + Len(pieces[e])
        /\ \A q \in 1..Len(c[e - 1]) : c[e][q] = c[e - 1][q]
    <3> HIDE DEF k
    <3>1. c[e - 1] \in Seq(Bit) /\ c[e] \in Seq(Bit) /\ pieces[e] \in Seq(Bit)  BY JoinNext
    <3>2. Len(c[e]) = Len(c[e - 1]) + Len(pieces[e])  BY JoinNext
    <3>3. \A q \in 1..Len(c[e - 1]) : c[e][q] = c[e - 1][q]
      <4>1. c[e] = c[e - 1] \o pieces[e]  BY DEF IsJoin
      <4>2. PICK x \in Seq(Bit) : x = c[e - 1]  BY <3>1
      <4>3. PICK y \in Seq(Bit) : y = pieces[e]  BY <3>1
      <4>4. \A q \in 1..Len(x) : (x \o y)[q] = x[q]  BY ConcatAt
      <4>5. c[e] = x \o y  BY <4>1, <4>2, <4>3
      <4> QED BY <4>2, <4>4, <4>5, Zenon
    <3> QED BY <3>1, <3>2, <3>3
  <2>5. Len(pieces[e]) \in Nat  BY <2>4
  <2>6. c[e - 1] = c[j + d]  BY <2>1, <2>3
  <2>7. Len(c[e]) \in Nat /\ Len(c[j]) <= Len(c[e])
    <3> DEFINE x == Len(c[j + d])
               y == Len(c[j])
               z == Len(pieces[e])
    <3>1. Len(c[e]) = x + z /\ x \in Nat /\ y \in Nat /\ z \in Nat /\ y <= x
      BY <1>1, <2>2, <2>4, <2>5, <2>6
    <3> HIDE DEF x, y, z
    <3>2. Len(c[e]) \in Nat /\ y <= Len(c[e])  BY <3>1
    <3> QED BY <3>2 DEF y
  <2>8. ASSUME NEW q \in 1..Len(c[j]) PROVE c[e][q] = c[j][q]
    <3>1. q \in 1..Len(c[e - 1])  BY <1>1, <2>2, <2>6
    <3> QED BY <2>2, <2>4, <2>6, <3>1
  <2> QED BY <2>1, <2>3, <2>7, <2>8 DEF T
<1>4. \A d \in 0..(k - j) : d \in T
  <2> HIDE DEF T, k
  <2> QED BY <1>1, <1>2, <1>3, UpTo
<1>5. i - j \in 0..(k - j) /\ j + (i - j) = i  BY <1>1
<1>6. i - j \in T  BY <1>4, <1>5
<1> QED BY <1>1, <1>5, <1>6

LEMMA JoinAt ==
  ASSUME NEW pieces \in Seq(Seq(Bit)), NEW c, IsJoin(c, pieces), NEW i \in 1..Len(pieces),
         NEW q \in 1..Len(pieces[i])
  PROVE  /\ Len(c[i - 1]) + q \in 1..Len(c[Len(pieces)])
         /\ c[Len(pieces)][Len(c[i - 1]) + q] = pieces[i][q]
<1> DEFINE k == Len(pieces)
           a == Len(c[i - 1])
<1>1. i \in 0..k /\ k \in i..k  OBVIOUS
<1>2. /\ c[i - 1] \in Seq(Bit) /\ pieces[i] \in Seq(Bit)
      /\ Len(c[i]) = Len(c[i - 1]) + Len(pieces[i])
      /\ c[i][Len(c[i - 1]) + q] = pieces[i][q]
  BY JoinNext
<1>3. /\ Len(c[i]) \in Nat /\ Len(c[k]) \in Nat /\ Len(c[i]) <= Len(c[k])
      /\ \A e \in 1..Len(c[i]) : c[k][e] = c[i][e]
  BY <1>1, JoinPrefix
<1>4. a \in Nat /\ Len(pieces[i]) \in Nat  BY <1>2
<1> HIDE DEF a
<1>5. a + q \in 1..Len(c[i]) /\ a + q \in 1..Len(c[k])
  <2> DEFINE x == Len(c[i])
             y == Len(c[k])
             z == Len(pieces[i])
  <2>1. x \in Nat /\ y \in Nat /\ z \in Nat /\ x <= y /\ x = a + z /\ q \in 1..z
    BY <1>2, <1>3, <1>4 DEF a
  <2> HIDE DEF x, y, z
  <2>2. a + q \in 1..x /\ a + q \in 1..y  BY <1>4, <2>1
  <2> QED BY <2>2 DEF x, y
<1>6. c[k][a + q] = pieces[i][q]  BY <1>2, <1>3, <1>5 DEF a
<1> QED BY <1>5, <1>6 DEF a

LEMMA BytesIs ==
  ASSUME NEW k \in Nat
  PROVE  Bytes(k) \in Nat /\ k <= 8 * Bytes(k) /\ 8 * Bytes(k) <= k + 7
BY DEF Bytes

(* Everything that is pushed is written, in its order, and then zeros up   *)
(* to the end of a byte.                                                   *)
LEMMA WrittenBits ==
  ASSUME NEW pieces \in Seq(Seq(Bit)), NEW c, IsJoin(c, pieces),
         \A i \in 1..Len(pieces) : Len(pieces[i]) <= 24
  PROVE  LET out == Written(pieces)
             t   == c[Len(pieces)]
         IN  /\ out \in Seq(Byte) /\ Len(out) = Bytes(Len(t))
             /\ \A q \in 1..Len(t) : ByteBits(out)[q] = t[q]
             /\ \A q \in (Len(t) + 1)..(8 * Len(out)) : ByteBits(out)[q] = 0
<1> DEFINE k == Len(pieces)
           out == Written(pieces)
           t == c[k]
<1>1. PICK w \in [0..k -> PushState] :
        /\ w[0] = FirstState
        /\ \A i \in 1..k : w[i] = Push(w[i - 1], pieces[i])
        /\ LET st   == w[k]
               rest == SubSeq(st.acc, AccBits - st.len + 1, AccBits) \o Zeros(8 - st.len)
           IN  out = IF st.len = 0 THEN st.buf ELSE Append(st.buf, Value(rest))
  BY WrittenRec
<1>2. k \in Nat /\ k \in 0..k /\ t \in Seq(Bit)
  <2>1. k \in Nat /\ k \in 0..k  OBVIOUS
  <2> QED BY <2>1 DEF IsJoin
<1> HIDE DEF t, out
<1> DEFINE T == {i \in 0..k : Holds(w[i], c[i])}
<1>3. 0 \in T
  <2>1. w[0].buf = <<>> /\ w[0].len = 0 /\ c[0] = <<>>  BY <1>1 DEF FirstState, IsJoin
  <2>2. Len(<<>>) = 0  OBVIOUS
  <2>3. Holds(w[0], c[0])  BY <2>1, <2>2 DEF Holds
  <2> QED BY <1>2, <2>3
<1>4. ASSUME NEW j \in 0..(k - 1), j \in T PROVE j + 1 \in T
  <2>1. j + 1 \in 1..k /\ (j + 1) - 1 = j /\ j + 1 \in 0..k /\ j \in 0..k  BY <1>2
  <2>2. w[j + 1] = Push(w[j], pieces[j + 1]) /\ w[j] \in PushState  BY <1>1, <2>1
  <2>3. c[j] \in Seq(Bit) /\ pieces[j + 1] \in Seq(Bit) /\ c[j + 1] = c[j] \o pieces[j + 1]
    <3>1. c[j] \in Seq(Bit)  BY <2>1 DEF IsJoin
    <3>2. pieces[j + 1] \in Seq(Bit)  BY <2>1
    <3>3. c[j + 1] = c[(j + 1) - 1] \o pieces[j + 1]
      <4> HIDE DEF T
      <4> QED BY <2>1, Zenon DEF IsJoin
    <3> QED BY <2>1, <3>1, <3>2, <3>3
  <2>4. Len(pieces[j + 1]) <= 24  BY <2>1
  <2>5. Holds(w[j], c[j])  BY <1>4
  <2>6. Holds(w[j + 1], c[j + 1])  BY <2>2, <2>3, <2>4, <2>5, PushBits
  <2> QED BY <2>1, <2>6
<1>5. \A i \in 0..k : i \in T
  <2> HIDE DEF T, k
  <2> QED BY <1>2, <1>3, <1>4, UpTo
<1> DEFINE st == w[k]
           l == st.len
           nb == Len(st.buf)
<1>6. Holds(st, t) /\ st \in PushState  BY <1>1, <1>2, <1>5 DEF t
<1>7. /\ st.acc \in Seq(Bit) /\ Len(st.acc) = 32 /\ l \in 0..7 /\ st.buf \in Seq(Byte)
      /\ nb \in Nat /\ Len(t) = 8 * nb + l
      /\ \A q \in 1..(8 * nb) : ByteBits(st.buf)[q] = t[q]
      /\ \A q \in 1..l : st.acc[32 - l + q] = t[8 * nb + q]
  <2>1. st.acc \in Seq(Bit) /\ Len(st.acc) = 32 /\ l \in 0..7 /\ st.buf \in Seq(Byte)
    BY <1>6 DEF PushState, Acc, AccBits
  <2>2. nb \in Nat
    <3>1. PICK d \in Seq(Byte) : d = st.buf  BY <2>1
    <3>2. Len(d) \in Nat  OBVIOUS
    <3> QED BY <3>1, <3>2
  <2>3. 8 * nb + l = Len(t)  BY <1>6 DEF Holds
  <2>4. \A q \in 1..(8 * nb) : ByteBits(st.buf)[q] = t[q]  BY <1>6 DEF Holds
  <2>5. \A q \in 1..l : st.acc[32 - l + q] = t[8 * nb + q]  BY <1>6 DEF Holds, AccBits
  <2> QED BY <2>1, <2>2, <2>3, <2>4, <2>5
<1>8. out \in Seq(Byte)  BY WrittenType DEF out
<1>9. CASE l = 0
  <2>1. out = st.buf  BY <1>1, <1>9
  <2>2. Len(t) = 8 * Len(out) /\ Len(out) \in Nat  BY <1>7, <1>9, <2>1
  <2>3. Len(out) = Bytes(Len(t))
    <3> DEFINE x == Len(out)
    <3> HIDE DEF x
    <3>1. x \in Nat /\ Len(t) = 8 * x  BY <2>2 DEF x
    <3>2. Bytes(8 * x) = x  BY <3>1 DEF Bytes
    <3> QED BY <3>1, <3>2 DEF x
  <2>4. \A q \in 1..Len(t) : ByteBits(out)[q] = t[q]  BY <1>7, <2>1, <2>2
  <2>5. \A q \in (Len(t) + 1)..(8 * Len(out)) : ByteBits(out)[q] = 0  BY <2>2
  <2> QED BY <1>8, <2>3, <2>4, <2>5 DEF out, t
<1>10. CASE l # 0
  <2> DEFINE a == SubSeq(st.acc, AccBits - l + 1, AccBits)
             z == Zeros(8 - l)
             b == a \o z
  <2>1. out = Append(st.buf, Value(b))  BY <1>1, <1>10
  <2>2. l \in 1..7  BY <1>7, <1>10
  <2> HIDE DEF l
  <2>3. a \in Seq(Bit) /\ Len(a) = l /\ \A q \in 1..l : a[q] = st.acc[32 - l + q]
    <3>1. PICK d \in Seq(Bit) : d = st.acc  BY <1>7
    <3>2. Len(d) = 32 /\ a = SubSeq(d, 32 - l + 1, 32)  BY <1>7, <3>1 DEF AccBits
    <3>3. SubSeq(d, 32 - l + 1, 32) \in Seq(Bit) /\ Len(SubSeq(d, 32 - l + 1, 32)) = l
          /\ \A q \in 1..l : SubSeq(d, 32 - l + 1, 32)[q] = d[32 - l + q]
      <4>1. \A i \in (32 - l + 1)..32 : d[i] \in Bit
        <5> SUFFICES ASSUME NEW i \in (32 - l + 1)..32 PROVE d[i] \in Bit  OBVIOUS
        <5>1. i \in 1..Len(d)  BY <2>2, <3>2
        <5> QED BY <5>1, ElementOfSeq, Zenon
      <4>2. 32 - l + 1 \in Int /\ 32 \in Int /\ 32 - l + 1 <= 32 /\ 32 - (32 - l + 1) + 1 = l
        BY <2>2
      <4>3. SubSeq(d, 32 - l + 1, 32) \in Seq(Bit) /\ Len(SubSeq(d, 32 - l + 1, 32)) = l
        BY <4>1, <4>2, SubSeqProperties
      <4>4. \A q \in 1..l : SubSeq(d, 32 - l + 1, 32)[q] = d[32 - l + q]  BY <2>2, <3>2
      <4> QED BY <4>3, <4>4
    <3> QED BY <3>1, <3>2, <3>3
  <2>4. z \in Seq(Bit) /\ Len(z) = 8 - l /\ \A q \in 1..(8 - l) : z[q] = 0
    <3>1. 8 - l \in Nat  BY <2>2
    <3>2. z \in Seq(Bit) /\ Len(z) = 8 - l  BY <3>1, ZeroBits
    <3> QED BY <3>2 DEF Zeros
  <2> HIDE DEF a, z
  <2>5. b \in Seq(Bit) /\ Len(b) = 8 /\ (\A q \in 1..l : b[q] = a[q])
        /\ \A q \in 1..(8 - l) : b[l + q] = z[q]
    <3>1. PICK d \in Seq(Bit) : d = a  BY <2>3
    <3>2. PICK e \in Seq(Bit) : e = z  BY <2>4
    <3>3. /\ d \o e \in Seq(Bit) /\ Len(d \o e) = Len(d) + Len(e)
          /\ \A q \in 1..Len(d) : (d \o e)[q] = d[q]
          /\ \A q \in 1..Len(e) : (d \o e)[Len(d) + q] = e[q]
      BY ConcatAt
    <3> QED BY <2>2, <2>3, <2>4, <3>1, <3>2, <3>3
  <2> HIDE DEF b
  <2>6. b \in [1..8 -> Bit]  BY <2>5, LenProperties
  <2>7. Value(b) \in Byte  BY <2>6, ValueByte
  <2>8. Len(out) = nb + 1 /\ out[nb + 1] = Value(b) /\ \A j \in 1..nb : out[j] = st.buf[j]
    <3>1. PICK d \in Seq(Byte) : d = st.buf  BY <1>7
    <3>2. out = Append(d, Value(b)) /\ nb = Len(d)  BY <2>1, <3>1
    <3> HIDE DEF nb
    <3> QED BY <2>7, <3>1, <3>2
  <2>9. Len(out) = Bytes(Len(t))
    <3>1. Bytes(8 * nb + l) = nb + 1
      <4> HIDE DEF nb
      <4> QED BY <1>7, <2>2 DEF Bytes
    <3> QED BY <1>7, <2>8, <3>1
  <2> HIDE DEF nb
  <2>10. ASSUME NEW q \in 1..(8 * nb) PROVE ByteBits(out)[q] = t[q]
    <3>1. PICK j \in 1..nb, i \in 1..8 : q = 8 * (j - 1) + i  BY <1>7, BitPlace
    <3>2. j \in 1..Len(out) /\ j \in 1..Len(st.buf)  BY <1>7, <2>8, <3>1 DEF nb
    <3>3. ByteBits(out)[q] = (out[j] \div 2^(8 - i)) % 2  BY <1>8, <3>1, <3>2, BitAt
    <3>4. ByteBits(st.buf)[q] = (st.buf[j] \div 2^(8 - i)) % 2  BY <1>7, <3>1, <3>2, BitAt
    <3>5. out[j] = st.buf[j]  BY <2>8
    <3> QED BY <1>7, <3>3, <3>4, <3>5
  <2>11. ASSUME NEW i \in 1..8 PROVE ByteBits(out)[8 * nb + i] = b[i]
    <3>1. nb + 1 \in 1..Len(out) /\ 8 * ((nb + 1) - 1) + i = 8 * nb + i  BY <1>7, <2>8
    <3>2. ByteBits(out)[8 * ((nb + 1) - 1) + i] = b[i]  BY <1>8, <2>6, <2>8, <3>1, ByteOfBits
    <3> QED BY <3>1, <3>2
  <2>12. ASSUME NEW q \in 1..Len(t) PROVE ByteBits(out)[q] = t[q]
    <3>1. CASE q <= 8 * nb  BY <1>7, <2>10, <3>1
    <3>2. CASE q > 8 * nb
      <4>1. q - 8 * nb \in 1..l /\ q - 8 * nb \in 1..8 /\ 8 * nb + (q - 8 * nb) = q
        BY <1>7, <2>2, <3>2
      <4>2. ByteBits(out)[8 * nb + (q - 8 * nb)] = b[q - 8 * nb]  BY <2>11, <4>1
      <4>3. b[q - 8 * nb] = t[8 * nb + (q - 8 * nb)]  BY <1>7, <2>3, <2>5, <4>1
      <4> QED BY <4>1, <4>2, <4>3
    <3> QED BY <1>7, <3>1, <3>2
  <2>13. ASSUME NEW q \in (Len(t) + 1)..(8 * Len(out)) PROVE ByteBits(out)[q] = 0
    <3> DEFINE e == q - 8 * nb - l
    <3>1. e \in 1..(8 - l) /\ l + e \in 1..8 /\ 8 * nb + (l + e) = q  BY <1>7, <2>2, <2>8
    <3> HIDE DEF e
    <3>2. ByteBits(out)[8 * nb + (l + e)] = b[l + e]  BY <2>11, <3>1
    <3>3. b[l + e] = 0  BY <2>4, <2>5, <3>1
    <3> QED BY <3>1, <3>2, <3>3
  <2> QED BY <1>8, <2>9, <2>12, <2>13 DEF out, t
<1> QED BY <1>9, <1>10

(* Bytes are known by their bits. *)
LEMMA ByteKnown ==
  ASSUME NEW x \in Byte
  PROVE  Value(Bits(x, 8)) = x
<1>1. x \in Int /\ 8 \in 0..14  BY OfByte
<1>2. Value(Bits(x, 8)) = x % 2^8  BY <1>1, ValueBits
<1>3. 2^8 = 256 /\ 0 <= x /\ x <= 255  BY OfByte
<1>4. x % 256 = x  BY <1>1, <1>3
<1> QED BY <1>2, <1>3, <1>4

LEMMA SameByte ==
  ASSUME NEW c \in Seq(Byte), NEW d \in Seq(Byte), NEW j \in 1..Len(c), j \in 1..Len(d),
         \A i \in 1..8 : ByteBits(c)[8 * (j - 1) + i] = ByteBits(d)[8 * (j - 1) + i]
  PROVE  c[j] = d[j]
<1>1. c[j] \in Byte /\ d[j] \in Byte  BY ElementOfSeq, Zenon
<1>2. \A i \in 1..8 : (c[j] \div 2^(8 - i)) % 2 = (d[j] \div 2^(8 - i)) % 2
  BY BitAt
<1>3. Bits(c[j], 8) = Bits(d[j], 8)  BY <1>2 DEF Bits
<1> QED BY <1>1, <1>3, ByteKnown

(***************************************************************************)
(* Fields of k bits: the first bytes of buf are those of x.                *)
(***************************************************************************)
Pieces(x, k) == [u \in DOMAIN x |-> Bits(x[u], k)]

Encodes(buf, x, k) ==
  /\ Bytes(k * Len(x)) <= Len(buf)
  /\ \A u \in 1..Len(x) : \A i \in 1..k : ByteBits(buf)[k * (u - 1) + i] = Bits(x[u], k)[i]
  /\ \A q \in (k * Len(x) + 1)..(8 * Bytes(k * Len(x))) : ByteBits(buf)[q] = 0

LEMMA PiecesType ==
  ASSUME NEW x \in Seq(Int), NEW k \in 1..14
  PROVE  /\ Pieces(x, k) \in Seq(Seq(Bit)) /\ Len(Pieces(x, k)) = Len(x)
         /\ \A u \in 1..Len(x) : Pieces(x, k)[u] = Bits(x[u], k) /\ Len(Pieces(x, k)[u]) = k
<1> DEFINE p == Pieces(x, k)
<1>1. DOMAIN x = 1..Len(x) /\ Len(x) \in Nat /\ \A u \in 1..Len(x) : x[u] \in Int
  BY LenProperties
<1>2. k \in 0..14  OBVIOUS
<1>3. \A u \in 1..Len(x) : p[u] = Bits(x[u], k)  BY <1>1 DEF Pieces
<1>4. \A u \in 1..Len(x) : Bits(x[u], k) \in Seq(Bit) /\ Len(Bits(x[u], k)) = k
  BY <1>1, <1>2, BitsType
<1>5. p \in [1..Len(x) -> Seq(Bit)]  BY <1>1, <1>4 DEF Pieces
<1> HIDE DEF p
<1>6. p \in Seq(Seq(Bit)) /\ Len(p) = Len(x)  BY <1>1, <1>5, ArrayIsSeq
<1> QED BY <1>3, <1>4, <1>6 DEF p

(* Fields follow one another. *)
LEMMA FieldStart ==
  ASSUME NEW x \in Seq(Int), NEW k \in 1..14, NEW c, IsJoin(c, Pieces(x, k))
  PROVE  \A u \in 0..Len(x) : Len(c[u]) = k * u
<1> DEFINE p == Pieces(x, k)
           l == Len(x)
           T == {u \in 0..l : Len(c[u]) = k * u}
<1>1. p \in Seq(Seq(Bit)) /\ Len(p) = l /\ \A u \in 1..l : Len(p[u]) = k
  BY PiecesType
<1>2. l \in Nat  OBVIOUS
<1> HIDE DEF p, l
<1>3. 0 \in T
  <2>1. c[0] = <<>>  BY DEF IsJoin
  <2>2. Len(c[0]) = 0 /\ k * 0 = 0 /\ 0 \in 0..l  BY <1>2, <2>1
  <2> QED BY <2>2
<1>4. ASSUME NEW j \in 0..(l - 1), j \in T PROVE j + 1 \in T
  <2>1. PICK i \in 1..Len(p) : i = j + 1  BY <1>1, <1>2
  <2>2. Len(c[i]) = Len(c[i - 1]) + Len(p[i])
    <3>1. IsJoin(c, p)  BY DEF p
    <3>2. PICK pp \in Seq(Seq(Bit)) : pp = p  BY <1>1
    <3>3. PICK ii \in 1..Len(pp) : ii = i  BY <3>2
    <3>4. Len(c[ii]) = Len(c[ii - 1]) + Len(pp[ii])  BY <3>1, <3>2, JoinNext
    <3> QED BY <3>2, <3>3, <3>4
  <2>3. Len(p[i]) = k /\ Len(c[i - 1]) = k * j  BY <1>1, <1>4, <2>1
  <2>4. k * (j + 1) = k * j + k /\ j + 1 \in 0..l  BY <1>2
  <2>5. Len(c[j + 1]) = k * (j + 1)  BY <2>1, <2>2, <2>3, <2>4
  <2> QED BY <2>4, <2>5
<1>5. \A u \in 0..l : u \in T
  <2> HIDE DEF T
  <2> QED BY <1>2, <1>3, <1>4, UpTo
<1> QED BY <1>5 DEF l

(* A fixed-width encoder writes the bits of its values. *)
LEMMA WrittenFields ==
  ASSUME NEW x \in Seq(Int), NEW k \in 1..14
  PROVE  LET out == Written(Pieces(x, k))
         IN  out \in Seq(Byte) /\ Len(out) = Bytes(k * Len(x)) /\ Encodes(out, x, k)
<1> DEFINE p == Pieces(x, k)
           l == Len(x)
           out == Written(p)
<1>1. p \in Seq(Seq(Bit)) /\ Len(p) = l /\ \A u \in 1..l : p[u] = Bits(x[u], k) /\ Len(p[u]) = k
  BY PiecesType
<1>2. l \in Nat /\ k * l \in Nat
  <2>1. l \in Nat  OBVIOUS
  <2> HIDE DEF l
  <2> QED BY <2>1
<1>3. PICK c : IsJoin(c, p)
  <2> HIDE DEF p
  <2> QED BY <1>1, JoinExists
<1>4. \A u \in 0..l : Len(c[u]) = k * u  BY <1>3, FieldStart
<1> HIDE DEF p, l, out
<1> DEFINE t == c[l]
<1>5. /\ out \in Seq(Byte) /\ Len(out) = Bytes(Len(t))
      /\ \A q \in 1..Len(t) : ByteBits(out)[q] = t[q]
      /\ \A q \in (Len(t) + 1)..(8 * Len(out)) : ByteBits(out)[q] = 0
  <2>1. \A i \in 1..Len(p) : Len(p[i]) <= 24  BY <1>1
  <2>2. Len(p) = l  BY <1>1
  <2> HIDE DEF t
  <2> QED BY <1>1, <1>3, <2>1, <2>2, WrittenBits DEF out, t
<1>6. Len(t) = k * l  BY <1>2, <1>4
<1> HIDE DEF t
<1>7. ASSUME NEW u \in 1..l, NEW i \in 1..k PROVE ByteBits(out)[k * (u - 1) + i] = Bits(x[u], k)[i]
  <2>1. PICK v \in 1..Len(p) : v = u  BY <1>1
  <2>2. PICK q \in 1..Len(p[v]) : q = i  BY <1>1, <2>1
  <2>3. /\ Len(c[v - 1]) + q \in 1..Len(c[Len(p)]) /\ c[Len(p)][Len(c[v - 1]) + q] = p[v][q]
    BY <1>1, <1>3, JoinAt
  <2>4. v - 1 \in 0..l  BY <1>1
  <2>5. Len(c[v - 1]) = k * (u - 1)  BY <1>4, <2>1, <2>4
  <2>6. p[v][q] = Bits(x[u], k)[i]  BY <1>1, <2>1, <2>2
  <2>7. k * (u - 1) + i \in 1..Len(t) /\ t[k * (u - 1) + i] = Bits(x[u], k)[i]
    BY <1>1, <2>2, <2>3, <2>5, <2>6 DEF t
  <2> QED BY <1>5, <2>7
<1>8. Bytes(k * l) <= Len(out)
  <2>1. Bytes(k * l) \in Nat  BY <1>2, BytesIs
  <2> QED BY <1>5, <1>6, <2>1
<1>9. ASSUME NEW q \in (k * l + 1)..(8 * Bytes(k * l)) PROVE ByteBits(out)[q] = 0
  BY <1>5, <1>6
<1>10. Encodes(out, x, k)  BY <1>7, <1>8, <1>9 DEF Encodes, l
<1> QED BY <1>5, <1>6, <1>10 DEF out, p, l

(* What follows the fields does not matter. *)
LEMMA EncodesLonger ==
  ASSUME NEW x \in Seq(Int), NEW k \in 1..14, NEW c \in Seq(Byte), NEW d \in Seq(Byte),
         Encodes(c, x, k), Len(c) <= Len(d), \A j \in 1..Len(c) : d[j] = c[j]
  PROVE  Encodes(d, x, k)
<1> DEFINE l == Len(x)
           b == Bytes(k * l)
<1>1. l \in Nat /\ k * l \in Nat /\ b \in Nat /\ k * l <= 8 * b
  <2>1. l \in Nat  OBVIOUS
  <2> HIDE DEF l
  <2>2. k * l \in Nat  BY <2>1
  <2> QED BY <2>1, <2>2, BytesIs
<1>2. Len(c) \in Nat /\ Len(d) \in Nat /\ b <= Len(c)  BY DEF Encodes
<1> HIDE DEF b, l
<1>3. ASSUME NEW q \in 1..(8 * b) PROVE ByteBits(d)[q] = ByteBits(c)[q]
  <2>1. PICK j \in 1..b, i \in 1..8 : q = 8 * (j - 1) + i  BY <1>1, BitPlace
  <2>2. j \in 1..Len(c) /\ j \in 1..Len(d)  BY <1>1, <1>2
  <2>3. ByteBits(c)[8 * (j - 1) + i] = (c[j] \div 2^(8 - i)) % 2  BY <2>2, BitAt
  <2>4. ByteBits(d)[8 * (j - 1) + i] = (d[j] \div 2^(8 - i)) % 2  BY <2>2, BitAt
  <2>5. d[j] = c[j]  BY <2>2
  <2> QED BY <2>1, <2>3, <2>4, <2>5
<1>4. ASSUME NEW u \in 1..l, NEW i \in 1..k PROVE ByteBits(d)[k * (u - 1) + i] = Bits(x[u], k)[i]
  <2>1. k * (u - 1) + i \in 1..(8 * b)
    <3>1. k * (u - 1) + i <= k * l /\ k * (u - 1) + i \in Nat /\ k * (u - 1) + i >= 1
      <4>1. k * (u - 1) >= 0 /\ k * (u - 1) \in Int  BY <1>1
      <4>2. k * (u - 1) + k = k * u /\ k * u <= k * l  BY <1>1
      <4> QED BY <1>1, <4>1, <4>2
    <3> QED BY <1>1, <3>1
  <2>2. ByteBits(c)[k * (u - 1) + i] = Bits(x[u], k)[i]  BY DEF Encodes, l
  <2> QED BY <1>3, <2>1, <2>2
<1>5. ASSUME NEW q \in (k * l + 1)..(8 * b) PROVE ByteBits(d)[q] = 0
  <2>1. q \in 1..(8 * b)  BY <1>1
  <2>2. ByteBits(c)[q] = 0  BY DEF Encodes, l, b
  <2> QED BY <1>3, <2>1, <2>2
<1>6. b <= Len(d)  BY <1>1, <1>2
<1> QED BY <1>4, <1>5, <1>6 DEF Encodes, l, b

(* A decoder reads the fields again. *)
LEMMA FieldRead ==
  ASSUME NEW x \in Seq(Int), NEW k \in 1..14, NEW buf \in Seq(Byte), Encodes(buf, x, k),
         NEW u \in 1..Len(x)
  PROVE  Value(SubSeq(ByteBits(buf), k * (u - 1) + 1, k * u)) = x[u] % 2^k
<1> DEFINE s == ByteBits(buf)
           a == k * (u - 1)
           l == Len(x)
           t == SubSeq(s, a + 1, k * u)
<1>1. s \in Seq(Bit) /\ Len(s) = 8 * Len(buf) /\ Len(buf) \in Nat  BY BytesAsBits
<1>2. l \in Nat /\ x[u] \in Int  BY LenProperties
<1>3. a \in Nat /\ a + k = k * u /\ k * u <= k * l /\ k * l \in Nat
  <2> HIDE DEF l
  <2> QED BY <1>2 DEF l
<1>4. a + k <= Len(s)
  <2>1. Bytes(k * l) <= Len(buf) /\ Bytes(k * l) \in Nat /\ k * l <= 8 * Bytes(k * l)
    BY <1>3, BytesIs DEF Encodes
  <2> DEFINE b == Bytes(k * l)
             z == k * l
             w == k * u
  <2> HIDE DEF b, s, a, l, z, w
  <2>2. b <= Len(buf) /\ b \in Nat /\ z <= 8 * b /\ z \in Nat /\ a + k = w /\ w <= z
    BY <1>3, <2>1 DEF b, z, w
  <2> QED BY <1>1, <1>3, <2>2
<1>5. \A i \in 1..k : s[a + i] = Bits(x[u], k)[i]  BY DEF Encodes
<1> HIDE DEF s, a
<1>6. t = Bits(x[u], k)
  <2>1. t = SubSeq(s, a + 1, a + k)  BY <1>3
  <2>2. SubSeq(s, a + 1, a + k) = [i \in 1..k |-> s[a + i]]  BY <1>1, <1>3, <1>4
  <2>3. Bits(x[u], k) = [i \in 1..k |-> Bits(x[u], k)[i]]  BY DEF Bits
  <2>4. [i \in 1..k |-> s[a + i]] = [i \in 1..k |-> Bits(x[u], k)[i]]  BY <1>5
  <2> QED BY <2>1, <2>2, <2>3, <2>4
<1>7. k \in 0..14  OBVIOUS
<1>8. Value(Bits(x[u], k)) = x[u] % 2^k  BY <1>2, <1>7, ValueBits
<1> QED BY <1>6, <1>8 DEF t, s, a

LEMMA TwosComplement ==
  ASSUME NEW k \in 2..14, NEW z \in Int, z > -(2^(k - 1)), z < 2^(k - 1)
  PROVE  LET w == z % 2^k
         IN  w \in Nat /\ z = IF w >= 2^(k - 1) THEN w - 2^k ELSE w
<1> DEFINE p == 2^(k - 1)
           q == 2^k
<1>1. p \in Nat /\ q = 2 * p  BY Power
<1>2. z > -p /\ z < p  OBVIOUS
<1> HIDE DEF p, q
<1>3. p > 0 /\ q \in Nat /\ q > 0  BY <1>1, <1>2
<1>4. CASE z >= 0
  <2>1. z = q * 0 + z /\ z \in 0..(q - 1)  BY <1>1, <1>2, <1>3, <1>4
  <2>2. z % q = z
    <3>1. 0 \in Int  OBVIOUS
    <3> QED BY <1>3, <2>1, <3>1, DivIs
  <2> QED BY <1>2, <1>4, <2>2 DEF p, q
<1>5. CASE z < 0
  <2> DEFINE r == z + q
  <2>1. z = q * (-1) + r /\ r \in 0..(q - 1) /\ r >= p  BY <1>1, <1>2, <1>3, <1>5
  <2>2. z % q = r
    <3>1. -1 \in Int  OBVIOUS
    <3> HIDE DEF r
    <3> QED BY <1>3, <2>1, <3>1, DivIs
  <2>3. r \in Nat /\ r >= p /\ z = r - q  BY <1>3, <2>1
  <2> HIDE DEF r
  <2> QED BY <2>2, <2>3 DEF p, q
<1> QED BY <1>4, <1>5

(* The values come back from their fields, whatever follows.               *)
LEMMA TrimDecoded ==
  ASSUME NEW x \in Seq(Int), NEW k \in 2..14, NEW buf \in Seq(Byte), Encodes(buf, x, k),
         \A u \in 1..Len(x) : x[u] > -(2^(k - 1)) /\ x[u] < 2^(k - 1)
  PROVE  trim_decode(buf, k, Len(x)) = [x |-> x, v |-> Bytes(k * Len(x))]
<1> DEFINE w(u) == Value(SubSeq(ByteBits(buf), k * (u - 1) + 1, k * u))
           e(u) == IF w(u) >= 2^(k - 1) THEN w(u) - 2^k ELSE w(u)
           y == [u \in 1..Len(x) |-> e(u)]
<1>1. ASSUME NEW u \in 1..Len(x) PROVE e(u) = x[u] /\ x[u] # -(2^(k - 1))
  <2>1. k \in 1..14 /\ x[u] \in Int  BY LenProperties
  <2>2. w(u) = x[u] % 2^k  BY <2>1, FieldRead
  <2> HIDE DEF w
  <2>3. e(u) = x[u]  BY <2>1, <2>2, TwosComplement
  <2>4. x[u] # -(2^(k - 1))
    <3> DEFINE p == 2^(k - 1)
    <3>1. p \in Nat /\ x[u] > -p  BY Power
    <3> HIDE DEF p
    <3>2. x[u] # -p  BY <2>1, <3>1
    <3> QED BY <3>2 DEF p
  <2> QED BY <2>3, <2>4
<1> HIDE DEF e
<1>2. y = x
  <2>1. x = [u \in 1..Len(x) |-> x[u]]  OBVIOUS
  <2> QED BY <1>1, <2>1
<1>3. ~(Bytes(k * Len(x)) > Len(buf))
  <2>1. Bytes(k * Len(x)) <= Len(buf)  BY DEF Encodes
  <2>2. k * Len(x) \in Nat /\ Len(buf) \in Nat  OBVIOUS
  <2>3. Bytes(k * Len(x)) \in Nat  BY <2>2, BytesIs
  <2> QED BY <2>1, <2>2, <2>3
<1>4. PaddedWithZeros(ByteBits(buf), k * Len(x))  BY DEF PaddedWithZeros, Encodes
<1>5. ~(\E u \in 1..Len(x) : y[u] = -(2^(k - 1)))  BY <1>1, <1>2
<1>6. trim_decode(buf, k, Len(x)) =
        IF Bytes(k * Len(x)) > Len(buf) THEN Refused
        ELSE IF (\E u \in 1..Len(x) : y[u] = -(2^(k - 1)))
                \/ ~PaddedWithZeros(ByteBits(buf), k * Len(x))
        THEN Refused ELSE [x |-> y, v |-> Bytes(k * Len(x))]
  BY DEF trim_decode, e
<1> QED BY <1>2, <1>3, <1>4, <1>5, <1>6

LEMMA ModqDecoded ==
  ASSUME NEW x \in Seq(Int), NEW buf \in Seq(Byte), Encodes(buf, x, 14),
         \A u \in 1..Len(x) : x[u] \in Residue
  PROVE  modq_decode(buf, Len(x)) = [x |-> x, v |-> Bytes(14 * Len(x))]
<1> DEFINE w(u) == Value(SubSeq(ByteBits(buf), 14 * (u - 1) + 1, 14 * u))
           y == [u \in 1..Len(x) |-> w(u)]
<1>1. ASSUME NEW u \in 1..Len(x) PROVE w(u) = x[u] /\ ~(x[u] >= 12289)
  <2>1. 14 \in 1..14 /\ x[u] \in Residue  OBVIOUS
  <2>2. w(u) = x[u] % 2^14  BY <2>1, FieldRead
  <2>3. 2^14 = 16384  OBVIOUS
  <2>4. x[u] % 16384 = x[u] /\ ~(x[u] >= 12289)
    <3> DEFINE z == x[u]
    <3> HIDE DEF z
    <3>1. z \in 0..12288  BY <2>1 DEF Residue, z
    <3>2. z \in Int /\ z >= 0 /\ z <= 12288  BY <3>1
    <3>3. z % 16384 = z  BY <3>2
    <3>4. ~(z >= 12289)  BY <3>2
    <3> QED BY <3>3, <3>4 DEF z
  <2> QED BY <2>2, <2>3, <2>4
<1>2. y = x
  <2>1. x = [u \in 1..Len(x) |-> x[u]]  OBVIOUS
  <2> HIDE DEF w
  <2> QED BY <1>1, <2>1
<1>3. ~(Bytes(14 * Len(x)) > Len(buf))
  <2>1. Bytes(14 * Len(x)) <= Len(buf)  BY DEF Encodes
  <2>2. 14 * Len(x) \in Nat /\ Len(buf) \in Nat  OBVIOUS
  <2>3. Bytes(14 * Len(x)) \in Nat  BY <2>2, BytesIs
  <2> QED BY <2>1, <2>2, <2>3
<1>4. PaddedWithZeros(ByteBits(buf), 14 * Len(x))  BY DEF PaddedWithZeros, Encodes
<1>5. ~(\E u \in 1..Len(x) : y[u] >= 12289)  BY <1>1, <1>2
<1>6. modq_decode(buf, Len(x)) =
        IF Bytes(14 * Len(x)) > Len(buf) THEN Refused
        ELSE IF (\E u \in 1..Len(x) : y[u] >= 12289)
                \/ ~PaddedWithZeros(ByteBits(buf), 14 * Len(x))
        THEN Refused ELSE [x |-> y, v |-> Bytes(14 * Len(x))]
  BY DEF modq_decode
<1> QED BY <1>2, <1>3, <1>4, <1>5, <1>6

(***************************************************************************)
(* There is one encoding of what a decoder accepts.                        *)
(***************************************************************************)
LEMMA FieldPlace ==
  ASSUME NEW k \in Nat, k > 0, NEW l \in Nat, NEW q \in 1..(k * l)
  PROVE  \E u \in 1..l, i \in 1..k : q = k * (u - 1) + i
<1> DEFINE a == (q - 1) \div k
           b == (q - 1) % k
<1>0. k * l \in Int  OBVIOUS
<1>1. q - 1 \in Int /\ q - 1 >= 0 /\ q - 1 < k * l  BY <1>0
<1>2. b \in 0..(k - 1) /\ a \in Int /\ q - 1 = k * a + b  BY <1>1, ModIs
<1> HIDE DEF a, b
<1>3. a < l
  <2> SUFFICES ASSUME a >= l PROVE FALSE  BY <1>2
  <2>1. k * a >= k * l  BY <1>2
  <2>2. k * a \in Int  BY <1>2
  <2> QED BY <1>0, <1>1, <1>2, <2>1, <2>2
<1>4. a >= 0
  <2> SUFFICES ASSUME a <= -1 PROVE FALSE  BY <1>2
  <2>1. k * a <= -k  BY <1>2
  <2>2. k * a \in Int  BY <1>2
  <2> QED BY <1>1, <1>2, <2>1, <2>2
<1>5. a + 1 \in 1..l /\ b + 1 \in 1..k /\ (a + 1) - 1 = a  BY <1>2, <1>3, <1>4
<1>6. q = k * ((a + 1) - 1) + (b + 1)
  <2>1. k * a \in Int  BY <1>2
  <2> QED BY <1>2, <1>5, <2>1
<1> DEFINE c == a + 1
           d == b + 1
<1>7. c \in 1..l /\ d \in 1..k /\ q = k * (c - 1) + d  BY <1>5, <1>6
<1> HIDE DEF c, d
<1> QED BY <1>7, Zenon

LEMMA EncodesSame ==
  ASSUME NEW x \in Seq(Int), NEW k \in 1..14, NEW c \in Seq(Byte), NEW d \in Seq(Byte),
         Encodes(c, x, k), Encodes(d, x, k)
  PROVE  \A j \in 1..Bytes(k * Len(x)) : c[j] = d[j]
<1> DEFINE l == Len(x)
           b == Bytes(k * l)
<1>1. l \in Nat /\ k * l \in Nat /\ b \in Nat /\ k * l <= 8 * b
  <2>1. l \in Nat  OBVIOUS
  <2> HIDE DEF l
  <2>2. k * l \in Nat  BY <2>1
  <2> QED BY <2>1, <2>2, BytesIs
<1>2. Len(c) \in Nat /\ Len(d) \in Nat /\ b <= Len(c) /\ b <= Len(d)  BY DEF Encodes
<1> HIDE DEF b, l
<1>3. ASSUME NEW q \in 1..(8 * b) PROVE ByteBits(c)[q] = ByteBits(d)[q]
  <2>1. CASE q <= k * l
    <3>1. q \in 1..(k * l)  BY <1>1, <2>1
    <3>0. k \in Nat /\ k > 0  OBVIOUS
    <3>2. PICK u \in 1..l, i \in 1..k : q = k * (u - 1) + i
      BY <1>1, <3>0, <3>1, FieldPlace, Zenon
    <3>3. ByteBits(c)[k * (u - 1) + i] = Bits(x[u], k)[i]  BY DEF Encodes, l
    <3>4. ByteBits(d)[k * (u - 1) + i] = Bits(x[u], k)[i]  BY DEF Encodes, l
    <3> QED BY <3>2, <3>3, <3>4
  <2>2. CASE ~(q <= k * l)
    <3>1. q \in (k * l + 1)..(8 * b)  BY <1>1, <2>2
    <3>2. ByteBits(c)[q] = 0  BY <3>1 DEF Encodes, l, b
    <3>3. ByteBits(d)[q] = 0  BY <3>1 DEF Encodes, l, b
    <3> QED BY <3>2, <3>3
  <2> QED BY <2>1, <2>2
<1>4. ASSUME NEW j \in 1..b PROVE c[j] = d[j]
  <2>1. j \in 1..Len(c) /\ j \in 1..Len(d)  BY <1>1, <1>2
  <2>2. ASSUME NEW i \in 1..8
        PROVE  ByteBits(c)[8 * (j - 1) + i] = ByteBits(d)[8 * (j - 1) + i]
    <3>1. 8 * (j - 1) + i \in 1..(8 * b)  BY <1>1
    <3> QED BY <1>3, <3>1
  <2> QED BY <2>1, <2>2, SameByte
<1> QED BY <1>4 DEF b, l

(* Numbers that are equal modulo 2^k have the same k bits. *)
LEMMA SameBits ==
  ASSUME NEW k \in 1..14, NEW s \in Seq(Bit), Len(s) = k, NEW z \in Int,
         z % 2^k = Value(s)
  PROVE  Bits(z, k) = s
<1>1. k \in 0..14 /\ k <= 14  OBVIOUS
<1> DEFINE t == Bits(z, k)
<1>2. t \in Seq(Bit) /\ Len(t) = k /\ Value(t) = z % 2^k  BY <1>1, BitsType, ValueBits
<1> HIDE DEF t
<1>3. Bits(Value(t), k) = t
  <2>1. Len(t) <= 14  BY <1>1, <1>2
  <2> QED BY <1>2, <2>1, BitsValue
<1>4. Bits(Value(s), k) = s  BY <1>1, BitsValue
<1> QED BY <1>2, <1>3, <1>4 DEF t

(* A field of s, its bits and its value. *)
LEMMA FieldIs ==
  ASSUME NEW buf \in Seq(Byte), NEW k \in 1..14, NEW count \in Nat,
         Bytes(k * count) <= Len(buf), NEW u \in 1..count, NEW z \in Int,
         z % 2^k = Value(SubSeq(ByteBits(buf), k * (u - 1) + 1, k * u)),
         NEW i \in 1..k
  PROVE  ByteBits(buf)[k * (u - 1) + i] = Bits(z, k)[i]
<1> DEFINE s == ByteBits(buf)
           a == k * (u - 1)
           t == SubSeq(s, a + 1, a + k)
<1>1. s \in Seq(Bit) /\ Len(s) = 8 * Len(buf) /\ Len(buf) \in Nat  BY BytesAsBits
<1>2. a \in Nat /\ a + k = k * u /\ k * u <= k * count /\ k * count \in Nat
  OBVIOUS
<1>3. a + k <= Len(s)
  <2> DEFINE b == Bytes(k * count)
             c == k * count
             w == k * u
  <2>1. b \in Nat /\ c <= 8 * b  BY <1>2, BytesIs
  <2> HIDE DEF b, s, a, c, w
  <2>2. a + k = w /\ w <= c /\ c \in Nat /\ a \in Nat /\ b <= Len(buf)  BY <1>2 DEF c, w, b
  <2> QED BY <1>1, <2>1, <2>2
<1>4. z % 2^k = Value(t)  BY <1>2
<1> HIDE DEF s, a
<1>5. t \in Seq(Bit) /\ Len(t) = k /\ t[i] = s[a + i]  BY <1>1, <1>2, <1>3
<1> HIDE DEF t
<1>6. Bits(z, k) = t  BY <1>4, <1>5, SameBits
<1> QED BY <1>5, <1>6 DEF s, a

(* What trim_decode accepts encodes what it finds. *)
LEMMA TrimAccepted ==
  ASSUME NEW buf \in Seq(Byte), NEW k \in 2..14, NEW count \in Nat,
         trim_decode(buf, k, count) # Refused
  PROVE  LET r == trim_decode(buf, k, count)
         IN  /\ r.x \in Seq(Int) /\ Len(r.x) = count /\ Encodes(buf, r.x, k)
             /\ \A u \in 1..count : r.x[u] \in (-(2^(k - 1) - 1))..(2^(k - 1) - 1)
             /\ r.v = Bytes(k * count)
<1> DEFINE w(u) == Value(SubSeq(ByteBits(buf), k * (u - 1) + 1, k * u))
           e(u) == IF w(u) >= 2^(k - 1) THEN w(u) - 2^k ELSE w(u)
           x == [u \in 1..count |-> e(u)]
           r == trim_decode(buf, k, count)
           top == 2^(k - 1) - 1
<1>1. k \in 1..14 /\ k * count \in Nat /\ Len(buf) \in Nat  OBVIOUS
<1>2. /\ Bytes(k * count) <= Len(buf) /\ PaddedWithZeros(ByteBits(buf), k * count)
      /\ r = [x |-> x, v |-> Bytes(k * count)]
  <2>1. /\ ~(Bytes(k * count) > Len(buf)) /\ PaddedWithZeros(ByteBits(buf), k * count)
        /\ r = [x |-> x, v |-> Bytes(k * count)]
    BY DEF trim_decode
  <2>2. Bytes(k * count) \in Nat  BY <1>1, BytesIs
  <2> QED BY <1>1, <2>1, <2>2
<1>3. r.x \in [1..count -> (-top)..top] /\ r.v = Bytes(k * count)  BY TrimDecodeType
<1>4. r.x = x  BY <1>2
<1>5. top \in Nat
  <2>1. 2^(k - 1) \in Nat /\ 2^(k - 1) > 0
    <3>1. k - 1 \in 0..14  OBVIOUS
    <3> QED BY <3>1, PowerNat
  <2> QED BY <2>1
<1>6. x \in [1..count -> Int]
  <2>1. \A z \in (-top)..top : z \in Int  OBVIOUS
  <2> HIDE DEF x, r, top
  <2> QED BY <1>3, <1>4, <2>1
<1>7. x \in Seq(Int) /\ Len(x) = count
  <2> HIDE DEF x
  <2> QED BY <1>6, ArrayIsSeq
<1>8. ASSUME NEW u \in 1..count PROVE e(u) \in Int /\ e(u) % 2^k = w(u)
  <2> DEFINE q == 2^k
             p == 2^(k - 1)
  <2>1. w(u) \in Nat /\ w(u) < q  BY <1>1, <1>2, Fields
  <2>2. p \in Nat /\ q = 2 * p  BY Power
  <2> HIDE DEF w, p, q
  <2>3. CASE e(u) = w(u)
    <3> DEFINE z == w(u)
    <3> HIDE DEF z
    <3>1. z \in Nat /\ z < q /\ q \in Nat  BY <2>1, <2>2 DEF z
    <3>2. z % q = z /\ z \in Int
      <4>1. z = q * 0 + z /\ z \in 0..(q - 1) /\ q > 0 /\ 0 \in Int  BY <3>1
      <4> QED BY <3>1, <4>1, DivIs
    <3> QED BY <2>3, <3>2 DEF z, q
  <2>4. CASE e(u) = w(u) - q
    <3> DEFINE z == w(u)
    <3> HIDE DEF z
    <3>1. z \in Nat /\ z < q /\ q \in Nat  BY <2>1, <2>2 DEF z
    <3>2. (z - q) % q = z /\ z - q \in Int
      <4>1. z - q = q * (-1) + z /\ z \in 0..(q - 1) /\ q > 0 /\ -1 \in Int /\ z - q \in Int
        BY <3>1
      <4> QED BY <3>1, <4>1, DivIs
    <3> QED BY <2>4, <3>2 DEF z, q
  <2> QED BY <2>3, <2>4 DEF q
<1>9. ASSUME NEW u \in 1..count, NEW i \in 1..k
      PROVE  ByteBits(buf)[k * (u - 1) + i] = Bits(x[u], k)[i]
  <2>1. e(u) \in Int /\ e(u) % 2^k = w(u)  BY <1>8
  <2>2. x[u] = e(u)  OBVIOUS
  <2>3. x[u] \in Int /\ x[u] % 2^k = Value(SubSeq(ByteBits(buf), k * (u - 1) + 1, k * u))
    BY <2>1, <2>2
  <2> HIDE DEF x, e, w
  <2> QED BY <1>1, <1>2, <2>3, FieldIs
<1>10. Encodes(buf, x, k)
  <2> HIDE DEF x
  <2> QED BY <1>2, <1>7, <1>9 DEF Encodes, PaddedWithZeros
<1> HIDE DEF x, r
<1> QED BY <1>3, <1>4, <1>7, <1>10 DEF r

LEMMA ModqAccepted ==
  ASSUME NEW buf \in Seq(Byte), NEW count \in Nat, modq_decode(buf, count) # Refused
  PROVE  LET r == modq_decode(buf, count)
         IN  /\ r.x \in Seq(Int) /\ Len(r.x) = count /\ Encodes(buf, r.x, 14)
             /\ \A u \in 1..count : r.x[u] \in Residue
             /\ r.v = Bytes(14 * count)
<1> DEFINE w(u) == Value(SubSeq(ByteBits(buf), 14 * (u - 1) + 1, 14 * u))
           x == [u \in 1..count |-> w(u)]
           r == modq_decode(buf, count)
<1>1. 14 \in 1..14 /\ 14 * count \in Nat /\ Len(buf) \in Nat  OBVIOUS
<1>2. /\ Bytes(14 * count) <= Len(buf) /\ PaddedWithZeros(ByteBits(buf), 14 * count)
      /\ r = [x |-> x, v |-> Bytes(14 * count)]
  <2>1. /\ ~(Bytes(14 * count) > Len(buf)) /\ PaddedWithZeros(ByteBits(buf), 14 * count)
        /\ r = [x |-> x, v |-> Bytes(14 * count)]
    BY DEF modq_decode
  <2>2. Bytes(14 * count) \in Nat  BY <1>1, BytesIs
  <2> QED BY <1>1, <2>1, <2>2
<1>3. r.x \in [1..count -> Residue] /\ r.v = Bytes(14 * count)  BY ModqDecodeType
<1>4. r.x = x  BY <1>2
<1>5. x \in [1..count -> Int]
  <2>1. \A z \in Residue : z \in Int  BY DEF Residue
  <2> HIDE DEF x, r
  <2> QED BY <1>3, <1>4, <2>1
<1>6. x \in Seq(Int) /\ Len(x) = count
  <2> HIDE DEF x
  <2> QED BY <1>5, ArrayIsSeq
<1>7. ASSUME NEW u \in 1..count PROVE w(u) \in Int /\ w(u) % 2^14 = w(u)
  <2>1. w(u) \in Nat /\ w(u) < 2^14  BY <1>1, <1>2, Fields
  <2> DEFINE z == w(u)
  <2> HIDE DEF z
  <2>2. z \in Nat /\ z < 16384  BY <2>1 DEF z
  <2>3. z % 16384 = z /\ 2^14 = 16384  BY <2>2
  <2> QED BY <2>2, <2>3 DEF z
<1>8. ASSUME NEW u \in 1..count, NEW i \in 1..14
      PROVE  ByteBits(buf)[14 * (u - 1) + i] = Bits(x[u], 14)[i]
  <2>1. w(u) \in Int /\ w(u) % 2^14 = w(u)  BY <1>7
  <2>2. x[u] = w(u)  OBVIOUS
  <2>3. x[u] \in Int /\ x[u] % 2^14 = Value(SubSeq(ByteBits(buf), 14 * (u - 1) + 1, 14 * u))
    BY <2>1, <2>2
  <2> HIDE DEF x, w
  <2> QED BY <1>1, <1>2, <2>3, FieldIs
<1>9. Encodes(buf, x, 14)
  <2> HIDE DEF x
  <2> QED BY <1>2, <1>6, <1>8 DEF Encodes, PaddedWithZeros
<1> HIDE DEF x, r
<1> QED BY <1>3, <1>4, <1>6, <1>9 DEF r

(* buf starts with the bytes of c. *)
Begins(buf, c) == Len(c) <= Len(buf) /\ \A j \in 1..Len(c) : buf[j] = c[j]

(* What trim_encode accepts, it encodes; trim_decode finds it again,       *)
(* whatever follows it in the buffer (codec.c:115-209).                    *)
THEOREM TrimRoundTrip ==
  ASSUME NEW x \in Seq(Int), NEW k \in 2..14, NEW room \in Nat, NEW buf \in Seq(Byte),
         trim_encode(x, k, room) # <<>>, Begins(buf, trim_encode(x, k, room))
  PROVE  /\ trim_decode(buf, k, Len(x)) = [x |-> x, v |-> Bytes(k * Len(x))]
         /\ Len(trim_encode(x, k, room)) = Bytes(k * Len(x))
<1> DEFINE out == Written(Pieces(x, k))
           top == 2^(k - 1) - 1
<1>1. k \in 1..14  OBVIOUS
<1>2. out \in Seq(Byte) /\ Len(out) = Bytes(k * Len(x)) /\ Encodes(out, x, k)
  BY <1>1, WrittenFields
<1>3. /\ trim_encode(x, k, room) = out
      /\ \A u \in DOMAIN x : x[u] \in (-top)..top
  BY DEF trim_encode, Pieces
<1>4. \A u \in 1..Len(x) : x[u] > -(2^(k - 1)) /\ x[u] < 2^(k - 1)
  <2> SUFFICES ASSUME NEW u \in 1..Len(x)
               PROVE  x[u] > -(2^(k - 1)) /\ x[u] < 2^(k - 1)
    OBVIOUS
  <2> DEFINE p == 2^(k - 1)
             z == x[u]
  <2>1. p \in Nat  BY Power
  <2>2. z \in (-(p - 1))..(p - 1)
    <3>1. DOMAIN x = 1..Len(x)  OBVIOUS
    <3> QED BY <1>3, <3>1
  <2> HIDE DEF p, z
  <2>3. z > -p /\ z < p  BY <2>1, <2>2
  <2> QED BY <2>3 DEF p, z
<1> HIDE DEF out, top
<1>5. Encodes(buf, x, k)  BY <1>1, <1>2, <1>3, EncodesLonger DEF Begins
<1>6. trim_decode(buf, k, Len(x)) = [x |-> x, v |-> Bytes(k * Len(x))]
  BY <1>4, <1>5, TrimDecoded
<1> QED BY <1>2, <1>3, <1>6

(* The same of the residues of modq_encode (codec.c:34-113). *)
THEOREM ModqRoundTrip ==
  ASSUME NEW x \in Seq(Int), NEW room \in Nat, NEW buf \in Seq(Byte),
         \A u \in 1..Len(x) : x[u] \in Residue,
         Bytes(14 * Len(x)) <= room, Begins(buf, modq_encode(x, room))
  PROVE  /\ modq_decode(buf, Len(x)) = [x |-> x, v |-> Bytes(14 * Len(x))]
         /\ Len(modq_encode(x, room)) = Bytes(14 * Len(x))
<1> DEFINE out == Written(Pieces(x, 14))
<1>1. 14 \in 1..14 /\ DOMAIN x = 1..Len(x)  OBVIOUS
<1>2. out \in Seq(Byte) /\ Len(out) = Bytes(14 * Len(x)) /\ Encodes(out, x, 14)
  BY <1>1, WrittenFields
<1>3. modq_encode(x, room) = out
  <2>1. ~(\E u \in DOMAIN x : x[u] >= 12289)
    <3>1. \A z \in Residue : ~(z >= 12289)  BY DEF Residue
    <3> QED BY <1>1, <3>1
  <2>2. ~(Bytes(14 * Len(x)) > room)
    <3>1. 14 * Len(x) \in Nat  OBVIOUS
    <3>2. Bytes(14 * Len(x)) \in Nat  BY <3>1, BytesIs
    <3> QED BY <3>2
  <2> QED BY <2>1, <2>2 DEF modq_encode, Pieces
<1> HIDE DEF out
<1>4. Encodes(buf, x, 14)  BY <1>1, <1>2, <1>3, EncodesLonger DEF Begins
<1> QED BY <1>2, <1>3, <1>4, ModqDecoded

(* What trim_decode accepts is what trim_encode makes of the values that   *)
(* were found: a value has one encoding.                                   *)
THEOREM TrimOneEncoding ==
  ASSUME NEW buf \in Seq(Byte), NEW k \in 2..14, NEW count \in Nat, NEW room \in Nat,
         trim_decode(buf, k, count) # Refused, Bytes(k * count) <= room
  PROVE  LET r == trim_decode(buf, k, count)
         IN  /\ Len(trim_encode(r.x, k, room)) = r.v
             /\ Begins(buf, trim_encode(r.x, k, room))
<1> DEFINE x == trim_decode(buf, k, count).x
           out == Written(Pieces(x, k))
           top == 2^(k - 1) - 1
<1>1. k \in 1..14  OBVIOUS
<1>2. /\ x \in Seq(Int) /\ Len(x) = count /\ Encodes(buf, x, k)
      /\ \A u \in 1..count : x[u] \in (-top)..top
      /\ trim_decode(buf, k, count).v = Bytes(k * count)
  BY TrimAccepted
<1> HIDE DEF x
<1>3. out \in Seq(Byte) /\ Len(out) = Bytes(k * count) /\ Encodes(out, x, k)
  BY <1>1, <1>2, WrittenFields
<1>4. trim_encode(x, k, room) = out
  <2>1. DOMAIN x = 1..count  BY <1>2
  <2>2. ~(\E u \in DOMAIN x : x[u] \notin (-top)..top)  BY <1>2, <2>1
  <2>3. ~(Bytes(k * Len(x)) > room)
    <3>1. k * count \in Nat  OBVIOUS
    <3>2. Bytes(k * count) \in Nat  BY <3>1, BytesIs
    <3> QED BY <1>2, <3>2
  <2> QED BY <2>2, <2>3 DEF trim_encode, Pieces
<1> HIDE DEF out
<1>5. Begins(buf, out)
  <2>1. \A j \in 1..Bytes(k * count) : buf[j] = out[j]  BY <1>1, <1>2, <1>3, EncodesSame
  <2>2. Bytes(k * count) <= Len(buf)  BY <1>2 DEF Encodes
  <2> QED BY <1>3, <2>1, <2>2 DEF Begins
<1> QED BY <1>2, <1>3, <1>4, <1>5 DEF x

(* The same of modq_decode: a public key has one encoding.                 *)
THEOREM ModqOneEncoding ==
  ASSUME NEW buf \in Seq(Byte), NEW count \in Nat, NEW room \in Nat,
         modq_decode(buf, count) # Refused, Bytes(14 * count) <= room
  PROVE  LET r == modq_decode(buf, count)
         IN  /\ Len(modq_encode(r.x, room)) = r.v
             /\ Begins(buf, modq_encode(r.x, room))
<1> DEFINE x == modq_decode(buf, count).x
           out == Written(Pieces(x, 14))
<1>1. 14 \in 1..14  OBVIOUS
<1>2. /\ x \in Seq(Int) /\ Len(x) = count /\ Encodes(buf, x, 14)
      /\ \A u \in 1..count : x[u] \in Residue
      /\ modq_decode(buf, count).v = Bytes(14 * count)
  BY ModqAccepted
<1> HIDE DEF x
<1>3. out \in Seq(Byte) /\ Len(out) = Bytes(14 * count) /\ Encodes(out, x, 14)
  BY <1>1, <1>2, WrittenFields
<1>4. modq_encode(x, room) = out
  <2>1. DOMAIN x = 1..count  BY <1>2
  <2>2. ~(\E u \in DOMAIN x : x[u] >= 12289)
    <3>1. \A z \in Residue : ~(z >= 12289)  BY DEF Residue
    <3> QED BY <1>2, <2>1, <3>1
  <2>3. ~(Bytes(14 * Len(x)) > room)
    <3>1. 14 * count \in Nat  OBVIOUS
    <3>2. Bytes(14 * count) \in Nat  BY <3>1, BytesIs
    <3> QED BY <1>2, <3>2
  <2> QED BY <2>2, <2>3 DEF modq_encode, Pieces
<1> HIDE DEF out
<1>5. Begins(buf, out)
  <2>1. \A j \in 1..Bytes(14 * count) : buf[j] = out[j]  BY <1>1, <1>2, <1>3, EncodesSame
  <2>2. Bytes(14 * count) <= Len(buf)  BY <1>2 DEF Encodes
  <2> QED BY <1>3, <2>1, <2>2 DEF Begins
<1> QED BY <1>2, <1>3, <1>4, <1>5 DEF x

(***************************************************************************)
(* The compressed format.                                                  *)
(***************************************************************************)
Magnitude(t) == IF t < 0 THEN -t ELSE t

LEMMA MagnitudeIs ==
  ASSUME NEW t \in Coefficient
  PROVE  LET w == Magnitude(t)
         IN  /\ w \in 0..2047 /\ w \div 128 \in 0..15 /\ w % 128 \in 0..127
             /\ w = 128 * (w \div 128) + (w % 128)
<1> DEFINE w == Magnitude(t)
<1>1. w \in 0..2047  BY DEF Magnitude, Coefficient
<1> HIDE DEF w
<1>2. /\ w \div 128 \in 0..15 /\ w % 128 \in 0..127
      /\ w = 128 * (w \div 128) + (w % 128)
  BY <1>1
<1> QED BY <1>1, <1>2 DEF w

(* The bits of c start after the first p of s. *)
BitsAt(s, p, c) == p + Len(c) <= Len(s) /\ \A q \in 1..Len(c) : s[p + q] = c[q]

LEMMA ConcatBits ==
  ASSUME NEW c \in Seq(Bit), NEW d \in Seq(Bit)
  PROVE  /\ c \o d \in Seq(Bit) /\ Len(c \o d) = Len(c) + Len(d)
         /\ \A i \in 1..Len(c) : (c \o d)[i] = c[i]
         /\ \A i \in 1..Len(d) : (c \o d)[Len(c) + i] = d[i]
<1>1. c \o d \in Seq(Bit) /\ Len(c \o d) = Len(c) + Len(d)  OBVIOUS
<1>2. \A i \in 1..Len(c) : (c \o d)[i] = c[i]  OBVIOUS
<1>3. \A i \in 1..Len(d) : (c \o d)[Len(c) + i] = d[i]  OBVIOUS
<1> QED BY <1>1, <1>2, <1>3

(* A piece has nine bits and those of its high part in unary. *)
LEMMA PieceBits ==
  ASSUME NEW t \in Coefficient
  PROVE  LET w == Magnitude(t)
             z == w \div 128
             c == CompPiece(t)
         IN  /\ c \in Seq(Bit) /\ Len(c) = 9 + z /\ Len(c) <= 24
             /\ c[1] = IF t < 0 THEN 1 ELSE 0
             /\ \A i \in 1..7 : c[1 + i] = Bits(w, 7)[i]
             /\ \A i \in 9..(8 + z) : c[i] = 0
             /\ c[9 + z] = 1
<1> DEFINE w == Magnitude(t)
           z == w \div 128
           h == IF t < 0 THEN 1 ELSE 0
           b == Bits(w, 7)
           o == Zeros(z)
<1>1. w \in 0..2047 /\ z \in 0..15  BY MagnitudeIs
<1>2. CompPiece(t) = ((<<h>> \o b) \o o) \o <<1>>  BY DEF CompPiece, Magnitude
<1>3. h \in Bit  BY DEF Bit
<1>4. b \in Seq(Bit) /\ Len(b) = 7
  <2>1. w \in Int /\ 7 \in 0..14  BY <1>1
  <2> QED BY <2>1, BitsType
<1>5. o \in Seq(Bit) /\ Len(o) = z /\ \A i \in 1..z : o[i] = 0
  <2>1. z \in Nat  BY <1>1
  <2> QED BY <2>1, ZeroBits DEF Zeros
<1> HIDE DEF w, z, h, b, o
<1>6. /\ <<h>> \in Seq(Bit) /\ Len(<<h>>) = 1 /\ <<h>>[1] = h
      /\ <<1>> \in Seq(Bit) /\ Len(<<1>>) = 1 /\ <<1>>[1] = 1
  BY <1>3 DEF Bit
<1> DEFINE c1 == <<h>> \o b
           c2 == c1 \o o
           c3 == c2 \o <<1>>
<1>7. /\ c1 \in Seq(Bit) /\ Len(c1) = 8 /\ c1[1] = h /\ \A i \in 1..7 : c1[1 + i] = b[i]
  <2> DEFINE e == <<h>>
  <2>1. e \in Seq(Bit) /\ Len(e) = 1 /\ e[1] = h  BY <1>6
  <2> HIDE DEF e
  <2>2. /\ e \o b \in Seq(Bit) /\ Len(e \o b) = Len(e) + Len(b)
        /\ \A i \in 1..Len(e) : (e \o b)[i] = e[i]
        /\ \A i \in 1..Len(b) : (e \o b)[Len(e) + i] = b[i]
    BY <1>4, <2>1, ConcatBits
  <2> QED BY <1>4, <2>1, <2>2 DEF e
<1> HIDE DEF c1
<1>8. /\ c2 \in Seq(Bit) /\ Len(c2) = 8 + z /\ \A i \in 1..8 : c2[i] = c1[i]
      /\ \A i \in 1..z : c2[8 + i] = 0
  <2>2. /\ c1 \o o \in Seq(Bit) /\ Len(c1 \o o) = Len(c1) + Len(o)
        /\ \A i \in 1..Len(c1) : (c1 \o o)[i] = c1[i]
        /\ \A i \in 1..Len(o) : (c1 \o o)[Len(c1) + i] = o[i]
    BY <1>5, <1>7, ConcatBits
  <2> QED BY <1>5, <1>7, <2>2
<1> HIDE DEF c2
<1>9. /\ c3 \in Seq(Bit) /\ Len(c3) = 9 + z /\ \A i \in 1..(8 + z) : c3[i] = c2[i]
      /\ c3[9 + z] = 1
  <2> DEFINE e == <<1>>
  <2>1. e \in Seq(Bit) /\ Len(e) = 1 /\ e[1] = 1  BY <1>6
  <2> HIDE DEF e
  <2>2. /\ c2 \o e \in Seq(Bit) /\ Len(c2 \o e) = Len(c2) + Len(e)
        /\ \A i \in 1..Len(c2) : (c2 \o e)[i] = c2[i]
        /\ \A i \in 1..Len(e) : (c2 \o e)[Len(c2) + i] = e[i]
    BY <1>8, <2>1, ConcatBits
  <2>3. (8 + z) + 1 = 9 + z /\ 1 \in 1..Len(e)  BY <1>1, <2>1
  <2>4. c3 = c2 \o e  BY DEF e
  <2> HIDE DEF c3
  <2>5. c3[(8 + z) + 1] = 1  BY <1>8, <2>1, <2>2, <2>3, <2>4
  <2> QED BY <1>8, <2>1, <2>2, <2>3, <2>4, <2>5
<1>10. c3 = CompPiece(t)  BY <1>2 DEF c1, c2
<1> HIDE DEF c3
<1>11. c3[1] = h /\ \A i \in 1..7 : c3[1 + i] = b[i]
  <2>1. \A i \in 1..8 : i \in 1..(8 + z)  BY <1>1
  <2>2. \A i \in 1..8 : c3[i] = c1[i]  BY <1>8, <1>9, <2>1
  <2>3. \A i \in 1..7 : 1 + i \in 1..8  OBVIOUS
  <2> QED BY <1>7, <2>2, <2>3
<1>12. \A i \in 9..(8 + z) : c3[i] = 0
  <2> SUFFICES ASSUME NEW i \in 9..(8 + z) PROVE c3[i] = 0
    OBVIOUS
  <2>1. i \in 1..(8 + z) /\ i - 8 \in 1..z /\ 8 + (i - 8) = i  BY <1>1
  <2> QED BY <1>8, <1>9, <2>1
<1>13. 9 + z <= 24  BY <1>1
<1> QED BY <1>9, <1>10, <1>11, <1>12, <1>13 DEF w, z, h, b

(* A value is read where its piece is. *)
LEMMA ValueRead ==
  ASSUME NEW s \in Seq(Bit), NEW p \in Nat, NEW t \in Coefficient, NEW y,
         BitsAt(s, p, CompPiece(t))
  PROVE  CompValue(s, [x |-> y, p |-> p])
           = [x |-> Append(y, t), p |-> p + Len(CompPiece(t))]
<1> DEFINE c == CompPiece(t)
           w == Magnitude(t)
           z == w \div 128
           l == Len(s)
           ones == {i \in (p + 9)..l : s[i] = 1}
           v == Value(SubSeq(s, p + 2, p + 8))
<1>1. /\ w \in 0..2047 /\ z \in 0..15 /\ w % 128 \in 0..127
      /\ w = 128 * z + (w % 128)
  BY MagnitudeIs
<1>2. /\ Len(c) = 9 + z /\ c[1] = IF t < 0 THEN 1 ELSE 0
      /\ \A i \in 1..7 : c[1 + i] = Bits(w, 7)[i]
      /\ \A i \in 9..(8 + z) : c[i] = 0
      /\ c[9 + z] = 1
  BY PieceBits
<1>3. l \in Nat  OBVIOUS
<1>4. p + Len(c) <= l /\ \A q \in 1..Len(c) : s[p + q] = c[q]  BY DEF BitsAt
<1> HIDE DEF c, z, l, w
<1>0. z \in Nat /\ z <= 15 /\ Len(c) = 9 + z /\ p + (9 + z) <= l  BY <1>1, <1>2, <1>4
<1>5. p + (9 + z) \in ones
  <2>1. 9 + z \in 1..Len(c)  BY <1>1, <1>2
  <2>2. s[p + (9 + z)] = 1  BY <1>2, <1>4, <2>1
  <2>3. p + (9 + z) \in (p + 9)..l  BY <1>1, <1>2, <1>3, <1>4
  <2> QED BY <2>2, <2>3
<1>6. ASSUME NEW i \in ones PROVE p + (9 + z) <= i
  <2> SUFFICES ASSUME i < p + (9 + z) PROVE FALSE  BY <1>1
  <2>1. i \in (p + 9)..l /\ s[i] = 1  OBVIOUS
  <2>2. i - p \in 9..(8 + z) /\ i - p \in 1..Len(c) /\ p + (i - p) = i  BY <1>1, <1>2, <2>1
  <2>3. c[i - p] = 0 /\ s[p + (i - p)] = c[i - p]  BY <1>2, <1>4, <2>2
  <2> QED BY <2>1, <2>2, <2>3
<1>7. ones \in SUBSET Nat /\ ones # {}  BY <1>5
<1> HIDE DEF ones
<1>8. Min(ones) = p + (9 + z)
  <2>1. Min(ones) \in ones /\ \A j \in ones : Min(ones) <= j  BY <1>7, MinIsLeast, Zenon
  <2>2. Min(ones) <= p + (9 + z) /\ p + (9 + z) <= Min(ones) /\ Min(ones) \in Nat
    BY <1>5, <1>6, <1>7, <2>1
  <2> DEFINE y1 == Min(ones)
  <2> HIDE DEF y1
  <2>3. y1 = p + (9 + z)  BY <1>0, <2>2 DEF y1
  <2> QED BY <2>3 DEF y1
<1>9. v = w % 128
  <2> DEFINE b == Bits(w, 7)
             e == SubSeq(s, p + 2, p + 8)
  <2>0. w \in Int /\ 7 \in 0..14  BY <1>1
  <2>1. b \in Seq(Bit) /\ Len(b) = 7 /\ Value(b) = w % 2^7  BY <2>0, BitsType, ValueBits
  <2>2. e \in Seq(Bit) /\ Len(e) = 7 /\ \A i \in 1..7 : e[i] = s[p + 1 + i]
    <3>1. p + 2 \in Int /\ p + 8 \in Int /\ p + 2 <= p + 8 /\ p + 8 <= l /\ p + 2 >= 1
      BY <1>0, <1>3
    <3>2. \A i \in (p + 2)..(p + 8) : s[i] \in Bit
      <4>1. \A i \in (p + 2)..(p + 8) : i \in 1..Len(s)  BY <3>1 DEF l
      <4> QED BY <4>1, ElementOfSeq, Zenon
    <3>3. e \in Seq(Bit) /\ Len(e) = 7 /\ \A i \in 1..7 : e[i] = s[p + 2 + i - 1]
      BY <3>1, <3>2, SubSeqProperties
    <3>4. \A i \in 1..7 : p + 2 + i - 1 = p + 1 + i  OBVIOUS
    <3> QED BY <3>3, <3>4
  <2>3. \A i \in 1..7 : s[p + 1 + i] = b[i]
    <3> SUFFICES ASSUME NEW i \in 1..7 PROVE s[p + 1 + i] = b[i]
      OBVIOUS
    <3>1. 1 + i \in 1..Len(c) /\ p + (1 + i) = p + 1 + i  BY <1>1, <1>2
    <3>2. s[p + (1 + i)] = c[1 + i]  BY <1>4, <3>1
    <3> QED BY <1>2, <3>1, <3>2
  <2> HIDE DEF b, e
  <2>4. e = b
    <3>1. e = [i \in 1..7 |-> e[i]] /\ b = [i \in 1..7 |-> b[i]]  BY <2>1, <2>2
    <3>2. \A i \in 1..7 : e[i] = b[i]  BY <2>2, <2>3
    <3> QED BY <3>1, <3>2
  <2>5. 2^7 = 128  OBVIOUS
  <2> QED BY <2>1, <2>4, <2>5 DEF e
<1> DEFINE m == v + 128 * (Min(ones) - (p + 9))
<1> HIDE DEF v
<1>10. m = w
  <2>1. Min(ones) - (p + 9) = z  BY <1>0, <1>8
  <2>2. m = (w % 128) + 128 * z  BY <1>9, <2>1
  <2> QED BY <1>1, <2>2
<1> HIDE DEF m
<1>11. s[p + 1] = IF t < 0 THEN 1 ELSE 0
  <2>1. 1 \in 1..Len(c)  BY <1>1, <1>2
  <2> QED BY <1>2, <1>4, <2>1
<1>12. ~(m > 2047) /\ ~(s[p + 1] = 1 /\ m = 0) /\ (IF s[p + 1] = 1 THEN -m ELSE m) = t
  <2>1. t \in Int /\ w = IF t < 0 THEN -t ELSE t  BY DEF Coefficient, Magnitude, w
  <2>2. ~(m > 2047)  BY <1>1, <1>10
  <2> HIDE DEF w
  <2> QED BY <1>10, <1>11, <2>1, <2>2
<1>13. ~(p = -1) /\ ~(p + 8 > l)  BY <1>0, <1>3
<1> DEFINE st == [x |-> y, p |-> p]
<1>14. CompValue(s, st) =
         IF p = -1 \/ p + 8 > l \/ ones = {} THEN [st EXCEPT !.p = -1]
         ELSE IF m > 2047 \/ (s[p + 1] = 1 /\ m = 0) THEN [st EXCEPT !.p = -1]
         ELSE [x |-> Append(y, IF s[p + 1] = 1 THEN -m ELSE m), p |-> Min(ones)]
  BY DEF CompValue, ones, m, v, l
<1>15. p + (9 + z) = p + Len(c)  BY <1>2
<1> HIDE DEF st
<1> DEFINE r == IF s[p + 1] = 1 THEN -m ELSE m
<1>16. CompValue(s, st) = [x |-> Append(y, r), p |-> Min(ones)]
  BY <1>7, <1>12, <1>13, <1>14
<1>17. r = t /\ Min(ones) = p + Len(c)  BY <1>8, <1>12, <1>15
<1> HIDE DEF r
<1>18. CompValue(s, st) = [x |-> Append(y, t), p |-> p + Len(c)]  BY <1>16, <1>17, Zenon
<1> QED BY <1>18 DEF st, c

(* What is read as a value is its piece. *)
LEMMA ValueAccepted ==
  ASSUME NEW s \in Seq(Bit), NEW st \in CompState(Len(s)), CompValue(s, st).p # -1
  PROVE  \E t \in Coefficient :
           /\ st.p \in Nat
           /\ CompValue(s, st) = [x |-> Append(st.x, t), p |-> st.p + Len(CompPiece(t))]
           /\ BitsAt(s, st.p, CompPiece(t))
<1> DEFINE p == st.p
           l == Len(s)
           ones == {i \in (p + 9)..l : s[i] = 1}
           stop == Min(ones)
           v == Value(SubSeq(s, p + 2, p + 8))
           z == stop - (p + 9)
           m == v + 128 * z
           t == IF s[p + 1] = 1 THEN -m ELSE m
           d == CompValue(s, st)
<1>1. l \in Nat /\ p \in (-1)..l  BY DEF CompState
<1>2. d = IF p = -1 \/ p + 8 > l \/ ones = {} THEN [st EXCEPT !.p = -1]
          ELSE IF m > 2047 \/ (s[p + 1] = 1 /\ m = 0) THEN [st EXCEPT !.p = -1]
          ELSE [x |-> Append(st.x, t), p |-> stop]
  BY DEF CompValue
<1>3. [st EXCEPT !.p = -1].p = -1
  <2>1. st = [x |-> st.x, p |-> st.p]  BY DEF CompState
  <2> QED BY <2>1
<1> HIDE DEF p, l, ones, stop, v, z, m, t
<1>4. /\ p # -1 /\ ~(p + 8 > l) /\ ones # {} /\ ~(m > 2047) /\ ~(s[p + 1] = 1 /\ m = 0)
      /\ d = [x |-> Append(st.x, t), p |-> stop]
  <2>1. d # [st EXCEPT !.p = -1]  BY <1>3
  <2> HIDE DEF d
  <2> QED BY <1>2, <2>1
<1>5. p \in Nat /\ p + 8 <= l  BY <1>1, <1>4
<1>6. ones \in SUBSET Nat /\ \A i \in ones : i \in (p + 9)..l /\ s[i] = 1  BY <1>1, <1>5 DEF ones
<1>7. stop \in ones /\ \A j \in ones : stop <= j
  <2>1. ones \in SUBSET Nat /\ ones # {}  BY <1>4, <1>6
  <2>2. Min(ones) \in ones /\ \A j \in ones : Min(ones) <= j  BY <2>1, MinIsLeast, Zenon
  <2> QED BY <2>2 DEF stop
<1>8. stop \in (p + 9)..l /\ s[stop] = 1 /\ z \in Nat /\ stop = p + (9 + z)
  BY <1>5, <1>6, <1>7 DEF z
<1> DEFINE e == SubSeq(s, p + 2, p + 8)
<1>9. e \in Seq(Bit) /\ Len(e) = 7 /\ \A i \in 1..7 : e[i] = s[p + 1 + i]
  <2>1. p + 2 \in Int /\ p + 8 \in Int /\ p + 2 <= p + 8 /\ p + 2 >= 1  BY <1>5
  <2>2. \A i \in (p + 2)..(p + 8) : s[i] \in Bit
    <3>1. \A i \in (p + 2)..(p + 8) : i \in 1..Len(s)  BY <1>1, <1>5 DEF l
    <3> QED BY <3>1, ElementOfSeq, Zenon
  <2>5. (p + 8) - (p + 2) + 1 = 7  BY <1>5
  <2>3. e \in Seq(Bit) /\ Len(e) = 7 /\ \A i \in 1..7 : e[i] = s[p + 2 + i - 1]
    BY <2>1, <2>2, <2>5, SubSeqProperties
  <2>4. \A i \in 1..7 : p + 2 + i - 1 = p + 1 + i  BY <1>5
  <2> QED BY <2>3, <2>4
<1> HIDE DEF e
<1>10. v = Value(e) /\ v \in 0..127
  <2>1. v = Value(e)  BY DEF e, v
  <2>2. Len(e) <= 14  BY <1>9
  <2>3. Value(e) \in Nat /\ Value(e) < 2^Len(e)  BY <1>9, <2>2, ValueBound
  <2>4. 2^Len(e) = 128
    <3>1. 2^7 = 128  OBVIOUS
    <3> QED BY <1>9, <3>1
  <2> DEFINE y == Value(e)
  <2>5. y \in Nat /\ y < 128
    <3> HIDE DEF y
    <3> QED BY <2>3, <2>4 DEF y
  <2> HIDE DEF y
  <2>6. y \in 0..127  BY <2>5
  <2> QED BY <2>1, <2>6 DEF y
<1>11. m \in 0..2047 /\ m \div 128 = z /\ m % 128 = v
  <2>1. m = v + 128 * z  BY DEF m
  <2>2. v \in 0..127 /\ z \in Nat /\ ~(m > 2047)  BY <1>4, <1>8, <1>10
  <2>3. m \in 0..2047  BY <2>1, <2>2
  <2>4. m \div 128 = z  BY <2>1, <2>2
  <2>5. m % 128 = v  BY <2>1, <2>2
  <2> QED BY <2>3, <2>4, <2>5
<1>12. t \in Coefficient /\ Magnitude(t) = m /\ (t < 0 <=> s[p + 1] = 1)
  <2>1. t = IF s[p + 1] = 1 THEN -m ELSE m  BY DEF t
  <2> QED BY <1>4, <1>11, <2>1 DEF Coefficient, Magnitude
<1> DEFINE c == CompPiece(t)
<1>13. /\ Len(c) = 9 + z /\ c[1] = IF t < 0 THEN 1 ELSE 0
       /\ \A i \in 1..7 : c[1 + i] = Bits(m, 7)[i]
       /\ \A i \in 9..(8 + z) : c[i] = 0
       /\ c[9 + z] = 1
  <2>1. Magnitude(t) = m /\ Magnitude(t) \div 128 = z  BY <1>11, <1>12
  <2> QED BY <1>12, <2>1, PieceBits, Zenon
<1> HIDE DEF c
<1>14. Bits(m, 7) = e
  <2>1. 7 \in 1..14 /\ m \in Int /\ 2^7 = 128  BY <1>11
  <2>2. m % 2^7 = Value(e)  BY <1>10, <1>11, <2>1
  <2> QED BY <1>9, <2>1, <2>2, SameBits
<1>15. s[p + 1] \in {0, 1}
  <2>1. p + 1 \in 1..Len(s)  BY <1>1, <1>5 DEF l
  <2>2. s[p + 1] \in Bit  BY <2>1, ElementOfSeq, Zenon
  <2> QED BY <2>2 DEF Bit
<1>16. ASSUME NEW q \in 1..Len(c) PROVE s[p + q] = c[q]
  <2>1. CASE q = 1  BY <1>12, <1>13, <1>15, <2>1
  <2>2. CASE q \in 2..8
    <3>1. q - 1 \in 1..7 /\ 1 + (q - 1) = q /\ p + 1 + (q - 1) = p + q  BY <1>5, <2>2
    <3>2. c[1 + (q - 1)] = Bits(m, 7)[q - 1]  BY <1>13, <3>1
    <3>3. e[q - 1] = s[p + 1 + (q - 1)]  BY <1>9, <3>1
    <3> QED BY <1>14, <3>1, <3>2, <3>3
  <2>3. CASE q \in 9..(8 + z)
    <3>1. c[q] = 0  BY <1>13, <2>3
    <3>2. p + q \in Nat /\ p + q >= p + 9 /\ p + q < stop /\ p + q <= l  BY <1>1, <1>5, <1>8, <2>3
    <3>3. p + q \notin ones  BY <1>7, <1>8, <3>2
    <3>4. p + q \in (p + 9)..l  BY <1>5, <1>1, <3>2
    <3>5. s[p + q] # 1  BY <3>3, <3>4 DEF ones
    <3>6. p + q \in 1..Len(s)  BY <1>1, <1>5, <3>2 DEF l
    <3>7. s[p + q] \in Bit  BY <3>6, ElementOfSeq, Zenon
    <3> QED BY <3>1, <3>5, <3>7 DEF Bit
  <2>4. CASE q = 9 + z  BY <1>8, <1>13, <2>4
  <2>5. q \in 1..(9 + z)  BY <1>13
  <2> QED BY <1>8, <2>1, <2>2, <2>3, <2>4, <2>5
<1>17. stop = p + Len(c) /\ p + Len(c) <= l  BY <1>1, <1>8, <1>13
<1> HIDE DEF d
<1>18. d = [x |-> Append(st.x, t), p |-> p + Len(c)]  BY <1>4, <1>17
<1>19. BitsAt(s, p, c)  BY <1>16, <1>17 DEF BitsAt, l
<1> QED BY <1>5, <1>12, <1>18, <1>19 DEF c, p, d

CompPieces(x) == [u \in DOMAIN x |-> CompPiece(x[u])]

(* The bits t, and zeros up to the end of a byte, are the first of buf.    *)
Starts(buf, t) ==
  BitsAt(ByteBits(buf), 0, t) /\ PaddedWithZeros(ByteBits(buf), Len(t))

LEMMA CompPiecesType ==
  ASSUME NEW x \in Seq(Coefficient)
  PROVE  /\ CompPieces(x) \in Seq(Seq(Bit)) /\ Len(CompPieces(x)) = Len(x)
         /\ \A u \in 1..Len(x) : /\ CompPieces(x)[u] = CompPiece(x[u])
                                 /\ x[u] \in Coefficient /\ Len(CompPiece(x[u])) <= 24
<1> DEFINE p == CompPieces(x)
           l == Len(x)
<1>1. DOMAIN x = 1..l /\ l \in Nat /\ \A u \in 1..l : x[u] \in Coefficient
  BY LenProperties, ElementOfSeq
<1>2. \A u \in 1..l : p[u] = CompPiece(x[u])  BY <1>1 DEF CompPieces
<1>3. \A u \in 1..l : CompPiece(x[u]) \in Seq(Bit) /\ Len(CompPiece(x[u])) <= 24
  BY <1>1, PieceBits
<1>4. p \in [1..l -> Seq(Bit)]  BY <1>1, <1>3 DEF CompPieces
<1> HIDE DEF p
<1>5. p \in Seq(Seq(Bit)) /\ Len(p) = l  BY <1>1, <1>4, ArrayIsSeq
<1> QED BY <1>1, <1>2, <1>3, <1>5 DEF p

(* The same bytes have the same bits, and the other way round. *)
LEMMA SameStart ==
  ASSUME NEW c \in Seq(Byte), NEW d \in Seq(Byte), NEW b \in Nat, b <= Len(c), b <= Len(d)
  PROVE  (\A j \in 1..b : c[j] = d[j]) <=> (\A q \in 1..(8 * b) : ByteBits(c)[q] = ByteBits(d)[q])
<1>1. Len(c) \in Nat /\ Len(d) \in Nat  OBVIOUS
<1>2. ASSUME \A j \in 1..b : c[j] = d[j], NEW q \in 1..(8 * b)
      PROVE  ByteBits(c)[q] = ByteBits(d)[q]
  <2>1. PICK j \in 1..b, i \in 1..8 : q = 8 * (j - 1) + i  BY BitPlace
  <2>2. j \in 1..Len(c) /\ j \in 1..Len(d)  BY <1>1
  <2>3. ByteBits(c)[8 * (j - 1) + i] = (c[j] \div 2^(8 - i)) % 2  BY <2>2, BitAt
  <2>4. ByteBits(d)[8 * (j - 1) + i] = (d[j] \div 2^(8 - i)) % 2  BY <2>2, BitAt
  <2>5. d[j] = c[j]  BY <1>2, <2>2
  <2> QED BY <2>1, <2>3, <2>4, <2>5
<1>3. ASSUME \A q \in 1..(8 * b) : ByteBits(c)[q] = ByteBits(d)[q], NEW j \in 1..b
      PROVE  c[j] = d[j]
  <2>1. j \in 1..Len(c) /\ j \in 1..Len(d)  BY <1>1
  <2>2. ASSUME NEW i \in 1..8
        PROVE  ByteBits(c)[8 * (j - 1) + i] = ByteBits(d)[8 * (j - 1) + i]
    <3>1. 8 * (j - 1) + i \in 1..(8 * b)  OBVIOUS
    <3> QED BY <1>3, <3>1
  <2> QED BY <2>1, <2>2, SameByte
<1> QED BY <1>2, <1>3

LEMMA StartsLonger ==
  ASSUME NEW c \in Seq(Byte), NEW d \in Seq(Byte), NEW t \in Seq(Bit), Starts(c, t),
         Bytes(Len(t)) <= Len(c), Begins(d, c)
  PROVE  Starts(d, t)
<1> DEFINE b == Bytes(Len(t))
           l == Len(t)
           s == ByteBits(c)
           r == ByteBits(d)
<1>1. b \in Nat /\ l \in Nat /\ l <= 8 * b  BY BytesIs
<1>2. Len(c) \in Nat /\ Len(d) \in Nat /\ Len(c) <= Len(d) /\ \A j \in 1..Len(c) : c[j] = d[j]
  BY DEF Begins
<1>3. Len(r) = 8 * Len(d)  BY BytesAsBits
<1>4. b <= Len(c) /\ b <= Len(d) /\ \A j \in 1..b : c[j] = d[j]  BY <1>1, <1>2
<1>5. \A q \in 1..(8 * b) : s[q] = r[q]  BY <1>1, <1>4, SameStart
<1>6. (\A q \in 1..l : s[0 + q] = t[q]) /\ (\A q \in (l + 1)..(8 * b) : s[q] = 0)
  BY DEF Starts, BitsAt, PaddedWithZeros
<1> HIDE DEF b, l, s, r
<1>7. 0 + l <= Len(r)  BY <1>1, <1>2, <1>3, <1>4
<1>8. \A q \in 1..l : r[0 + q] = t[q]
  <2> SUFFICES ASSUME NEW q \in 1..l PROVE r[0 + q] = t[q]
    OBVIOUS
  <2>1. 0 + q = q /\ q \in 1..(8 * b)  BY <1>1
  <2> QED BY <1>5, <1>6, <2>1
<1>9. \A q \in (l + 1)..(8 * b) : r[q] = 0
  <2> SUFFICES ASSUME NEW q \in (l + 1)..(8 * b) PROVE r[q] = 0
    OBVIOUS
  <2>1. q \in 1..(8 * b)  BY <1>1
  <2> QED BY <1>5, <1>6, <2>1
<1> QED BY <1>7, <1>8, <1>9 DEF Starts, BitsAt, PaddedWithZeros, b, l, s, r

LEMMA StartsSame ==
  ASSUME NEW c \in Seq(Byte), NEW d \in Seq(Byte), NEW t \in Seq(Bit), Starts(c, t),
         Starts(d, t), Bytes(Len(t)) <= Len(c), Bytes(Len(t)) <= Len(d)
  PROVE  \A j \in 1..Bytes(Len(t)) : c[j] = d[j]
<1> DEFINE b == Bytes(Len(t))
           l == Len(t)
           s == ByteBits(c)
           r == ByteBits(d)
<1>1. b \in Nat /\ l \in Nat /\ l <= 8 * b  BY BytesIs
<1>2. (\A q \in 1..l : s[0 + q] = t[q]) /\ (\A q \in (l + 1)..(8 * b) : s[q] = 0)
  BY DEF Starts, BitsAt, PaddedWithZeros
<1>3. (\A q \in 1..l : r[0 + q] = t[q]) /\ (\A q \in (l + 1)..(8 * b) : r[q] = 0)
  BY DEF Starts, BitsAt, PaddedWithZeros
<1>4. b <= Len(c) /\ b <= Len(d)  OBVIOUS
<1> HIDE DEF b, l, s, r
<1>5. \A q \in 1..(8 * b) : s[q] = r[q]
  <2> SUFFICES ASSUME NEW q \in 1..(8 * b) PROVE s[q] = r[q]
    OBVIOUS
  <2>1. CASE q \in 1..l
    <3>1. 0 + q = q  BY <1>1
    <3> QED BY <1>2, <1>3, <2>1, <3>1
  <2>2. CASE q \in (l + 1)..(8 * b)  BY <1>2, <1>3, <2>2
  <2> QED BY <1>1, <2>1, <2>2
<1> QED BY <1>1, <1>4, <1>5, SameStart DEF b, s, r

(* What comp_encode writes. *)
LEMMA CompWritten ==
  ASSUME NEW x \in Seq(Coefficient), NEW c, IsJoin(c, CompPieces(x))
  PROVE  LET out == Written(CompPieces(x))
             t   == c[Len(x)]
         IN  /\ t \in Seq(Bit) /\ out \in Seq(Byte) /\ Len(out) = Bytes(Len(t)) /\ Starts(out, t)
<1> DEFINE p == CompPieces(x)
           out == Written(p)
           t == c[Len(x)]
<1>1. p \in Seq(Seq(Bit)) /\ Len(p) = Len(x) /\ \A u \in 1..Len(x) : Len(p[u]) <= 24
  BY CompPiecesType
<1>2. Len(x) \in Nat /\ Len(x) \in 0..Len(x)  OBVIOUS
<1>3. t \in Seq(Bit)  BY <1>1, <1>2 DEF IsJoin
<1>4. /\ out \in Seq(Byte) /\ Len(out) = Bytes(Len(t))
      /\ \A q \in 1..Len(t) : ByteBits(out)[q] = t[q]
      /\ \A q \in (Len(t) + 1)..(8 * Len(out)) : ByteBits(out)[q] = 0
  <2> HIDE DEF p
  <2>1. IsJoin(c, p)  BY DEF p
  <2>2. \A i \in 1..Len(p) : Len(p[i]) <= 24  BY <1>1
  <2> QED BY <1>1, <2>1, <2>2, WrittenBits
<1> HIDE DEF p, out, t
<1>5. Len(ByteBits(out)) = 8 * Len(out) /\ Len(t) \in Nat /\ Len(t) <= 8 * Len(out)
  <2>1. Len(t) \in Nat  BY <1>3
  <2>2. Len(t) <= 8 * Bytes(Len(t))  BY <2>1, BytesIs
  <2>3. Len(ByteBits(out)) = 8 * Len(out)  BY <1>4, BytesAsBits
  <2> QED BY <1>4, <2>1, <2>2, <2>3
<1>6. BitsAt(ByteBits(out), 0, t)
  <2>1. \A q \in 1..Len(t) : 0 + q = q  BY <1>5
  <2>2. 0 + Len(t) <= Len(ByteBits(out))  BY <1>5
  <2> QED BY <1>4, <2>1, <2>2 DEF BitsAt
<1>7. PaddedWithZeros(ByteBits(out), Len(t))  BY <1>4 DEF PaddedWithZeros
<1> QED BY <1>3, <1>4, <1>6, <1>7 DEF Starts, out, t, p

(* The values come back, whatever follows. *)
LEMMA CompDecoded ==
  ASSUME NEW x \in Seq(Coefficient), NEW c, IsJoin(c, CompPieces(x)), NEW buf \in Seq(Byte),
         Starts(buf, c[Len(x)])
  PROVE  comp_decode(buf, Len(x)) = [x |-> x, v |-> Bytes(Len(c[Len(x)]))]
<1> DEFINE s == ByteBits(buf)
           p == CompPieces(x)
           l == Len(x)
<1>1. p \in Seq(Seq(Bit)) /\ Len(p) = l
      /\ \A u \in 1..l : p[u] = CompPiece(x[u]) /\ x[u] \in Coefficient
  BY CompPiecesType
<1>2. l \in Nat /\ l \in 0..l  OBVIOUS
<1>3. s \in Seq(Bit) /\ Len(s) \in Nat  BY BytesAsBits
<1>4. PICK w \in [0..l -> CompState(Len(s))] :
        /\ w[0] = [x |-> <<>>, p |-> 0]
        /\ \A u \in 1..l : w[u] = CompValue(s, w[u - 1])
        /\ comp_decode(buf, l) =
             IF w[l].p = -1 \/ ~PaddedWithZeros(s, w[l].p) THEN Refused
             ELSE [x |-> w[l].x, v |-> Bytes(w[l].p)]
  BY <1>2, CompRec
<1>5. BitsAt(s, 0, c[l]) /\ PaddedWithZeros(s, Len(c[l]))  BY DEF Starts
<1>6. IsJoin(c, p)  OBVIOUS
<1>7. x = [u \in 1..l |-> x[u]]  OBVIOUS
<1> HIDE DEF s, p, l
<1> DEFINE T == {u \in 0..l : /\ w[u].p = Len(c[u]) /\ Len(w[u].x) = u
                              /\ \A i \in 1..u : w[u].x[i] = x[i]}
<1>8. 0 \in T
  <2>1. c[0] = <<>> /\ Len(<<>>) = 0 /\ 0 \in 0..l  BY <1>2, <1>6 DEF IsJoin
  <2>2. w[0].p = 0 /\ w[0].x = <<>>  BY <1>4
  <2> QED BY <2>1, <2>2
<1>9. ASSUME NEW j \in 0..(l - 1), j \in T PROVE j + 1 \in T
  <2>1. j + 1 \in 1..l /\ (j + 1) - 1 = j /\ j + 1 \in 0..l /\ j \in 0..l /\ l \in (j + 1)..l
    BY <1>2
  <2>2. w[j].p = Len(c[j]) /\ Len(w[j].x) = j /\ \A i \in 1..j : w[j].x[i] = x[i]  BY <1>9
  <2> HIDE DEF T
  <2> DEFINE y == w[j].x
             a == Len(c[j])
             t == x[j + 1]
  <2>3. w[j] \in CompState(Len(s)) /\ w[j] = [x |-> y, p |-> a] /\ y \in Seq(Coefficient)
    <3>1. w[j] \in CompState(Len(s))  BY <1>4, <2>1
    <3> QED BY <2>2, <3>1 DEF CompState
  <2>4. t \in Coefficient /\ p[j + 1] = CompPiece(t)  BY <1>1, <2>1
  <2>5. a \in Nat /\ Len(c[j + 1]) = a + Len(CompPiece(t)) /\ Len(c[j + 1]) \in Nat
    <3>1. c[j] \in Seq(Bit) /\ c[j + 1] \in Seq(Bit)  BY <1>1, <1>6, <2>1 DEF IsJoin
    <3>2. c[j + 1] = c[j] \o CompPiece(t)
      <4>1. c[j + 1] = c[(j + 1) - 1] \o p[j + 1]  BY <1>1, <1>6, <2>1 DEF IsJoin
      <4> QED BY <2>1, <2>4, <4>1
    <3>3. PICK y1 \in Seq(Bit) : y1 = c[j]  BY <3>1
    <3>4. PICK e \in Seq(Bit) : e = CompPiece(t)  BY <2>4, PieceBits
    <3>5. Len(y1 \o e) = Len(y1) + Len(e) /\ Len(y1) \in Nat /\ Len(e) \in Nat  OBVIOUS
    <3>6. c[j + 1] = y1 \o e /\ a = Len(y1)  BY <3>2, <3>3, <3>4
    <3> HIDE DEF a
    <3> QED BY <3>4, <3>5, <3>6
  <2>6. BitsAt(s, a, CompPiece(t))
    <3>1. ASSUME NEW q \in 1..Len(CompPiece(t)) PROVE s[a + q] = CompPiece(t)[q]
      <4>1. PICK e \in 1..Len(p) : e = j + 1  BY <1>1, <2>1
      <4>2. q \in 1..Len(p[e])  BY <2>4, <4>1
      <4>3. /\ Len(c[e - 1]) + q \in 1..Len(c[Len(p)])
            /\ c[Len(p)][Len(c[e - 1]) + q] = p[e][q]
        BY <1>1, <1>6, <4>2, JoinAt
      <4>4. a + q \in 1..Len(c[l]) /\ c[l][a + q] = CompPiece(t)[q]
        BY <1>1, <2>1, <2>4, <4>1, <4>3
      <4>5. s[0 + (a + q)] = c[l][a + q]  BY <1>5, <4>4 DEF BitsAt
      <4>6. 0 + (a + q) = a + q  BY <2>5
      <4> QED BY <4>4, <4>5, <4>6
    <3>2. a + Len(CompPiece(t)) <= Len(s)
      <4>1. PICK e \in 0..Len(p) : e = j + 1  BY <1>1, <2>1
      <4>2. PICK k \in e..Len(p) : k = l  BY <1>1, <2>1, <4>1
      <4>3. Len(c[e]) <= Len(c[k]) /\ Len(c[k]) \in Nat  BY <1>1, <1>6, JoinPrefix
      <4>4. 0 + Len(c[l]) <= Len(s)  BY <1>5 DEF BitsAt
      <4> DEFINE z == Len(c[l])
                 y1 == a + Len(CompPiece(t))
      <4>5. y1 <= z /\ z \in Nat /\ 0 + z <= Len(s) /\ y1 \in Nat
        BY <2>5, <4>1, <4>2, <4>3, <4>4
      <4> HIDE DEF z, y1
      <4>6. y1 <= Len(s)  BY <1>3, <4>5
      <4> QED BY <4>6 DEF y1
    <3> QED BY <3>1, <3>2 DEF BitsAt
  <2> HIDE DEF y, a, t
  <2>7. CompValue(s, [x |-> y, p |-> a]) = [x |-> Append(y, t), p |-> a + Len(CompPiece(t))]
    BY <1>3, <2>4, <2>5, <2>6, ValueRead
  <2>8. w[j + 1] = CompValue(s, w[j])  BY <1>4, <2>1
  <2>9. w[j + 1].x = Append(y, t) /\ w[j + 1].p = Len(c[j + 1])  BY <2>3, <2>5, <2>7, <2>8
  <2>10. Len(y) = j /\ \A i \in 1..j : y[i] = x[i]  BY <2>2 DEF y
  <2>11. Len(Append(y, t)) = j + 1 /\ \A i \in 1..(j + 1) : Append(y, t)[i] = x[i]
    <3>1. Len(Append(y, t)) = j + 1 /\ Append(y, t)[j + 1] = t
      BY <2>3, <2>4, <2>10
    <3>2. \A i \in 1..j : Append(y, t)[i] = y[i]  BY <2>3, <2>4, <2>10
    <3>3. \A i \in 1..(j + 1) : i = j + 1 \/ i \in 1..j  BY <2>1
    <3> QED BY <2>10, <3>1, <3>2, <3>3 DEF t
  <2> QED BY <2>1, <2>9, <2>11 DEF T
<1>10. \A j \in 0..l : j \in T
  <2> HIDE DEF T
  <2> QED BY <1>2, <1>8, <1>9, UpTo
<1>11. w[l].p = Len(c[l]) /\ Len(w[l].x) = l /\ \A i \in 1..l : w[l].x[i] = x[i]
  <2>1. l \in T  BY <1>2, <1>10
  <2> QED BY <2>1
<1>12. w[l].x = x
  <2> DEFINE y == w[l].x
  <2>1. y \in Seq(Coefficient)  BY <1>2, <1>4 DEF CompState
  <2>2. Len(y) = l /\ \A i \in 1..l : y[i] = x[i]  BY <1>11
  <2> HIDE DEF y
  <2>3. y = [i \in 1..l |-> y[i]]  BY <2>1, <2>2
  <2> QED BY <1>7, <2>2, <2>3 DEF y
<1>13. w[l].p # -1
  <2>1. c[l] \in Seq(Bit)  BY <1>1, <1>2, <1>6 DEF IsJoin
  <2>2. Len(c[l]) \in Nat  BY <2>1
  <2> QED BY <1>11, <2>2
<1>14. comp_decode(buf, l) = [x |-> x, v |-> Bytes(Len(c[l]))]
  BY <1>4, <1>5, <1>11, <1>12, <1>13
<1> QED BY <1>14 DEF l

(* What comp_decode accepts is written as comp_encode writes it. *)
LEMMA CompAccepted ==
  ASSUME NEW buf \in Seq(Byte), NEW count \in Nat, comp_decode(buf, count) # Refused
  PROVE  LET r == comp_decode(buf, count)
         IN  /\ r.x \in Seq(Coefficient) /\ Len(r.x) = count
             /\ \E c : /\ IsJoin(c, CompPieces(r.x)) /\ Starts(buf, c[count])
                      /\ r.v = Bytes(Len(c[count])) /\ Bytes(Len(c[count])) <= Len(buf)
<1> DEFINE s == ByteBits(buf)
<1>1. s \in Seq(Bit) /\ Len(s) = 8 * Len(buf) /\ Len(buf) \in Nat  BY BytesAsBits
<1>2. PICK w \in [0..count -> CompState(Len(s))] :
        /\ w[0] = [x |-> <<>>, p |-> 0]
        /\ \A u \in 1..count : w[u] = CompValue(s, w[u - 1])
        /\ comp_decode(buf, count) =
             IF w[count].p = -1 \/ ~PaddedWithZeros(s, w[count].p) THEN Refused
             ELSE [x |-> w[count].x, v |-> Bytes(w[count].p)]
  BY CompRec
<1> DEFINE x == w[count].x
           top == w[count].p
           r == comp_decode(buf, count)
<1>3. top # -1 /\ PaddedWithZeros(s, top) /\ r.x = x /\ r.v = Bytes(top)  BY <1>2
<1> HIDE DEF s, r
(* No state before the last is an error, and each has a piece more. *)
<1>4. ASSUME NEW u \in 1..count, w[u].p # -1
      PROVE  \E t \in Coefficient :
               /\ w[u - 1].p \in Nat
               /\ w[u] = [x |-> Append(w[u - 1].x, t), p |-> w[u - 1].p + Len(CompPiece(t))]
               /\ BitsAt(s, w[u - 1].p, CompPiece(t))
  <2>1. u - 1 \in 0..count  OBVIOUS
  <2>2. w[u] = CompValue(s, w[u - 1]) /\ w[u - 1] \in CompState(Len(s))  BY <1>2, <2>1
  <2> DEFINE st == w[u - 1]
             d == w[u]
  <2>3. d = CompValue(s, st) /\ st \in CompState(Len(s)) /\ d.p # -1  BY <1>4, <2>2
  <2> HIDE DEF st, d
  <2>4. \E t \in Coefficient :
           /\ st.p \in Nat
           /\ CompValue(s, st) = [x |-> Append(st.x, t), p |-> st.p + Len(CompPiece(t))]
           /\ BitsAt(s, st.p, CompPiece(t))
    BY <1>1, <2>3, ValueAccepted
  <2> QED BY <2>3, <2>4 DEF st, d
<1> DEFINE P == {j \in 0..count : w[count - j].p # -1}
<1>5. \A j \in 0..count : j \in P
  <2>1. 0 \in P
    <3>1. count - 0 = count /\ 0 \in 0..count  OBVIOUS
    <3> QED BY <1>3, <3>1
  <2>2. ASSUME NEW j \in 0..(count - 1), j \in P PROVE j + 1 \in P
    <3>1. count - j \in 1..count /\ (count - j) - 1 = count - (j + 1) /\ j + 1 \in 0..count
      OBVIOUS
    <3>2. w[count - j].p # -1  BY <2>2
    <3>3. w[(count - j) - 1].p \in Nat  BY <1>4, <3>1, <3>2
    <3>4. w[count - (j + 1)].p # -1  BY <3>1, <3>3
    <3> QED BY <3>1, <3>4
  <2> HIDE DEF P
  <2> QED BY <2>1, <2>2, UpTo
<1>6. \A u \in 0..count : w[u].p # -1
  <2> SUFFICES ASSUME NEW u \in 0..count PROVE w[u].p # -1
    OBVIOUS
  <2>1. count - u \in 0..count /\ count - (count - u) = u  OBVIOUS
  <2>2. count - u \in P  BY <1>5, <2>1
  <2> QED BY <2>1, <2>2
<1>7. \A u \in 0..count : w[u] = [x |-> w[u].x, p |-> w[u].p] /\ w[u].x \in Seq(Coefficient)
                         /\ w[u].p \in 0..Len(s)
  <2> SUFFICES ASSUME NEW u \in 0..count
               PROVE  w[u] = [x |-> w[u].x, p |-> w[u].p] /\ w[u].x \in Seq(Coefficient)
                      /\ w[u].p \in 0..Len(s)
    OBVIOUS
  <2>1. w[u] \in CompState(Len(s)) /\ w[u].p # -1  BY <1>2, <1>6
  <2>2. Len(s) \in Nat  BY <1>1
  <2> QED BY <2>1, <2>2 DEF CompState
(* The values of a state are the first of the last one. *)
<1> DEFINE T == {j \in 0..count : /\ Len(w[j].x) = j
                                 /\ \A u \in 1..j : w[j].x[u] = w[u].x[u]}
<1>8. \A j \in 0..count : j \in T
  <2>1. 0 \in T
    <3>1. w[0].x = <<>> /\ Len(<<>>) = 0 /\ 0 \in 0..count  BY <1>2
    <3> QED BY <3>1
  <2>2. ASSUME NEW j \in 0..(count - 1), j \in T PROVE j + 1 \in T
    <3>1. j + 1 \in 1..count /\ (j + 1) - 1 = j /\ j + 1 \in 0..count /\ j \in 0..count
      OBVIOUS
    <3>2. PICK t \in Coefficient : w[j + 1].x = Append(w[j].x, t)
      <4>1. \E t \in Coefficient :
              w[j + 1] = [x |-> Append(w[j].x, t), p |-> w[j].p + Len(CompPiece(t))]
        BY <1>4, <1>6, <3>1
      <4> QED BY <4>1
    <3>3. Len(w[j].x) = j /\ \A u \in 1..j : w[j].x[u] = w[u].x[u]  BY <2>2
    <3> DEFINE y == w[j].x
               z == w[j + 1].x
    <3>4. y \in Seq(Coefficient) /\ Len(y) = j /\ z = Append(y, t)  BY <1>7, <3>1, <3>2, <3>3
    <3> HIDE DEF T, y, z
    <3>5. Len(z) = j + 1 /\ \A u \in 1..j : z[u] = y[u]  BY <3>4
    <3>6. ASSUME NEW u \in 1..(j + 1) PROVE z[u] = w[u].x[u]
      <4>1. CASE u = j + 1  BY <4>1 DEF z
      <4>2. CASE u \in 1..j  BY <3>3, <3>5, <4>2 DEF y
      <4> QED BY <3>1, <4>1, <4>2
    <3> QED BY <3>1, <3>5, <3>6 DEF T, z
  <2> HIDE DEF T
  <2> QED BY <2>1, <2>2, UpTo
<1>9. count \in 0..count  OBVIOUS
<1>10. /\ x \in Seq(Coefficient) /\ Len(x) = count
       /\ \A u \in 1..count : x[u] = w[u].x[u]
  <2>1. count \in T  BY <1>8, <1>9
  <2> QED BY <1>7, <1>9, <2>1
<1>11. ASSUME NEW u \in 1..count
       PROVE  /\ x[u] \in Coefficient /\ w[u - 1].p \in Nat
              /\ w[u].p = w[u - 1].p + Len(CompPiece(x[u]))
              /\ BitsAt(s, w[u - 1].p, CompPiece(x[u]))
  <2>1. u \in 0..count /\ u - 1 \in 0..count  OBVIOUS
  <2>2. PICK t \in Coefficient :
           /\ w[u - 1].p \in Nat
           /\ w[u] = [x |-> Append(w[u - 1].x, t), p |-> w[u - 1].p + Len(CompPiece(t))]
           /\ BitsAt(s, w[u - 1].p, CompPiece(t))
    BY <1>4, <1>6, <2>1
  <2>3. Len(w[u - 1].x) = u - 1 /\ w[u - 1].x \in Seq(Coefficient)
    <3>1. u - 1 \in T  BY <1>8, <2>1
    <3> QED BY <1>7, <2>1, <3>1
  <2>4. w[u].x = Append(w[u - 1].x, t) /\ w[u].p = w[u - 1].p + Len(CompPiece(t))  BY <2>2
  <2> DEFINE y == w[u - 1].x
  <2>5. Append(y, t)[u] = t
    <3>1. y \in Seq(Coefficient) /\ Len(y) = u - 1  BY <2>3
    <3> HIDE DEF y
    <3> QED BY <3>1
  <2>6. x[u] = t  BY <1>10, <2>4, <2>5
  <2> QED BY <2>2, <2>4, <2>6
<1>12. w[0].p = 0  BY <1>2
<1> DEFINE c == [u \in 0..count |-> SubSeq(s, 1, w[u].p)]
<1>13. ASSUME NEW u \in 0..count
       PROVE  /\ c[u] \in Seq(Bit) /\ Len(c[u]) = w[u].p
              /\ \A q \in 1..w[u].p : c[u][q] = s[q]
  <2> DEFINE k == w[u].p
  <2>1. k \in 0..Len(s) /\ c[u] = SubSeq(s, 1, k)  BY <1>7
  <2> HIDE DEF k, c
  <2>2. /\ SubSeq(s, 1, k) \in Seq(Bit) /\ Len(SubSeq(s, 1, k)) = k
        /\ \A q \in 1..k : SubSeq(s, 1, k)[q] = s[q]
    BY <1>1, <2>1
  <2> QED BY <2>1, <2>2 DEF k
<1> DEFINE p == CompPieces(x)
<1>14. p \in Seq(Seq(Bit)) /\ Len(p) = count /\ \A u \in 1..count : p[u] = CompPiece(x[u])
  <2> HIDE DEF x
  <2> QED BY <1>10, CompPiecesType
<1>15. c \in [0..count -> Seq(Bit)]  BY <1>13
<1> HIDE DEF c, p
<1>16. c[0] = <<>>
  <2>1. c[0] \in Seq(Bit) /\ Len(c[0]) = 0  BY <1>12, <1>13
  <2> QED BY <2>1
<1>17. ASSUME NEW u \in 1..count PROVE c[u] = c[u - 1] \o p[u]
  <2>1. u \in 0..count /\ u - 1 \in 0..count  OBVIOUS
  <2> DEFINE a == w[u - 1].p
             e == CompPiece(x[u])
             k == w[u].p
             c1 == c[u - 1]
             c2 == c[u]
  <2>2. a \in Nat /\ k = a + Len(e) /\ BitsAt(s, a, e) /\ x[u] \in Coefficient  BY <1>11
  <2>3. c1 \in Seq(Bit) /\ Len(c1) = a /\ \A q \in 1..a : c1[q] = s[q]  BY <1>13, <2>1
  <2>4. c2 \in Seq(Bit) /\ Len(c2) = k /\ \A q \in 1..k : c2[q] = s[q]  BY <1>13, <2>1
  <2>5. e \in Seq(Bit)  BY <2>2, PieceBits
  <2>6. p[u] = e  BY <1>14
  <2> HIDE DEF a, e, k, c1, c2
  <2>7. \A q \in 1..Len(e) : s[a + q] = e[q]  BY <2>2 DEF BitsAt
  <2> DEFINE y == c1 \o e
  <2>8. /\ y \in Seq(Bit) /\ Len(y) = a + Len(e) /\ \A q \in 1..a : y[q] = c1[q]
        /\ \A q \in 1..Len(e) : y[a + q] = e[q]
    <3>1. /\ c1 \o e \in Seq(Bit) /\ Len(c1 \o e) = Len(c1) + Len(e)
          /\ \A i \in 1..Len(c1) : (c1 \o e)[i] = c1[i]
          /\ \A i \in 1..Len(e) : (c1 \o e)[Len(c1) + i] = e[i]
      BY <2>3, <2>5, ConcatBits
    <3> QED BY <2>3, <3>1
  <2> HIDE DEF y
  <2>9. Len(e) \in Nat  BY <2>5
  <2>10. ASSUME NEW q \in 1..k PROVE c2[q] = y[q]
    <3>1. c2[q] = s[q]  BY <2>4
    <3>2. CASE q \in 1..a  BY <2>3, <2>8, <3>1, <3>2
    <3>3. CASE ~(q \in 1..a)
      <4>1. q - a \in 1..Len(e) /\ a + (q - a) = q  BY <2>2, <2>9, <3>3
      <4>2. y[a + (q - a)] = e[q - a] /\ s[a + (q - a)] = e[q - a]  BY <2>7, <2>8, <4>1
      <4> QED BY <3>1, <4>1, <4>2
    <3> QED BY <3>2, <3>3
  <2>11. c2 = y
    <3>1. c2 = [q \in 1..k |-> c2[q]]  BY <2>4
    <3>2. y = [q \in 1..k |-> y[q]]  BY <2>2, <2>8
    <3> QED BY <2>10, <3>1, <3>2
  <2> QED BY <2>6, <2>11 DEF c1, c2, y
<1>18. IsJoin(c, p)  BY <1>14, <1>15, <1>16, <1>17 DEF IsJoin
<1>19. c[count] \in Seq(Bit) /\ Len(c[count]) = top /\ \A q \in 1..top : c[count][q] = s[q]
  BY <1>9, <1>13
<1>20. top \in 0..Len(s)  BY <1>7, <1>9
<1> HIDE DEF top
<1>21. BitsAt(s, 0, c[count])
  <2>1. \A q \in 1..top : 0 + q = q  BY <1>20, <1>1
  <2>2. 0 + top <= Len(s)  BY <1>20, <1>1
  <2> QED BY <1>19, <2>1, <2>2 DEF BitsAt
<1>22. Starts(buf, c[count])  BY <1>3, <1>19, <1>21 DEF Starts, s
<1>23. Bytes(top) <= Len(buf)
  <2>1. top \in Nat /\ top <= 8 * Len(buf)  BY <1>1, <1>20
  <2>2. Bytes(top) \in Nat /\ 8 * Bytes(top) <= top + 7  BY <2>1, BytesIs
  <2> QED BY <1>1, <2>1, <2>2
<1>24. IsJoin(c, CompPieces(x)) /\ Starts(buf, c[count])
       /\ r.v = Bytes(Len(c[count])) /\ Bytes(Len(c[count])) <= Len(buf)
  BY <1>3, <1>18, <1>19, <1>22, <1>23 DEF p
<1> HIDE DEF c, x
<1> QED BY <1>3, <1>10, <1>24 DEF r

(* What comp_encode makes of values, comp_decode finds again, whatever     *)
(* follows it in the buffer (codec.c:306-473).                             *)
THEOREM CompRoundTrip ==
  ASSUME NEW x \in Seq(Int), NEW room \in Nat, NEW buf \in Seq(Byte),
         comp_encode(x, room) # <<>>, Begins(buf, comp_encode(x, room))
  PROVE  comp_decode(buf, Len(x)) = [x |-> x, v |-> Len(comp_encode(x, room))]
<1> DEFINE out == Written(CompPieces(x))
<1>1. comp_encode(x, room) = out /\ \A u \in DOMAIN x : x[u] \in Coefficient
  BY DEF comp_encode, CompPieces
<1>2. x \in Seq(Coefficient)
  <2>1. x = [u \in 1..Len(x) |-> x[u]] /\ DOMAIN x = 1..Len(x) /\ Len(x) \in Nat  OBVIOUS
  <2>2. x \in [1..Len(x) -> Coefficient]  BY <1>1, <2>1
  <2> QED BY <2>1, <2>2, ArrayIsSeq
<1>3. PICK c : IsJoin(c, CompPieces(x))  BY <1>2, CompPiecesType, JoinExists
<1> DEFINE t == c[Len(x)]
<1>4. t \in Seq(Bit) /\ out \in Seq(Byte) /\ Len(out) = Bytes(Len(t)) /\ Starts(out, t)
  BY <1>2, <1>3, CompWritten
<1> HIDE DEF t, out
<1>5. Starts(buf, t)
  <2>1. Bytes(Len(t)) <= Len(out)
    <3>1. Len(out) \in Nat  BY <1>4
    <3> QED BY <1>4, <3>1
  <2> QED BY <1>1, <1>4, <2>1, StartsLonger
<1>6. comp_decode(buf, Len(x)) = [x |-> x, v |-> Bytes(Len(t))]
  BY <1>2, <1>3, <1>5, CompDecoded DEF t
<1> QED BY <1>1, <1>4, <1>6

(* What comp_decode accepts is what comp_encode makes of the values that   *)
(* were found: a signature value has one encoding.                         *)
THEOREM CompOneEncoding ==
  ASSUME NEW buf \in Seq(Byte), NEW count \in Nat, NEW room \in Nat,
         comp_decode(buf, count) # Refused, comp_decode(buf, count).v <= room
  PROVE  LET r == comp_decode(buf, count)
         IN  /\ Len(comp_encode(r.x, room)) = r.v
             /\ Begins(buf, comp_encode(r.x, room))
<1> DEFINE x == comp_decode(buf, count).x
           v == comp_decode(buf, count).v
           out == Written(CompPieces(x))
<1>1. /\ x \in Seq(Coefficient) /\ Len(x) = count
      /\ \E c : /\ IsJoin(c, CompPieces(x)) /\ Starts(buf, c[count])
                /\ v = Bytes(Len(c[count])) /\ Bytes(Len(c[count])) <= Len(buf)
  BY CompAccepted
<1>2. v <= room  OBVIOUS
<1> HIDE DEF x, v
<1>3. PICK c : /\ IsJoin(c, CompPieces(x)) /\ Starts(buf, c[count])
               /\ v = Bytes(Len(c[count])) /\ Bytes(Len(c[count])) <= Len(buf)
  BY <1>1
<1> DEFINE t == c[count]
<1>4. t \in Seq(Bit) /\ out \in Seq(Byte) /\ Len(out) = Bytes(Len(t)) /\ Starts(out, t)
  BY <1>1, <1>3, CompWritten
<1>5. Starts(buf, t) /\ v = Bytes(Len(t)) /\ Bytes(Len(t)) <= Len(buf)  BY <1>3
<1> HIDE DEF t
<1>6. comp_encode(x, room) = out
  <2>1. \A u \in DOMAIN x : x[u] \in Coefficient  BY <1>1, ElementOfSeq, LenProperties
  <2>2. ~(Len(out) > room)
    <3>1. Len(out) \in Nat  BY <1>4
    <3> QED BY <1>2, <1>4, <1>5, <3>1
  <2>3. out = Written([u \in DOMAIN x |-> CompPiece(x[u])])  BY DEF CompPieces
  <2> HIDE DEF out
  <2> QED BY <2>1, <2>2, <2>3 DEF comp_encode
<1> HIDE DEF out
<1>7. Begins(buf, out)
  <2>1. Len(out) \in Nat  BY <1>4
  <2>2. Bytes(Len(t)) <= Len(out)  BY <1>4, <2>1
  <2>3. \A j \in 1..Bytes(Len(t)) : buf[j] = out[j]  BY <1>4, <1>5, <2>2, StartsSame
  <2> QED BY <1>4, <1>5, <2>3 DEF Begins
<1> QED BY <1>4, <1>5, <1>6, <1>7 DEF x, v

(* A value is not encoded when it is out of range or too long: y adds up   *)
(* the lengths of the pieces.                                              *)
LEMMA CompRefuses ==
  ASSUME NEW x \in Seq(Coefficient), NEW room \in Nat, NEW y,
         y[0] = 0, \A u \in 1..Len(x) : y[u] = y[u - 1] + Len(CompPiece(x[u]))
  PROVE  /\ y[Len(x)] \in Nat
         /\ Len(x) > 0 => Bytes(y[Len(x)]) > 0
         /\ Bytes(y[Len(x)]) <= room => Len(comp_encode(x, room)) = Bytes(y[Len(x)])
         /\ Bytes(y[Len(x)]) > room => comp_encode(x, room) = <<>>
<1> DEFINE l == Len(x)
           p == CompPieces(x)
           out == Written(p)
<1>1. p \in Seq(Seq(Bit)) /\ Len(p) = l
      /\ \A u \in 1..l : p[u] = CompPiece(x[u]) /\ x[u] \in Coefficient
  BY CompPiecesType
<1>2. l \in Nat /\ l \in 0..l  OBVIOUS
<1>3. PICK c : IsJoin(c, p)  BY <1>1, JoinExists
<1>4. c[l] \in Seq(Bit) /\ out \in Seq(Byte) /\ Len(out) = Bytes(Len(c[l]))
  BY <1>3, CompWritten
<1>5. \A u \in 1..l : y[u] = y[u - 1] + Len(CompPiece(x[u]))  OBVIOUS
<1>6. \A u \in DOMAIN x : x[u] \in Coefficient  BY ElementOfSeq, LenProperties
<1>7. comp_encode(x, room) = IF Len(out) > room THEN <<>> ELSE out
  <2>1. out = Written([u \in DOMAIN x |-> CompPiece(x[u])])  BY DEF CompPieces
  <2> HIDE DEF out
  <2> QED BY <1>6, <2>1 DEF comp_encode
<1> HIDE DEF l, p, out
<1> DEFINE T == {u \in 0..l : y[u] = Len(c[u]) /\ y[u] \in Nat /\ (u > 0 => y[u] > 0)}
<1>8. 0 \in T
  <2>1. c[0] = <<>> /\ Len(<<>>) = 0 /\ 0 \in 0..l  BY <1>2, <1>3 DEF IsJoin
  <2>2. y[0] = Len(c[0]) /\ y[0] \in Nat  BY <2>1
  <2> QED BY <2>1, <2>2
<1>9. ASSUME NEW j \in 0..(l - 1), j \in T PROVE j + 1 \in T
  <2>1. j + 1 \in 1..l /\ (j + 1) - 1 = j /\ j + 1 \in 0..l /\ j \in 0..l  BY <1>2
  <2> DEFINE t == x[j + 1]
  <2>2. t \in Coefficient /\ p[j + 1] = CompPiece(t) /\ y[j + 1] = y[j] + Len(CompPiece(t))
    BY <1>1, <1>5, <2>1
  <2>3. c[j] \in Seq(Bit) /\ c[j + 1] \in Seq(Bit)  BY <1>1, <1>3, <2>1 DEF IsJoin
  <2>4. c[j + 1] = c[j] \o CompPiece(t)
    <3>1. c[j + 1] = c[(j + 1) - 1] \o p[j + 1]  BY <1>1, <1>3, <2>1 DEF IsJoin
    <3> QED BY <2>1, <2>2, <3>1
  <2> HIDE DEF t
  <2>5. PICK y1 \in Seq(Bit) : y1 = c[j]  BY <2>3
  <2>6. PICK e \in Seq(Bit) : e = CompPiece(t) /\ Len(e) > 0
    <3> DEFINE z == Magnitude(t) \div 128
    <3>1. z \in 0..15  BY <2>2, MagnitudeIs
    <3>2. CompPiece(t) \in Seq(Bit) /\ Len(CompPiece(t)) = 9 + z  BY <2>2, PieceBits
    <3> HIDE DEF z
    <3>3. Len(CompPiece(t)) > 0  BY <3>1, <3>2
    <3> QED BY <3>2, <3>3
  <2>7. Len(y1 \o e) = Len(y1) + Len(e) /\ Len(y1) \in Nat /\ Len(e) \in Nat  OBVIOUS
  <2>8. y[j] = Len(y1)  BY <1>9, <2>5
  <2>9. c[j + 1] = y1 \o e  BY <2>4, <2>5, <2>6
  <2>10. y[j + 1] = Len(y1) + Len(e)  BY <2>2, <2>6, <2>8
  <2>11. y[j + 1] = Len(c[j + 1]) /\ y[j + 1] \in Nat /\ y[j + 1] > 0
    <3>1. y[j + 1] = Len(c[j + 1])  BY <2>7, <2>9, <2>10
    <3>2. y[j + 1] \in Nat /\ y[j + 1] > 0  BY <2>6, <2>7, <2>10
    <3> QED BY <3>1, <3>2
  <2> QED BY <2>1, <2>11
<1>10. \A j \in 0..l : j \in T
  <2> HIDE DEF T
  <2> QED BY <1>2, <1>8, <1>9, UpTo
<1>11. y[l] = Len(c[l]) /\ y[l] \in Nat /\ (l > 0 => y[l] > 0)
  <2>1. l \in T  BY <1>2, <1>10
  <2> QED BY <2>1
<1>12. Len(out) = Bytes(y[l]) /\ Bytes(y[l]) \in Nat /\ y[l] <= 8 * Bytes(y[l])
  BY <1>4, <1>11, BytesIs
<1>13. l > 0 => Bytes(y[l]) > 0  BY <1>2, <1>11, <1>12
<1> DEFINE b == Bytes(y[l])
<1>14. b \in Nat /\ Len(out) = b  BY <1>12
<1> HIDE DEF b
<1>15. b <= room => Len(comp_encode(x, room)) = b
  <2> SUFFICES ASSUME b <= room PROVE Len(comp_encode(x, room)) = b
    OBVIOUS
  <2>1. ~(Len(out) > room)  BY <1>14
  <2> QED BY <1>7, <1>14, <2>1
<1>16. b > room => comp_encode(x, room) = <<>>  BY <1>7, <1>14
<1> QED BY <1>11, <1>13, <1>15, <1>16 DEF b, l
=============================================================================
