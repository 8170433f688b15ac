------------------------- MODULE SignerLoops_proofs -------------------------
(***************************************************************************)
(* The loops a signer begins and ends with.  The generator and the sampler *)
(* for every buffer size, degree and bound on refills: no byte of the      *)
(* stream is used twice, the buffer is never empty, the exponential's      *)
(* argument stays in its domain and both arrays are full when the sampler  *)
(* returns.  The norm tests for every word size and vector length.         *)
(***************************************************************************)
EXTENDS GaussSampler, NormBound, TLAPS

(***************************************************************************)
(* Division by multiplication.  The product below is beyond TLC's integers. *)
(***************************************************************************)

(* div16404853's y: the high word of a 64-bit product. *)
Hi(a) == (97488647 * a) \div 4294967296

(* div16404853, with its shifts by 1 and 23. *)
DivCode(a) == (((a - Hi(a)) \div 2) + Hi(a)) \div 8388608

LEMMA DivBounds ==
  ASSUME NEW a \in Int, NEW m \in Nat, m > 0
  PROVE  /\ a \div m \in Int
         /\ m * (a \div m) <= a
         /\ a < m * (a \div m) + m
<1>1. a \div m \in Int  BY SMTT(30)
<1>2. a = m * (a \div m) + (a % m) /\ a % m \in 0..(m - 1)  BY SMTT(30)
<1> QED BY <1>1, <1>2, SMTT(30)

(* div16404853 divides by 16404853, for every 32-bit operand. *)
THEOREM DivExact ==
  ASSUME NEW a \in Nat, a < 4294967296
  PROVE  DivCode(a) = Div16404853(a)
<1> DEFINE h == Hi(a)
           e == (a - h) \div 2
           q == (e + h) \div 8388608
           d == a \div 16404853
<1>0. a \in Int /\ 0 <= a /\ a < 4294967296  BY SMT
<1>1. 97488647 * a \in Int /\ 4294967296 \in Nat /\ 4294967296 > 0
  BY <1>0, SMT
<1>2. /\ h \in Int
      /\ 4294967296 * h <= 97488647 * a
      /\ 97488647 * a < 4294967296 * h + 4294967296
  <2> HIDE DEF e, q, d
  <2> QED BY <1>1, DivBounds, SMT DEF Hi
<1> HIDE DEF h
<1>3. e \in Int /\ 2 * e <= a - h /\ a - h < 2 * e + 2
  <2>1. a - h \in Int  BY <1>0, <1>2, SMT
  <2> QED BY <2>1, DivBounds, SMT
<1> HIDE DEF e
<1>4. q \in Int /\ 8388608 * q <= e + h /\ e + h < 8388608 * q + 8388608
  <2>1. e + h \in Int BY <1>2, <1>3, SMT
  <2> QED BY <2>1, DivBounds, SMT
<1>5. d \in Int /\ 16404853 * d <= a /\ a < 16404853 * d + 16404853
  <2> QED BY <1>0, DivBounds, SMT
<1> HIDE DEF q, d
<1>6. q = d
  BY <1>0, <1>2, <1>3, <1>4, <1>5, SMTT(100)
<1> QED BY <1>6, SMT DEF DivCode, Div16404853, q, d, e, h

(***************************************************************************)
(* The generator, whatever mix of readers takes from it.                   *)
(***************************************************************************)

(* Nothing from ptr on has been delivered. *)
PrngInv == PrngTypeOK /\ NeverEmpty /\ hi < block * BufLen + ptr

(* What an inline read does to the stream. *)
Fresh ==
  /\ lo' > hi
  /\ lo' - (block * BufLen + ptr) \in 0..9
  /\ lo' \div BufLen = hi' \div BufLen

LEMMA BufFacts == BufLen \in Nat /\ BufLen > 9 /\ MaxRefill \in Nat
BY BufAssumption

(* The block of a byte of the stream. *)
LEMMA BlockOf ==
  ASSUME NEW b \in Nat, NEW p \in Nat, p < BufLen
  PROVE  (b * BufLen + p) \div BufLen = b
<1> DEFINE a == b * BufLen + p
           d == a \div BufLen
<1>1. b * BufLen \in Nat  BY BufFacts, SMTT(30)
<1>2. a \in Int  BY <1>1, SMT
<1>3. d \in Int /\ BufLen * d <= a /\ a < BufLen * d + BufLen
  BY <1>2, BufFacts, DivBounds, SMT
<1>4. b * BufLen = BufLen * b /\ BufLen * (d - b) = BufLen * d - BufLen * b
  BY <1>3, BufFacts, SMTT(30)
<1>5. BufLen * d \in Int /\ BufLen * b \in Int  BY <1>3, BufFacts, SMTT(30)
<1>6. BufLen * (d - b) <= p /\ p < BufLen * (d - b) + BufLen
  BY <1>3, <1>4, <1>5, BufFacts, SMT
<1> HIDE DEF d, a
<1>7. d - b \in Int  BY <1>3, SMT
<1>8. ASSUME d - b >= 1 PROVE FALSE
  <2>1. BufLen * (d - b) >= BufLen  BY <1>7, <1>8, BufFacts, SMTT(30)
  <2> QED BY <1>6, <1>7, <2>1, BufFacts, SMT
<1>9. ASSUME d - b <= -1 PROVE FALSE
  <2>1. BufLen * (d - b) <= -BufLen  BY <1>7, <1>9, BufFacts, SMTT(30)
  <2> QED BY <1>6, <1>7, <2>1, BufFacts, SMT
<1>10. d = b  BY <1>3, <1>7, <1>8, <1>9, SMT
<1> QED BY <1>10 DEF d, a

LEMMA PrngInitInv == PrngInit => PrngInv
<1>1. 0 * BufLen + 0 = 0 /\ -1 < 0 /\ -1 \in Int /\ 0 \in 0..BufLen /\ 0 \in 0..MaxRefill /\ 0 < BufLen
  BY BufFacts, SMT
<1> QED BY <1>1 DEF PrngInit, PrngInv, PrngTypeOK, NeverEmpty

LEMMA GetU64Inv ==
  ASSUME PrngInv, GetU64
  PROVE  PrngInv' /\ Fresh
<1>1. /\ ptr \in Nat /\ ptr < BufLen /\ block \in Nat
      /\ hi < block * BufLen + ptr /\ hi \in Int
  BY BufFacts, SMT DEF PrngInv, PrngTypeOK, NeverEmpty
<1>2. block * BufLen \in Nat /\ (block + 1) * BufLen = block * BufLen + BufLen
  BY <1>1, BufFacts, SMTT(30)
<1>3. CASE ptr >= BufLen - 9
  <2>1. /\ ptr' = 8 /\ block' = block + 1 /\ block + 1 <= MaxRefill
        /\ lo' = (block + 1) * BufLen + 0 /\ hi' = (block + 1) * BufLen + 0 + 7
    BY <1>3, SMT DEF GetU64, Read64, Start, Block
  <2>2. PrngInv'
    BY <1>1, <1>2, <2>1, BufFacts, SMT DEF PrngInv, PrngTypeOK, NeverEmpty
  <2>3. lo' > hi /\ lo' - (block * BufLen + ptr) \in 0..9
    BY <1>1, <1>2, <1>3, <2>1, BufFacts, SMT
  <2>4. lo' \div BufLen = block + 1  BY <1>1, <2>1, BlockOf, BufFacts, SMT
  <2>5. hi' = (block + 1) * BufLen + 7  BY <1>2, <2>1, BufFacts, SMT
  <2>6. hi' \div BufLen = block + 1  BY <1>1, <2>5, BlockOf, BufFacts, SMT
  <2> QED BY <2>2, <2>3, <2>4, <2>6 DEF Fresh
<1>4. CASE ~(ptr >= BufLen - 9)
  <2>1. /\ ptr' = ptr + 8 /\ block' = block /\ block <= MaxRefill
        /\ lo' = block * BufLen + ptr /\ hi' = block * BufLen + ptr + 7
    BY <1>4, SMT DEF GetU64, Read64, Start, Block
  <2>2. PrngInv'
    BY <1>1, <1>2, <1>4, <2>1, BufFacts, SMT DEF PrngInv, PrngTypeOK, NeverEmpty
  <2>3. lo' > hi /\ lo' - (block * BufLen + ptr) \in 0..9
    BY <1>1, <1>2, <2>1, BufFacts, SMT
  <2>4. lo' \div BufLen = block  BY <1>1, <2>1, BlockOf
  <2>5. hi' = block * BufLen + (ptr + 7) /\ ptr + 7 \in Nat /\ ptr + 7 < BufLen
    BY <1>1, <1>2, <1>4, <2>1, BufFacts, SMT
  <2>6. hi' \div BufLen = block  BY <1>1, <2>5, BlockOf
  <2> QED BY <2>2, <2>3, <2>4, <2>6 DEF Fresh
<1> QED BY <1>3, <1>4

LEMMA GetU8Inv ==
  ASSUME PrngInv, GetU8
  PROVE  PrngInv' /\ Fresh
<1>1. /\ ptr \in Nat /\ ptr < BufLen /\ block \in 0..MaxRefill /\ block \in Nat
      /\ hi < block * BufLen + ptr /\ hi \in Int
  BY BufFacts, SMT DEF PrngInv, PrngTypeOK, NeverEmpty
<1>2. block * BufLen \in Nat /\ (block + 1) * BufLen = block * BufLen + BufLen
  BY <1>1, BufFacts, SMTT(30)
<1>3. lo' = block * BufLen + ptr /\ hi' = block * BufLen + ptr
  BY DEF GetU8
<1>4. Fresh  BY <1>1, <1>2, <1>3, SMT DEF Fresh
<1>5. PrngInv'
  <2>1. CASE ptr + 1 = BufLen
    <3>1. ptr' = 0 /\ block' = block + 1 /\ block < MaxRefill
      BY <2>1 DEF GetU8
    <3> QED BY <1>1, <1>2, <1>3, <2>1, <3>1, BufFacts, SMT
            DEF PrngInv, PrngTypeOK, NeverEmpty
  <2>2. CASE ptr + 1 # BufLen
    <3>1. ptr' = ptr + 1 /\ block' = block
      BY <2>2 DEF GetU8
    <3> QED BY <1>1, <1>2, <1>3, <2>2, <3>1, BufFacts, SMT
            DEF PrngInv, PrngTypeOK, NeverEmpty
  <2> QED BY <2>1, <2>2
<1> QED BY <1>4, <1>5

(* prng_get_bytes returns bytes from the start of buf, never from beyond   *)
(* where it leaves ptr.                                                    *)
LEMMA GetBytesInv ==
  ASSUME PrngInv, NEW len \in ByteLens, GetBytes(len)
  PROVE  PrngInv'
<1>1. /\ ptr \in Nat /\ ptr < BufLen /\ block \in Nat /\ hi \in Int
      /\ hi < block * BufLen + ptr /\ len \in Nat /\ len > 0
  BY BufFacts, BufAssumption, SMT DEF PrngInv, PrngTypeOK, NeverEmpty
<1> DEFINE end == (ptr + len) \div BufLen
           q   == (ptr + len) % BufLen
<1>2. /\ end \in Nat /\ q \in Nat /\ q < BufLen
      /\ ptr + len = BufLen * end + q
  <2>1. ptr + len \in Nat  BY <1>1, SMT
  <2> QED BY <2>1, BufFacts, SMTT(30)
<1>3. /\ block + end <= MaxRefill /\ ptr' = q /\ block' = block + end
      /\ lo' = block * BufLen
  BY DEF GetBytes
<1> DEFINE first == IF len < BufLen - ptr THEN len ELSE BufLen - ptr
           rest  == len - first
           last  == IF rest = 0 THEN block * BufLen + first - 1
                    ELSE (block + 1) * BufLen + rest - 1
<1>4. hi' = IF last > hi THEN last ELSE hi  BY DEF GetBytes
<1> HIDE DEF end, q
<1>5. /\ block * BufLen \in Nat /\ BufLen * end \in Nat
      /\ (block + 1) * BufLen = block * BufLen + BufLen
      /\ (block + end) * BufLen = block * BufLen + BufLen * end
  BY <1>1, <1>2, BufFacts, SMTT(30)
<1>6. last \in Int /\ last < block * BufLen + ptr + len
  BY <1>1, <1>5, BufFacts, SMT
<1> HIDE DEF first, rest, last
<1>7. block' * BufLen + ptr' = block * BufLen + ptr + len
  BY <1>1, <1>2, <1>3, <1>5, SMT
<1>8. hi' \in Int /\ hi' < block' * BufLen + ptr'
  BY <1>1, <1>4, <1>5, <1>6, <1>7, SMT
<1> QED BY <1>1, <1>2, <1>3, <1>5, <1>8, BufFacts, SMT
        DEF PrngInv, PrngTypeOK, NeverEmpty

LEMMA PrngInvariance == PrngSpec => []PrngInv
<1>1. PrngInv /\ [PrngNext]_prngVars => PrngInv'
  <2> SUFFICES ASSUME PrngInv, [PrngNext]_prngVars PROVE PrngInv'  OBVIOUS
  <2>1. CASE PrngNext  BY <2>1, GetU64Inv, GetU8Inv, GetBytesInv DEF PrngNext
  <2>2. CASE UNCHANGED prngVars
    BY <2>2 DEF prngVars, PrngInv, PrngTypeOK, NeverEmpty
  <2> QED BY <2>1, <2>2
<1> QED BY <1>1, PrngInitInv, PTL DEF PrngSpec

(* No reader ever meets an empty buffer. *)
THEOREM PrngNeverEmpty == PrngSpec => []NeverEmpty
<1>1. PrngInv => NeverEmpty  BY DEF PrngInv
<1> QED BY <1>1, PrngInvariance, PTL

(* The inline readers deliver no byte of the stream that has been delivered. *)
THEOREM PrngFreshReads == PrngSpec => FreshReads
<1>1. PrngInv /\ [PrngNext]_prngVars => [GetU64 \/ GetU8 => lo' > hi]_prngVars
  BY GetU64Inv, GetU8Inv DEF Fresh
<1> QED BY <1>1, PrngInvariance, PTL DEF PrngSpec, FreshReads

(* They skip at most nine bytes at a refill, and read inside one buffer. *)
THEOREM PrngFewDropped == PrngSpec => FewDropped
<1>1. PrngInv /\ [PrngNext]_prngVars =>
        [GetU64 \/ GetU8 => /\ lo' - (block * BufLen + ptr) \in 0..9
                           /\ lo' \div BufLen = hi' \div BufLen]_prngVars
  BY GetU64Inv, GetU8Inv DEF Fresh
<1> QED BY <1>1, PrngInvariance, PTL DEF PrngSpec, FewDropped

(***************************************************************************)
(* The sampler.                                                            *)
(***************************************************************************)

(* The scaled square of the bytes the code can draw, and the two parts it  *)
(* splits it into.                                                         *)
LEMMA ScaledRange ==
  ASSUME NEW a \in Nat, a <= 2560, NEW b \in Nat, b <= 255
  PROVE  /\ Scaled(a, b) \in Nat /\ Scaled(a, b) <= 350880000
         /\ Quotient(a, b) \in Int /\ Quotient(a, b) <= 21
         /\ Remainder(a, b) \in Int
         /\ 0 <= Remainder(a, b) /\ Remainder(a, b) < 16404853
<1> DEFINE w == b + 2 * a
<1>1. w \in Nat /\ w <= 5375  BY SMT
<1> HIDE DEF w
<1>2. b * w \in Nat /\ b * w <= 255 * w
  BY <1>1, SMTT(30)
<1>3. b * w <= 1370625  BY <1>1, <1>2, SMT
<1>4. Scaled(a, b) = (b * w) * 256  BY DEF Scaled, w
<1>5. Scaled(a, b) \in Nat /\ Scaled(a, b) <= 350880000
  BY <1>2, <1>3, <1>4, SMT
<1> DEFINE c == Scaled(a, b)
           k == c \div 16404853
<1>6. k \in Int /\ 16404853 * k <= c /\ c < 16404853 * k + 16404853
  <2> HIDE DEF c
  <2>1. c \in Int  BY <1>5, SMT DEF c
  <2> QED BY <2>1, DivBounds, SMT
<1>7. Quotient(a, b) = k /\ Remainder(a, b) = c - 16404853 * k
  BY SMT DEF Quotient, Remainder, Div16404853
<1> HIDE DEF c, k
<1>8. c \in Nat /\ c <= 350880000  BY <1>5, SMT DEF c
<1> QED BY <1>5, <1>6, <1>7, <1>8, SMT

(* The sampler only moves forward in its arrays, and leaves no gap. *)
SamplerInv == TypeOK /\ PrngInv /\ Filled

LEMMA DrawsFreshStep ==
  ASSUME PrngInv, Next
  PROVE  PrngInv' /\ Fresh
<1>1. GetU64 \/ GetU8  BY DEF Next, DrawWord, DrawY, DrawSign
<1> QED BY <1>1, GetU64Inv, GetU8Inv

LEMMA SamplerInit == Init => SamplerInv
<1> SUFFICES ASSUME Init PROVE SamplerInv  OBVIOUS
<1>1. PrngInv  BY PrngInitInv DEF Init
<1>2. n \in Nat /\ n >= 1 /\ NoVal \notin Int  BY SamplerAssumption, SMT
<1>3. 0 \in 0..(2 * n) /\ 0 # 2 * n /\ \A j \in 0..(n - 1) : ~(j < 0) /\ ~(n + j < 0)
  BY <1>2, SMT
<1>4. TypeOK
  BY <1>1, <1>3 DEF Init, TypeOK, PrngInv
<1>5. Filled
  BY <1>3 DEF Init, Filled
<1> QED BY <1>1, <1>4, <1>5 DEF SamplerInv

LEMMA ToInt8Range ==
  ASSUME NEW v \in Int
  PROVE  ToInt8(v) \in (-128)..127
<1>1. (v + 128) % 256 \in 0..255  BY SMT
<1> QED BY <1>1, SMT DEF ToInt8

(* Writing the coefficient of index i. *)
LEMMA WriteInv ==
  ASSUME SamplerInv, at = "c", NEW val \in Int,
         i' = i + 1, at' = IF i + 1 < 2 * n THEN "utop" ELSE "done",
         IF i < n THEN /\ sample1' = [sample1 EXCEPT ![i] = ToInt8(val)]
                       /\ sample2' = sample2
                  ELSE /\ sample2' = [sample2 EXCEPT ![i - n] = ToInt8(val)]
                       /\ sample1' = sample1
  PROVE  /\ Filled' /\ i' \in 0..(2 * n)
         /\ sample1' \in [0..(n - 1) -> (-128)..127 \cup {NoVal}]
         /\ sample2' \in [0..(n - 1) -> (-128)..127 \cup {NoVal}]
<1>1. /\ sample1 \in [0..(n - 1) -> (-128)..127 \cup {NoVal}]
      /\ sample2 \in [0..(n - 1) -> (-128)..127 \cup {NoVal}]
      /\ i \in 0..(2 * n)
  BY DEF SamplerInv, TypeOK
<1>2. n \in Nat /\ n >= 1 /\ NoVal \notin Int  BY SamplerAssumption, SMT
<1>3. /\ i # 2 * n
      /\ \A j \in 0..(n - 1) : /\ sample1[j] # NoVal <=> j < i
                               /\ sample2[j] # NoVal <=> n + j < i
  BY DEF SamplerInv, Filled
<1>4. i \in Nat /\ i < 2 * n /\ i + 1 \in 0..(2 * n)  BY <1>1, <1>2, <1>3, SMT
<1>5. ToInt8(val) \in (-128)..127 /\ ToInt8(val) # NoVal
  <2>1. ToInt8(val) \in (-128)..127  BY ToInt8Range
  <2>2. ToInt8(val) \in Int  BY <2>1, SMT
  <2> QED BY <1>2, <2>1, <2>2
<1>6. at' = "done" <=> i' = 2 * n
  <2>1. i + 1 < 2 * n <=> i + 1 # 2 * n  BY <1>2, <1>4, SMT
  <2> QED BY <2>1
<1>7. CASE i < n
  <2>1. i \in 0..(n - 1)  BY <1>2, <1>4, <1>7, SMT
  <2>2. \A j \in 0..(n - 1) : sample1'[j] = IF j = i THEN ToInt8(val) ELSE sample1[j]
    BY <1>1, <1>7, <2>1
  <2>3. ASSUME NEW j \in 0..(n - 1)
        PROVE  /\ sample1'[j] # NoVal <=> j < i'
               /\ sample2'[j] # NoVal <=> n + j < i'
    <3>1. /\ j < i + 1 <=> (j < i \/ j = i)
          /\ ~(n + j < i) /\ ~(n + j < i + 1)
      BY <1>2, <1>4, <1>7, SMT
    <3> QED BY <1>3, <1>5, <1>7, <2>2, <3>1
  <2> QED BY <1>1, <1>4, <1>5, <1>6, <1>7, <2>1, <2>3, ZenonT(40) DEF Filled
<1>8. CASE ~(i < n)
  <2>1. i - n \in 0..(n - 1)  BY <1>2, <1>4, <1>8, SMT
  <2>2. \A j \in 0..(n - 1) :
          sample2'[j] = IF j = i - n THEN ToInt8(val) ELSE sample2[j]
    BY <1>1, <1>8, <2>1
  <2>3. ASSUME NEW j \in 0..(n - 1)
        PROVE  /\ sample1'[j] # NoVal <=> j < i'
               /\ sample2'[j] # NoVal <=> n + j < i'
    <3>1. /\ j < i /\ j < i + 1
          /\ n + j < i + 1 <=> (n + j < i \/ j = i - n)
      BY <1>2, <1>4, <1>8, SMT
    <3> QED BY <1>3, <1>5, <1>8, <2>2, <3>1
  <2> QED BY <1>1, <1>4, <1>5, <1>6, <1>8, <2>1, <2>3, ZenonT(40) DEF Filled
<1> QED BY <1>7, <1>8

LEMMA SamplerStep ==
  ASSUME SamplerInv, Next
  PROVE  SamplerInv'
<1>1. PrngInv'  BY DrawsFreshStep DEF SamplerInv
<1>2. PrngTypeOK'  BY <1>1 DEF PrngInv
<1>3. TypeOK /\ Filled  BY DEF SamplerInv
<1>4. ASSUME DrawWord
      PROVE  TypeOK' /\ Filled'
  <2>1. /\ at \in {"utop", "ubot", "w"} /\ at' \in {"ubot", "w", "y"}
        /\ x' \in {256 * b : b \in Steps} \cup {0}
        /\ i' = i /\ y' = y /\ z' = z /\ sample1' = sample1 /\ sample2' = sample2
    BY <1>3, <1>4 DEF DrawWord, TypeOK
  <2> QED BY <1>2, <1>3, <2>1 DEF TypeOK, Filled
<1>5. ASSUME DrawY
      PROVE  TypeOK' /\ Filled'
  <2>1. /\ at = "y" /\ at' = "c" /\ y' \in Bytes
        /\ i' = i /\ x' = x /\ z' = z /\ sample1' = sample1 /\ sample2' = sample2
    BY <1>5 DEF DrawY
  <2> QED BY <1>2, <1>3, <2>1 DEF TypeOK, Filled
<1>6. ASSUME DrawSign
      PROVE  TypeOK' /\ Filled'
  <2>1. at = "c" /\ x' = x /\ y' = y  BY <1>6 DEF DrawSign
  <2>2. PICK c \in Signs, over \in BOOLEAN :
          LET val == Flip(x + y, c \div 2)
          IN  IF over \/ RejectZero(c)
              THEN /\ at' = "utop"
                   /\ UNCHANGED <<i, sample1, sample2, z>>
              ELSE /\ IF InFirst(i)
                      THEN /\ sample1' = [sample1 EXCEPT ![i] = ToInt8(val)]
                           /\ UNCHANGED sample2
                      ELSE /\ sample2' = [sample2 EXCEPT ![i - n] = ToInt8(val)]
                           /\ UNCHANGED sample1
                   /\ i' = i + 1
                   /\ z' = val
                   /\ at' = IF i + 1 < 2 * n THEN "utop" ELSE "done"
    BY <1>6 DEF DrawSign
  <2> DEFINE val == Flip(x + y, c \div 2)
  <2>3. val \in Int
    <3>1. x \in Int /\ y \in Int
      <4>1. \A b \in Steps : 256 * b \in Int
        <5>1. \A b \in Steps : b \in 0..10  BY SamplerAssumption
        <5>2. \A b \in 0..10 : 256 * b \in Int  BY SMT
        <5> QED BY <5>1, <5>2
      <4>2. \A b \in Bytes : b \in Int
        <5>1. \A b \in Bytes : b \in 0..255  BY SamplerAssumption
        <5>2. \A b \in 0..255 : b \in Int  BY SMT
        <5> QED BY <5>1, <5>2
      <4>3. 0 \in Int  BY SMT
      <4> QED BY <1>3, <4>1, <4>2, <4>3 DEF TypeOK
    <3>2. x + y \in Int /\ -(x + y) \in Int  BY <3>1, SMT
    <3> QED BY <3>2 DEF Flip
  <2> HIDE DEF val
  <2>4. CASE at' = "utop" /\ UNCHANGED <<i, sample1, sample2, z>>
    <3>1. i # 2 * n  BY <1>3, <2>1 DEF Filled
    <3> QED BY <1>2, <1>3, <2>1, <2>4, <3>1 DEF TypeOK, Filled
  <2>5. CASE ~(at' = "utop" /\ UNCHANGED <<i, sample1, sample2, z>>)
    <3>1. /\ IF i < n
             THEN /\ sample1' = [sample1 EXCEPT ![i] = ToInt8(val)]
                  /\ sample2' = sample2
             ELSE /\ sample2' = [sample2 EXCEPT ![i - n] = ToInt8(val)]
                  /\ sample1' = sample1
          /\ i' = i + 1
          /\ z' = val
          /\ at' = IF i + 1 < 2 * n THEN "utop" ELSE "done"
      BY <2>2, <2>5 DEF val, InFirst
    <3>2. /\ Filled' /\ i' \in 0..(2 * n)
          /\ sample1' \in [0..(n - 1) -> (-128)..127 \cup {NoVal}]
          /\ sample2' \in [0..(n - 1) -> (-128)..127 \cup {NoVal}]
      BY <2>1, <2>3, <3>1, WriteInv
    <3> QED BY <1>2, <1>3, <2>1, <2>3, <3>1, <3>2 DEF TypeOK
  <2> QED BY <2>4, <2>5
<1> QED BY <1>1, <1>4, <1>5, <1>6 DEF Next, SamplerInv

LEMMA SamplerInvariance == Spec => []SamplerInv
<1>1. SamplerInv /\ [Next]_vars => SamplerInv'
  <2> SUFFICES ASSUME SamplerInv, [Next]_vars PROVE SamplerInv'  OBVIOUS
  <2>1. CASE Next  BY <2>1, SamplerStep
  <2>2. CASE UNCHANGED vars
    BY <2>2 DEF vars, SamplerInv, TypeOK, PrngInv, PrngTypeOK, NeverEmpty, Filled
  <2> QED BY <2>1, <2>2
<1> QED BY <1>1, SamplerInit, PTL DEF Spec

(* The sampler's cursor, its draws and the bytes it has stored stay in     *)
(* their ranges, for every degree and size of buffer.                      *)
THEOREM TypeCorrect == Spec => []TypeOK
<1>1. SamplerInv => TypeOK  BY DEF SamplerInv
<1> QED BY <1>1, SamplerInvariance, PTL

(* Both arrays are written in order, and full when the sampler returns. *)
THEOREM ArraysFilled == Spec => []Filled
<1>1. SamplerInv => Filled  BY DEF SamplerInv
<1> QED BY <1>1, SamplerInvariance, PTL

(* The sampler never hands exp_scaled an argument its assertion refuses,   *)
(* nor shifts by nothing.                                                  *)
THEOREM ExpInRange == Spec => []ExpArguments
<1>1. SamplerInv => ExpArguments
  <2> SUFFICES ASSUME SamplerInv
               PROVE  /\ Remainder(x, y) >= 0 /\ Remainder(x, y) <= 64082 * 256
                      /\ 22 - Quotient(x, y) > 0
    BY DEF ExpArguments
  <2>1. x \in {256 * b : b \in Steps} \cup {0} /\ y \in Bytes \cup {0}
    BY DEF SamplerInv, TypeOK
  <2>2. x \in Nat /\ x <= 2560
    <3>1. \A b \in Steps : b \in 0..10  BY SamplerAssumption
    <3>2. \A b \in 0..10 : 256 * b \in Nat /\ 256 * b <= 2560  BY SMT
    <3>3. 0 \in Nat /\ 0 <= 2560  BY SMT
    <3> QED BY <2>1, <3>1, <3>2, <3>3
  <2>3. y \in Nat /\ y <= 255
    <3>1. \A b \in Bytes : b \in 0..255  BY SamplerAssumption
    <3>2. \A b \in 0..255 : b \in Nat /\ b <= 255  BY SMT
    <3>3. 0 \in Nat /\ 0 <= 255  BY SMT
    <3> QED BY <2>1, <3>1, <3>2, <3>3
  <2>4. /\ Quotient(x, y) \in Int /\ Quotient(x, y) <= 21
        /\ Remainder(x, y) \in Int
        /\ 0 <= Remainder(x, y) /\ Remainder(x, y) < 16404853
    BY <2>2, <2>3, ScaledRange
  <2> QED BY <2>4, SMT
<1> QED BY <1>1, SamplerInvariance, PTL

(* The sampler uses no byte of its generator's stream twice. *)
THEOREM DrawsFresh == Spec => FreshReads
<1>1. SamplerInv /\ [Next]_vars => [GetU64 \/ GetU8 => lo' > hi]_prngVars
  <2> SUFFICES ASSUME SamplerInv, GetU64 \/ GetU8 PROVE lo' > hi
    OBVIOUS
  <2> QED BY GetU64Inv, GetU8Inv DEF SamplerInv, Fresh
<1> QED BY <1>1, SamplerInvariance, PTL DEF Spec, FreshReads

-----------------------------------------------------------------------------
(***************************************************************************)
(* The norm tests: for every word size, vector length and set of squares a *)
(* word can hold half of, they are exact.                                  *)
(***************************************************************************)
NormInv ==
  /\ NormTypeOK /\ SumOrSaturated /\ VerdictExact
  /\ u <= Length
  /\ test = "verifier" => loop # "s2"

LEMMA NormBounds ==
  /\ Half \in Nat /\ Half >= 1 /\ L2Bound \in Nat /\ Slack * L2Bound \in Nat
  /\ L2Bound <= Slack * L2Bound /\ Slack * L2Bound < Half /\ N \in Nat
<1>1. Slack \in Nat /\ Slack >= 1 /\ L2Bound \in Nat  BY BoundAssumption, SMT
<1>2. Slack * L2Bound \in Nat /\ L2Bound <= Slack * L2Bound
  BY <1>1, SMTT(30)
<1> QED BY <1>1, <1>2, HalfAssumption, BoundAssumption, SMT

(* Adding a square to a sum below Half does not wrap, and the top bit      *)
(* tells whether Half has been reached.                                    *)
LEMMA NoWrap ==
  ASSUME NEW a \in Nat, a < Half, NEW q \in 0..Half
  PROVE  (a + q) % (2 * Half) = a + q
<1>1. a + q \in Nat /\ a + q < 2 * Half /\ 2 * Half \in Nat  BY NormBounds, SMT
<1>2. \A w, m \in Nat : w < m => w % m = w  BY SMTT(30)
<1> QED BY <1>1, <1>2

LEMMA NormInitInv == NormInit => NormInv
<1> SUFFICES ASSUME NormInit PROVE NormInv  OBVIOUS
<1>1. NormTypeOK /\ u <= Length
  <2>1. /\ 0 \in 0..(2 * N) /\ 0 \in 0..(2 * Half - 1) /\ 0 \in Nat
        /\ 0 <= 2 * N /\ 0 <= N
    BY NormBounds, SMT
  <2>2. NormTypeOK  BY <2>1 DEF NormInit, NormTypeOK
  <2> QED BY <2>1, <2>2 DEF NormInit, Length
<1>2. SumOrSaturated /\ VerdictExact
  BY NormBounds, SMT DEF NormInit, SumOrSaturated, VerdictExact
<1> QED BY <1>1, <1>2 DEF NormInv, NormInit

LEMMA AccumulateInv ==
  ASSUME NormInv, Accumulate
  PROVE  NormInv'
<1>1. PICK q \in Squares : s' = (s + q) % (2 * Half) /\ exact' = exact + q
  BY DEF Accumulate
<1>2. /\ loop # "done" /\ u < Length /\ ng' = (ng \/ s' >= Half) /\ u' = u + 1
      /\ test' = test /\ loop' = loop /\ verdict' = verdict
  BY DEF Accumulate
<1>3. q \in 0..Half  BY SquareAssumption
<1>4. NormTypeOK  BY DEF NormInv
<1>5. s' \in 0..(2 * Half - 1)
  BY <1>1, <1>3, <1>4, NormBounds, SMT DEF NormTypeOK
<1>6. NormTypeOK'
  <2>1. u' \in 0..(2 * N)  BY <1>2, <1>4, NormBounds, SMT DEF NormTypeOK, Length
  <2>2. exact' \in Nat  BY <1>1, <1>3, <1>4, NormBounds, SMT DEF NormTypeOK
  <2>3. ng' \in BOOLEAN  BY <1>2, <1>4, <1>5
  <2> QED BY <1>2, <1>4, <1>5, <2>1, <2>2, <2>3 DEF NormTypeOK
<1>7. SumOrSaturated'
  <2>1. CASE ng
    <3>1. exact >= Half  BY <1>2, <2>1 DEF NormInv, SumOrSaturated
    <3>2. exact' >= Half  BY <1>1, <1>3, <1>4, <3>1, NormBounds, SMT DEF NormTypeOK
    <3> QED BY <1>2, <2>1, <3>2 DEF SumOrSaturated
  <2>2. CASE ~ng
    <3>1. s = exact /\ s < Half  BY <1>2, <2>2 DEF NormInv, SumOrSaturated
    <3>2. s \in Nat  BY <1>4, NormBounds, SMT DEF NormTypeOK
    <3>3. s' = s + q  BY <1>1, <1>3, <3>1, <3>2, NoWrap
    <3>4. s' = exact'  BY <1>1, <3>1, <3>3
    <3>5. ng' = (s' >= Half)  BY <1>2, <2>2
    <3>6. s' < Half \/ s' >= Half  BY <1>5, NormBounds, SMT
    <3> QED BY <3>4, <3>5, <3>6 DEF SumOrSaturated
  <2> QED BY <2>1, <2>2
<1>8. VerdictExact'  BY <1>2 DEF VerdictExact
<1>9. u' <= Length'  BY <1>2, <1>4, NormBounds, SMT DEF NormTypeOK, Length
<1> QED BY <1>2, <1>6, <1>7, <1>8, <1>9 DEF NormInv

(* Saturation keeps the account. *)
LEMMA SaturateExact ==
  ASSUME NormInv, loop # "done"
  PROVE  /\ Saturate(s, ng) \in 0..(2 * Half - 1)
         /\ Saturate(s, ng) >= Half <=> exact >= Half
         /\ Saturate(s, ng) < Half => Saturate(s, ng) = exact
         /\ \A b \in Nat : b < Half => (Saturate(s, ng) <= b <=> exact <= b)
<1>1. s \in 0..(2 * Half - 1) /\ exact \in Nat /\ ng \in BOOLEAN
  BY DEF NormInv, NormTypeOK
<1>2. CASE ng
  <2>1. exact >= Half  BY <1>2 DEF NormInv, SumOrSaturated
  <2>2. Saturate(s, ng) = 2 * Half - 1  BY <1>2 DEF Saturate
  <2> QED BY <1>1, <2>1, <2>2, NormBounds, SMT
<1>3. CASE ~ng
  <2>1. s = exact /\ s < Half  BY <1>3 DEF NormInv, SumOrSaturated
  <2>2. Saturate(s, ng) = s  BY <1>3 DEF Saturate
  <2> QED BY <1>1, <2>1, <2>2, NormBounds, SMT
<1> QED BY <1>1, <1>2, <1>3

LEMMA HandOverInv ==
  ASSUME NormInv, HandOver
  PROVE  NormInv'
<1>1. /\ test = "signer" /\ loop = "s1" /\ s' = Saturate(s, ng)
      /\ ng' = (s' >= Half) /\ loop' = "s2" /\ u' = 0
      /\ test' = test /\ exact' = exact /\ verdict' = verdict
  BY DEF HandOver
<1>2. /\ s' \in 0..(2 * Half - 1)
      /\ s' >= Half <=> exact >= Half
      /\ s' < Half => s' = exact
  BY <1>1, SaturateExact
<1>3. NormTypeOK  BY DEF NormInv
<1>4. u' \in 0..(2 * N) /\ u' <= N  BY <1>1, NormBounds, SMT
<1>5. NormTypeOK'  BY <1>1, <1>2, <1>3, <1>4 DEF NormTypeOK
<1>6. SumOrSaturated'
  <2>1. s' < Half \/ s' >= Half  BY <1>2, NormBounds, SMT
  <2> QED BY <1>1, <1>2, <2>1 DEF SumOrSaturated
<1>7. VerdictExact'  BY <1>1 DEF VerdictExact
<1>8. u' <= Length'  BY <1>1, <1>4 DEF Length
<1> QED BY <1>1, <1>5, <1>6, <1>7, <1>8 DEF NormInv

LEMMA VerdictInv ==
  ASSUME NormInv, SignerVerdict \/ VerifierVerdict
  PROVE  NormInv'
<1> DEFINE b == IF test = "signer" THEN L2Bound ELSE Slack * L2Bound
<1>1. /\ loop # "done" /\ s' = Saturate(s, ng) /\ verdict' = (s' <= b)
      /\ loop' = "done"
      /\ test' = test /\ u' = u /\ ng' = ng /\ exact' = exact
  <2>1. CASE SignerVerdict  BY <2>1 DEF SignerVerdict
  <2>2. CASE VerifierVerdict  BY <2>2 DEF VerifierVerdict
  <2> QED BY <2>1, <2>2
<1>2. b \in Nat /\ b < Half  BY NormBounds, SMT
<1>3. s' \in 0..(2 * Half - 1) /\ (s' <= b <=> exact <= b)
  BY <1>1, <1>2, SaturateExact
<1>4. NormTypeOK  BY DEF NormInv
<1>5. verdict' \in BOOLEAN  BY <1>1
<1>6. NormTypeOK'  BY <1>1, <1>3, <1>4, <1>5 DEF NormTypeOK
<1>7. SumOrSaturated'  BY <1>1 DEF SumOrSaturated
<1>8. VerdictExact'  BY <1>1, <1>3 DEF VerdictExact
<1>9. u' <= Length'  BY <1>1 DEF NormInv, Length
<1> QED BY <1>1, <1>6, <1>7, <1>8, <1>9 DEF NormInv

LEMMA NormInvariance == NormSpec => []NormInv
<1>1. NormInit => NormInv  BY NormInitInv
<1>2. NormInv /\ [NormNext]_normVars => NormInv'
  <2> SUFFICES ASSUME NormInv, [NormNext]_normVars PROVE NormInv'  OBVIOUS
  <2>1. CASE NormNext
    BY <2>1, AccumulateInv, HandOverInv, VerdictInv DEF NormNext
  <2>2. CASE UNCHANGED normVars
    BY <2>2 DEF normVars, NormInv, NormTypeOK, SumOrSaturated, VerdictExact, Length
  <2> QED BY <2>1, <2>2
<1> QED BY <1>1, <1>2, PTL DEF NormSpec

(* Both norm tests answer as if no sum had wrapped. *)
THEOREM VerdictsExact == NormSpec => []VerdictExact
<1>1. NormInv => VerdictExact  BY DEF NormInv
<1> QED BY <1>1, NormInvariance, PTL

(* The running sums are exact, or known to be past every bound. *)
THEOREM SumsAccounted == NormSpec => []SumOrSaturated
<1>1. NormInv => SumOrSaturated  BY DEF NormInv
<1> QED BY <1>1, NormInvariance, PTL

(* Words stay words and counters stay within the vectors, for every width  *)
(* of word and every length.                                               *)
THEOREM NormTypeCorrect == NormSpec => []NormTypeOK
<1>1. NormInv => NormTypeOK  BY DEF NormInv
<1> QED BY <1>1, NormInvariance, PTL
=============================================================================
