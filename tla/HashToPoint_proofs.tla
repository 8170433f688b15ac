------------------------- MODULE HashToPoint_proofs -------------------------
(***************************************************************************)
(* The SHAKE256 context and the hash functions that read from it.          *)
(*   - The context implements the sponge, for every size of block, of      *)
(*     message and of piece, under any caller that injects, flips once and *)
(*     then extracts: hash_to_point among them.                            *)
(*   - The passes of hash_to_point_ct, for every degree and oversampling:  *)
(*     when those of stride under p are done, a kept word that has r kept  *)
(*     words and g rejected words before it is in cell r + g - (g % p).    *)
(*     Ranks and gaps both grow with the word, so no two values ever meet: *)
(*     destinations are free, the order is kept, and as soon as p exceeds  *)
(*     the number of rejected words every value is in the cell of its      *)
(*     rank, where hash_to_point_vartime has it.                           *)
(***************************************************************************)
EXTENDS HashToPoint, FiniteSetTheorems, FunctionTheorems, TLAPS

LEMMA RateType == Rate \in Nat /\ Rate >= 1
BY RateAssumption, SMT

(* Numbers in rows of s. *)
LEMMA RowsOf ==
  ASSUME NEW s \in Nat, s >= 1, NEW x \in Nat, NEW y \in Nat, x < y
  PROVE  x * s \in Nat /\ y * s \in Nat /\ x * s + s <= y * s
<1>1. PICK z \in Nat : y = x + 1 + z
  <2>1. y - x - 1 \in Nat /\ y = x + 1 + (y - x - 1)  BY SMT
  <2> QED BY <2>1
<1>2. y * s = x * s + s + z * s  BY <1>1, SMT
<1>3. x * s \in Nat /\ z * s \in Nat  BY <1>1, SMT
<1> QED BY <1>2, <1>3, SMT

LEMMA PlaceOf ==
  ASSUME NEW s \in Nat, s >= 1, NEW d \in Nat, NEW r \in Nat, r < s
  PROVE  d * s + r \in Nat /\ (d * s + r) \div s = d /\ (d * s + r) % s = r
<1> DEFINE t == d * s + r
           e == t \div s
<1>1. d * s \in Nat /\ t \in Nat
  BY SMT
<1>2. e \in Nat /\ (t % s) \in 0..(s - 1) /\ t = e * s + (t % s)
  BY <1>1, SMT
<1>3. ~(e < d)
  <2> SUFFICES ASSUME e < d PROVE FALSE  OBVIOUS
  <2>1. e * s + s <= d * s /\ e * s \in Nat  BY <1>2, RowsOf
  <2> QED BY <1>1, <1>2, <2>1, SMT
<1>4. ~(d < e)
  <2> SUFFICES ASSUME d < e PROVE FALSE  OBVIOUS
  <2>1. d * s + s <= e * s /\ e * s \in Nat  BY <1>2, RowsOf
  <2> QED BY <1>1, <1>2, <2>1, SMT
<1>5. e = d  BY <1>2, <1>3, <1>4, SMT
<1>6. t % s = r  BY <1>1, <1>2, <1>5, SMT
<1> QED BY <1>1, <1>5, <1>6

LEMMA Rows ==
  ASSUME NEW x \in Nat, NEW y \in Nat, x < y
  PROVE  x * Rate \in Nat /\ y * Rate \in Nat /\ x * Rate + Rate <= y * Rate
BY RateType, RowsOf

(* The place of cell r of block d. *)
LEMMA Place ==
  ASSUME NEW d \in Nat, NEW r \in Nat, r < Rate
  PROVE  /\ d * Rate + r \in Nat
         /\ (d * Rate + r) \div Rate = d
         /\ (d * Rate + r) % Rate = r
BY RateType, PlaceOf

(* The blocks of a message that are full, and the one that is not. *)
Injected(q, d) ==
  /\ q \in Nat /\ d \in Nat /\ d < Rate
  /\ total = q * Rate + d
  /\ dptr = d
  /\ chain = [j \in 1..q |-> MessageBlock(total, j - 1)]
  /\ block = MessageBlock(total, q)

LEMMA InjectedIs ==
  ASSUME NEW q, NEW d, Injected(q, d)
  PROVE  total \in Nat /\ total \div Rate = q /\ total % Rate = d
BY Place DEF Injected

(* Blocks that are full are not changed by what is injected next. *)
LEMMA FullBlocks ==
  ASSUME NEW q \in Nat, NEW t \in Nat, NEW s \in Nat, q * Rate <= t, q * Rate <= s
  PROVE  \A j \in 1..q : MessageBlock(t, j - 1) = MessageBlock(s, j - 1)
<1> TAKE j \in 1..q
<1>1. j - 1 \in Nat /\ j - 1 < q  BY SMT
<1> DEFINE i == j - 1
<1>2. i * Rate \in Nat /\ q * Rate \in Nat /\ i * Rate + Rate <= q * Rate  BY <1>1, Rows
<1>3. \A c \in RateCells : i * Rate + c < t /\ i * Rate + c < s
  BY <1>2, RateType, SMT DEF RateCells
<1> QED BY <1>3 DEF MessageBlock

(* The bytes of a turn are XORed where the message has none yet. *)
LEMMA AbsorbedIs ==
  ASSUME NEW q, NEW d, Injected(q, d), NEW clen \in Nat, clen <= Rate - d
  PROVE  Absorbed(clen) = MessageBlock(total + clen, q)
<1>1. /\ q \in Nat /\ d \in Nat /\ d < Rate /\ total = q * Rate + d /\ dptr = d
      /\ block = MessageBlock(total, q) /\ q * Rate \in Nat /\ Rate \in Nat
  BY RateType, SMT DEF Injected
<1> SUFFICES ASSUME NEW c \in RateCells
             PROVE  Absorbed(clen)[c] = MessageBlock(total + clen, q)[c]
  BY DEF Absorbed, MessageBlock
<1>2. c \in Nat /\ c < Rate  BY RateType, SMT DEF RateCells
<1>3. block[c] = IF c < d THEN {q * Rate + c} ELSE {}
  <2>1. q * Rate + c < total <=> c < d  BY <1>1, <1>2, SMT
  <2> QED BY <1>1, <2>1 DEF MessageBlock
<1>4. MessageBlock(total + clen, q)[c] = IF c < d + clen THEN {q * Rate + c} ELSE {}
  <2>1. q * Rate + c < total + clen <=> c < d + clen  BY <1>1, <1>2, SMT
  <2> QED BY <2>1 DEF MessageBlock
<1>5. CASE c \in dptr..(dptr + clen - 1)
  <2>1. ~(c < d) /\ c < d + clen /\ total + c - dptr = q * Rate + c
    BY <1>1, <1>2, <1>5, SMT
  <2>2. Absorbed(clen)[c] = Xor(block[c], q * Rate + c)
    BY <1>5, <2>1 DEF Absorbed
  <2> QED BY <1>3, <1>4, <2>1, <2>2 DEF Xor
<1>6. CASE c \notin dptr..(dptr + clen - 1)
  <2>1. c < d <=> c < d + clen  BY <1>1, <1>2, <1>6, SMT
  <2>2. Absorbed(clen)[c] = block[c]  BY <1>6 DEF Absorbed
  <2> QED BY <1>3, <1>4, <2>1, <2>2
<1> QED BY <1>5, <1>6

(* One turn of shake256_inject. *)
LEMMA InjectTurnKeeps ==
  ASSUME NEW q, NEW d, Injected(q, d), InjectTurn, left \in Nat, left >= 1
  PROVE  /\ \E q1 \in Nat, d1 \in Nat : Injected(q1, d1)'
         /\ \E clen \in Nat : clen <= left /\ total' = total + clen /\ left' = left - clen
                              /\ (clen = left <=> pc' = "idle")
<1>1. /\ q \in Nat /\ d \in Nat /\ d < Rate /\ total = q * Rate + d /\ dptr = d
      /\ q * Rate \in Nat /\ Rate \in Nat /\ Rate >= 1
      /\ chain = [j \in 1..q |-> MessageBlock(total, j - 1)]
  BY RateType, SMT DEF Injected
<1>2. PICK clen \in Nat : clen = Piece(dptr)
  <2>1. Piece(dptr) \in Nat  BY <1>1, SMT DEF Piece
  <2> QED BY <2>1, Zenon
<1>2a. clen >= 1 /\ clen <= Rate - d /\ clen <= left
  BY <1>1, <1>2, SMT DEF Piece
<1>3. Absorbed(clen) = MessageBlock(total + clen, q)  BY <1>2, <1>2a, AbsorbedIs
<1>4. /\ total' = total + clen /\ left' = left - clen
      /\ pc' = IF clen = left THEN "idle" ELSE "inject"
  BY <1>2, <1>2a DEF InjectTurn
<1>5. total' \in Nat /\ total \in Nat  BY <1>1, <1>2, <1>2a, <1>4, SMT
<1>6. chain = [j \in 1..q |-> MessageBlock(total', j - 1)]
  <2>1. q * Rate <= total /\ q * Rate <= total'
    BY <1>1, <1>2, <1>2a, <1>4, <1>5, SMT
  <2>2. \A j \in 1..q : MessageBlock(total, j - 1) = MessageBlock(total', j - 1)
    <3>1. q \in Nat /\ total \in Nat /\ total' \in Nat  BY <1>1, <1>5
    <3> QED BY <2>1, <3>1, FullBlocks, ZenonT(40)
  <2> QED BY <1>1, <2>2
<1>7. \E q1 \in Nat, d1 \in Nat : Injected(q1, d1)'
  <2>1. CASE d + clen = Rate
    <3>1. chain' = Append(chain, MessageBlock(total', q)) /\ block' = Clear /\ dptr' = 0
      BY <1>1, <1>2, <1>2a, <1>3, <1>4, <2>1 DEF InjectTurn
    <3>2. q + 1 \in Nat /\ q + 1 - 1 = q /\ total' = (q + 1) * Rate + 0 /\ 0 < Rate
      BY <1>1, <1>4, <2>1, SMT
    <3>3. chain' = [j \in 1..(q + 1) |-> MessageBlock(total', j - 1)]
      BY <1>1, <1>6, <3>1, SMTT(30)
    <3>4. Clear = MessageBlock(total', q + 1)
      <4>1. \A c \in RateCells : ~((q + 1) * Rate + c < total')
        BY <1>1, <3>2, SMT DEF RateCells
      <4> QED BY <4>1 DEF MessageBlock, Clear
    <3>5. Injected(q + 1, 0)'
      BY <3>1, <3>2, <3>3, <3>4 DEF Injected, MessageBlock
    <3> QED BY <3>2, <3>5
  <2>2. CASE d + clen # Rate
    <3>1. chain' = chain /\ block' = MessageBlock(total', q) /\ dptr' = d + clen
      BY <1>1, <1>2, <1>2a, <1>3, <1>4, <2>2 DEF InjectTurn
    <3>2. d + clen \in Nat /\ d + clen < Rate /\ total' = q * Rate + (d + clen)
      BY <1>1, <1>2, <1>2a, <1>4, <2>2, SMT
    <3>3. Injected(q, d + clen)'
      BY <1>1, <1>6, <3>1, <3>2 DEF Injected, MessageBlock
    <3> QED BY <1>1, <3>2, <3>3
  <2> QED BY <2>1, <2>2
<1> QED BY <1>2, <1>2a, <1>4, <1>7

(* Blocks that nothing has been XORed into. *)
Blanks(k) == [j \in 1..k |-> Clear]

(* The state after e permutations since the flip, when the call in         *)
(* progress has written g bytes.                                           *)
Reading(e, g) ==
  /\ e \in Nat /\ g \in Nat /\ dptr \in 1..Rate
  /\ read = [i \in 1..g |-> StreamByte(total, taken + i - 1)]
  /\ taken + g + Rate = e * Rate + dptr
  /\ e = 0 => Append(chain, block) = Padded(total)
  /\ e # 0 => chain = Padded(total) \o Blanks(e - 1) /\ block = Clear

(* shake256_flip pads the message. *)
LEMMA FlipReads ==
  ASSUME NEW q, NEW d, Injected(q, d), Flip, taken = 0, read = <<>>
  PROVE  Reading(0, 0)'
<1>1. /\ q \in Nat /\ d \in Nat /\ d < Rate /\ dptr = d /\ total \in Nat
      /\ total \div Rate = q /\ total % Rate = d
      /\ chain = [j \in 1..q |-> MessageBlock(total, j - 1)]
      /\ block = MessageBlock(total, q)
  BY InjectedIs DEF Injected
<1>2. Rate \in Nat /\ Rate >= 1 /\ 0 * Rate = 0  BY RateType, SMT
<1> DEFINE tail == [c \in RateCells |-> MessageBlock(total, q)[c]
                                          \cup (IF c = d THEN {X1F} ELSE {})
                                          \cup (IF c = Rate - 1 THEN {X80} ELSE {})]
<1>3. Padded(total) = [j \in 1..(q + 1) |-> IF j = q + 1 THEN tail ELSE MessageBlock(total, j - 1)]
  BY <1>1 DEF Padded
<1>4. block' = tail
  <2> DEFINE padded == [block EXCEPT ![dptr] = Xor(@, X1F)]
  <2>1. block' = [padded EXCEPT ![Rate - 1] = Xor(@, X80)]  BY DEF Flip
  <2>2. DOMAIN block = RateCells /\ DOMAIN padded = RateCells
    BY <1>1 DEF MessageBlock
  <2>3. d \in RateCells /\ Rate - 1 \in RateCells
    BY <1>1, <1>2, SMT DEF RateCells
  <2>4. block' = [c \in RateCells |-> IF c = Rate - 1 THEN Xor(padded[c], X80) ELSE padded[c]]
    BY <2>1, <2>2, <2>3
  <2>5. \A c \in RateCells : padded[c] = IF c = d THEN Xor(block[c], X1F) ELSE block[c]
    BY <1>1, <2>2, <2>3
  <2>6. \A c \in RateCells : X1F \notin block[c] /\ X80 \notin block[c]
    <3> SUFFICES ASSUME NEW c \in RateCells PROVE X1F \notin block[c] /\ X80 \notin block[c]
      OBVIOUS
    <3>1. block[c] \subseteq {q * Rate + c}  BY <1>1 DEF MessageBlock
    <3>2. q * Rate + c \in Nat  BY <1>1, <1>2, SMT DEF RateCells
    <3>3. q * Rate + c # X1F /\ q * Rate + c # X80  BY <3>2, SMT DEF X1F, X80
    <3> QED BY <3>1, <3>3
  <2>7. X1F # X80  BY SMT DEF X1F, X80
  <2> SUFFICES ASSUME NEW c \in RateCells
               PROVE  (IF c = Rate - 1 THEN Xor(padded[c], X80) ELSE padded[c]) = tail[c]
    BY <2>4, Zenon
  <2>8. padded[c] = block[c] \cup (IF c = d THEN {X1F} ELSE {})
    BY <2>5, <2>6 DEF Xor
  <2>9. X80 \notin padded[c]  BY <2>6, <2>7, <2>8
  <2> QED BY <1>1, <2>8, <2>9 DEF Xor
<1>5. Append(chain, tail) = Padded(total)
  BY <1>1, <1>3, SMTT(30)
<1>6. dptr' = Rate /\ chain' = chain /\ total' = total /\ taken' = 0 /\ read' = <<>>
  BY DEF Flip
<1>7. Padded(total') = Padded(total)  BY <1>6
<1>8. taken' + 0 + Rate = 0 * Rate + dptr' /\ dptr' \in 1..Rate  BY <1>2, <1>6, SMT
<1>9. read' = [i \in 1..0 |-> StreamByte(total', taken' + i - 1)]  BY <1>6, SMT
<1> QED BY <1>4, <1>5, <1>6, <1>7, <1>8, <1>9 DEF Reading, Padded, MessageBlock, StreamByte

(* One more empty block after a message. *)
LEMMA OneMore ==
  ASSUME NEW N \in Nat, NEW X, NEW f \in [1..N -> X], NEW M \in Nat
  PROVE  /\ f \o Blanks(0) = f
         /\ Append(f \o Blanks(M), Clear) = f \o Blanks(M + 1)
<1>1. f = [j \in 1..N |-> f[j]]  OBVIOUS
<1>2. f \o Blanks(0) = f  BY <1>1, SMTT(30) DEF Blanks
<1>3. f \o Blanks(M) = [j \in 1..(N + M) |-> IF j <= N THEN f[j] ELSE Clear]
  BY <1>1, SMTT(30) DEF Blanks
<1>4. f \o Blanks(M + 1) = [j \in 1..(N + (M + 1)) |-> IF j <= N THEN f[j] ELSE Clear]
  BY <1>1, SMTT(30) DEF Blanks
<1>5. Append([j \in 1..(N + M) |-> IF j <= N THEN f[j] ELSE Clear], Clear)
        = [j \in 1..(N + (M + 1)) |-> IF j <= N THEN f[j] ELSE Clear]
  BY SMTT(30)
<1> QED BY <1>2, <1>3, <1>4, <1>5

(* One turn of shake256_extract. *)
LEMMA ExtractTurnKeeps ==
  ASSUME NEW e, NEW g, Reading(e, g), ExtractTurn, left \in Nat, left >= 1,
         total \in Nat, taken \in Nat
  PROVE  /\ left' \in Nat
         /\ \/ /\ pc' = "idle" /\ read' = <<>> /\ taken' \in Nat /\ taken' >= taken
               /\ out' = [i \in 1..(taken' - taken) |-> StreamByte(total, taken + i - 1)]
               /\ \E e1 \in Nat : Reading(e1, 0)'
            \/ /\ pc' = "extract" /\ left' >= 1 /\ out' = out /\ taken' = taken
               /\ \E e1 \in Nat, g1 \in Nat : Reading(e1, g1)'
<1>1. /\ e \in Nat /\ g \in Nat /\ dptr \in Nat /\ dptr >= 1 /\ dptr <= Rate
      /\ read = [i \in 1..g |-> StreamByte(total, taken + i - 1)]
      /\ taken + g + Rate = e * Rate + dptr
      /\ Rate \in Nat /\ Rate >= 1 /\ e * Rate \in Nat
  BY RateType, SMT DEF Reading
<1> DEFINE Base(f) == Padded(total) \o Blanks(f)
<1>2a. PICK f \in Nat, d \in Nat :
        /\ d < Rate /\ taken + g = f * Rate + d /\ f * Rate \in Nat
        /\ d = (IF dptr = Rate THEN 0 ELSE dptr)
        /\ (IF dptr = Rate THEN Append(chain, block) ELSE chain) = Base(f)
        /\ (IF dptr = Rate THEN Clear ELSE block) = Clear
  <2>0. PICK N \in Nat : Padded(total) \in [1..N -> {Padded(total)[j] : j \in 1..N}]
    <3>0. (total \div Rate) + 1 \in Nat  BY <1>1, SMT
    <3>1. PICK N \in Nat : N = (total \div Rate) + 1  BY <3>0, Zenon
    <3>2. Padded(total) \in [1..N -> {Padded(total)[j] : j \in 1..N}]
      BY <3>1 DEF Padded
    <3> QED BY <3>2
  <2>1. CASE dptr = Rate
    <3>1. Append(chain, block) = Base(e)
      <4>1. CASE e = 0
        <5>1. Append(chain, block) = Padded(total)  BY <4>1 DEF Reading
        <5>2. Padded(total) \o Blanks(0) = Padded(total)
          BY <2>0, OneMore
        <5> QED BY <4>1, <5>1, <5>2
      <4>2. CASE e # 0
        <5>1. chain = Padded(total) \o Blanks(e - 1) /\ block = Clear
          BY <4>2 DEF Reading
        <5>2. PICK M \in Nat : M = e - 1 /\ M + 1 = e  BY <1>1, <4>2, SMT
        <5>3. Append(Padded(total) \o Blanks(M), Clear)
                = Padded(total) \o Blanks(M + 1)
          <6> DEFINE P == Padded(total)
          <6>1. P \in [1..N -> {P[j] : j \in 1..N}]  BY <2>0
          <6> HIDE DEF P
          <6> QED BY <6>1, OneMore, ZenonT(40) DEF P
        <5> QED BY <5>1, <5>2, <5>3
      <4> QED BY <4>1, <4>2
    <3>2. taken + g = e * Rate + 0  BY <1>1, <2>1, SMT
    <3> HIDE DEF Base
    <3>3. 0 \in Nat /\ 0 < Rate  BY <1>1, SMT
    <3> QED BY <1>1, <2>1, <3>1, <3>2, <3>3, Zenon
  <2>2. CASE dptr # Rate
    <3>1. e # 0
      <4> SUFFICES ASSUME e = 0 PROVE FALSE  OBVIOUS
      <4>1. e * Rate = 0  BY <1>1, SMT
      <4> QED BY <1>1, <2>2, <4>1, SMT
    <3>2. e - 1 \in Nat /\ e = (e - 1) + 1  BY <1>1, <3>1, SMT
    <3>3. e * Rate = (e - 1) * Rate + Rate /\ (e - 1) * Rate \in Nat
      BY <1>1, <3>2, SMT
    <3>4. taken + g = (e - 1) * Rate + dptr /\ dptr < Rate
      BY <1>1, <2>2, <3>3, SMT
    <3>5. chain = Base(e - 1) /\ block = Clear  BY <3>1 DEF Reading
    <3> HIDE DEF Base
    <3> QED BY <1>1, <2>2, <3>2, <3>3, <3>4, <3>5, Zenon
  <2> QED BY <2>1, <2>2
<1>2c. PICK c, b : /\ c = (IF dptr = Rate THEN Append(chain, block) ELSE chain)
                   /\ b = (IF dptr = Rate THEN Clear ELSE block)
  OBVIOUS
<1>2. /\ d < Rate /\ taken + g = f * Rate + d /\ f * Rate \in Nat
      /\ c = Base(f) /\ b = Clear
      /\ d = (IF dptr = Rate THEN 0 ELSE dptr)
      /\ c = (IF dptr = Rate THEN Append(chain, block) ELSE chain)
      /\ b = (IF dptr = Rate THEN Clear ELSE block)
  BY <1>2a, <1>2c
<1>3. PICK clen \in Nat : clen = Piece(d)
  <2>1. Piece(d) \in Nat  BY <1>1, <1>2, SMT DEF Piece
  <2> QED BY <2>1, Zenon
<1>4. clen >= 1 /\ clen <= Rate - d /\ clen <= left
  BY <1>1, <1>2, <1>3, SMT DEF Piece
<1>5. PICK bytes : bytes = read \o [i \in 1..clen |-> At(c, b, d + i - 1)]
  OBVIOUS
<1>6. /\ chain' = c /\ block' = b /\ dptr' = d + clen /\ left' = left - clen /\ total' = total
      /\ IF clen = left
         THEN pc' = "idle" /\ read' = <<>> /\ out' = bytes /\ taken' = taken + Len(bytes)
         ELSE pc' = pc /\ read' = bytes /\ out' = out /\ taken' = taken
      /\ pc = "extract"
  BY <1>2, <1>3, <1>5, Zenon DEF ExtractTurn
<1>7. bytes = [i \in 1..(g + clen) |-> StreamByte(total, taken + i - 1)]
  <2>1. \A i \in 1..clen : At(c, b, d + i - 1) = StreamByte(total, taken + (g + i) - 1)
    <3> TAKE i \in 1..clen
    <3>1. PICK r \in Nat : r = d + i - 1 /\ r < Rate
      BY <1>1, <1>2, <1>4, SMT
    <3>2. taken + (g + i) - 1 = f * Rate + r  BY <1>1, <1>2, <3>1, SMT
    <3>3. (f * Rate + r) \div Rate = f /\ (f * Rate + r) % Rate = r  BY <1>2, <3>1, Place
    <3>4. StreamByte(total, taken + (g + i) - 1) = At(Base(f), Clear, r)
      BY <3>2, <3>3 DEF StreamByte, Blanks
    <3> QED BY <1>2, <3>1, <3>4
  <2>2. PICK rest : rest = [i \in 1..clen |-> At(c, b, d + i - 1)]  OBVIOUS
  <2>3. bytes = [i \in 1..(g + clen) |-> IF i <= g THEN read[i] ELSE rest[i - g]]
    <3>1. read = [i \in 1..g |-> read[i]]  BY <1>1
    <3>2. rest = [i \in 1..clen |-> rest[i]]  BY <2>2
    <3> QED BY <1>1, <1>5, <2>2, <3>1, <3>2, SMTT(30)
  <2> SUFFICES ASSUME NEW i \in 1..(g + clen)
               PROVE  (IF i <= g THEN read[i] ELSE rest[i - g]) = StreamByte(total, taken + i - 1)
    BY <2>3, Zenon
  <2>4. CASE i <= g
    <3>1. i \in 1..g  BY <1>1, <2>4, SMT
    <3> QED BY <1>1, <2>4, <3>1
  <2>5. CASE ~(i <= g)
    <3>1. PICK k \in 1..clen : k = i - g /\ g + k = i  BY <1>1, <2>5, SMT
    <3>2. rest[k] = StreamByte(total, taken + (g + k) - 1)  BY <2>1, <2>2, <3>1
    <3> QED BY <2>5, <3>1, <3>2
  <2> QED BY <2>4, <2>5
<1>8. Len(bytes) = g + clen  BY <1>1, <1>7, SMT
<1>9. f + 1 \in Nat /\ f + 1 # 0 /\ f + 1 - 1 = f /\ (f + 1) * Rate = f * Rate + Rate
      /\ d + clen \in 1..Rate /\ left - clen \in Nat /\ g + clen \in Nat
  BY <1>1, <1>2, <1>4, SMT
<1>9a. chain' = Padded(total') \o Blanks((f + 1) - 1) /\ block' = Clear
  <2>1. Padded(total') = Padded(total)  BY <1>6
  <2>2. Blanks((f + 1) - 1) = Blanks(f)  BY <1>9
  <2>3. chain' = Padded(total) \o Blanks(f) /\ block' = Clear  BY <1>2, <1>6
  <2> QED BY <2>1, <2>2, <2>3, Zenon
<1>10. CASE clen = left
  <2>1. pc' = "idle" /\ read' = <<>> /\ out' = bytes /\ taken' = taken + g + clen
    BY <1>1, <1>6, <1>8, <1>10, SMT
  <2>2. taken' \in Nat /\ taken' >= taken /\ taken' - taken = g + clen
    BY <1>1, <2>1, SMT
  <2>3. taken' + 0 + Rate = (f + 1) * Rate + dptr'
    BY <1>1, <1>2, <1>6, <1>9, <2>1, SMT
  <2>4. read' = [i \in 1..0 |-> StreamByte(total', taken' + i - 1)]  BY <2>1, SMT
  <2>5. Padded(total') = Padded(total)  BY <1>6
  <2>6. Reading(f + 1, 0)'
    BY <1>9a, <1>6, <1>9, <2>3, <2>4, <2>5 DEF Reading, Padded, MessageBlock, StreamByte
  <2> QED BY <1>6, <1>7, <1>9, <2>1, <2>2, <2>6
<1>11. CASE clen # left
  <2>1. pc' = "extract" /\ read' = bytes /\ out' = out /\ taken' = taken /\ left' >= 1
    BY <1>1, <1>4, <1>6, <1>11, SMT
  <2>2. taken' + (g + clen) + Rate = (f + 1) * Rate + dptr'
    BY <1>1, <1>2, <1>6, <1>9, <2>1, SMT
  <2>3. read' = [i \in 1..(g + clen) |-> StreamByte(total', taken' + i - 1)]
    BY <1>6, <1>7, <2>1
  <2>4. Reading(f + 1, g + clen)'
    BY <1>9a, <1>6, <1>9, <2>2, <2>3 DEF Reading, Padded, MessageBlock, StreamByte
  <2> QED BY <1>6, <1>9, <2>1, <2>4
<1> QED BY <1>10, <1>11

-----------------------------------------------------------------------------
Types ==
  /\ pc \in {"idle", "inject", "extract"} /\ mode \in {"in", "out"}
  /\ left \in Nat /\ total \in Nat /\ taken \in Nat

(* A call in progress is one the context's mode allows, with work left. *)
Called ==
  /\ pc = "idle" => read = <<>>
  /\ pc = "inject" => mode = "in" /\ left >= 1
  /\ pc = "extract" => mode = "out" /\ left >= 1

Absorbing ==
  mode = "in" => read = <<>> /\ taken = 0 /\ \E q \in Nat, d \in Nat : Injected(q, d)

Squeezing == mode = "out" => \E e \in Nat, g \in Nat : Reading(e, g)

IInv == Types /\ Called /\ Absorbing /\ Squeezing

(* An empty message has no full block, and nothing in the next one. *)
LEMMA NothingInjected ==
  /\ 0 \in Nat /\ 0 < Rate /\ 0 = 0 * Rate + 0
  /\ Clear = MessageBlock(0, 0)
  /\ <<>> = [j \in 1..0 |-> MessageBlock(0, j - 1)]
<1>1. 0 \in Nat /\ 0 < Rate /\ 0 = 0 * Rate + 0 /\ 0 * Rate = 0  BY RateType, SMT
<1>2. Clear = MessageBlock(0, 0)
  <2>1. \A c \in RateCells : ~(0 * Rate + c < 0)  BY <1>1, RateType, SMT DEF RateCells
  <2> QED BY <2>1 DEF MessageBlock, Clear
<1>3. <<>> = [j \in 1..0 |-> MessageBlock(0, j - 1)]  BY SMT
<1> QED BY <1>1, <1>2, <1>3

LEMMA Initial == ShakeInit => IInv /\ S!Init
<1> SUFFICES ASSUME ShakeInit PROVE IInv /\ S!Init  OBVIOUS
<1>1. Injected(0, 0)
  BY NothingInjected DEF ShakeInit, Injected
<1>2. 0 \in Nat  OBVIOUS
<1> QED BY <1>1, <1>2 DEF ShakeInit, IInv, Types, Called, Absorbing, Squeezing, S!Init

LEMMA ReinitStep == IInv /\ Reinit => IInv' /\ S!Next
<1> SUFFICES ASSUME IInv, Reinit PROVE IInv' /\ S!Next  OBVIOUS
<1>1. Injected(0, 0)'
  <2>1. total' = 0 /\ dptr' = 0 /\ chain' = <<>> /\ block' = Clear  BY DEF Reinit
  <2> QED BY <2>1, NothingInjected DEF Injected, MessageBlock
<1>2. 0 \in Nat  OBVIOUS
<1>3. pc' = "idle" /\ left' = left /\ read' = <<>> /\ mode' = "in" /\ total' = 0 /\ taken' = 0 /\ out' = <<>>
  BY DEF Reinit, IInv, Called
<1>4. IInv'
  BY <1>1, <1>2, <1>3 DEF IInv, Types, Called, Absorbing, Squeezing
<1>5. S!Reset  BY <1>3 DEF S!Reset
<1> QED BY <1>4, <1>5 DEF S!Next

LEMMA InjectStep ==
  ASSUME IInv, NEW len \in Nat, Inject(len)
  PROVE  IInv' /\ UNCHANGED S!vars
<1>1. /\ pc' = (IF len = 0 THEN "idle" ELSE "inject") /\ left' = len /\ pc = "idle" /\ mode = "in"
      /\ dptr' = dptr /\ chain' = chain /\ block' = block /\ read' = read /\ mode' = mode
      /\ total' = total /\ taken' = taken /\ out' = out
  BY DEF Inject
<1>2. PICK q \in Nat, d \in Nat : Injected(q, d)  BY <1>1 DEF IInv, Absorbing
<1>3. Injected(q, d)'  BY <1>1, <1>2 DEF Injected, MessageBlock
<1>4. Types' /\ Called'  BY <1>1, SMT DEF IInv, Types, Called
<1>5. Absorbing' /\ Squeezing'
  BY <1>1, <1>2, <1>3 DEF IInv, Absorbing, Squeezing
<1> QED BY <1>1, <1>4, <1>5 DEF IInv, S!vars

LEMMA InjectTurnStep ==
  ASSUME IInv, InjectTurn
  PROVE  IInv' /\ S!Next
<1>1. /\ pc = "inject" /\ mode = "in" /\ left \in Nat /\ left >= 1 /\ total \in Nat /\ taken = 0
      /\ read = <<>>
  BY DEF InjectTurn, IInv, Types, Called, Absorbing
<1>2. PICK q \in Nat, d \in Nat : Injected(q, d)  BY <1>1 DEF IInv, Absorbing
<1>3. /\ \E q1 \in Nat, d1 \in Nat : Injected(q1, d1)'
      /\ \E clen \in Nat : clen <= left /\ total' = total + clen /\ left' = left - clen
                           /\ (clen = left <=> pc' = "idle")
  BY <1>1, <1>2, InjectTurnKeeps
<1>4. /\ read' = <<>> /\ mode' = "in" /\ taken' = 0 /\ out' = out /\ mode' = mode /\ taken' = taken
      /\ pc' \in {"idle", "inject"}
  BY <1>1 DEF InjectTurn
<1>5. /\ total' \in Nat /\ total' >= total /\ left' \in Nat
      /\ pc' = "inject" => left' >= 1
  BY <1>1, <1>3, SMT
<1>6. IInv'
  BY <1>3, <1>4, <1>5 DEF IInv, Types, Called, Absorbing, Squeezing
<1>7. S!Absorb  BY <1>1, <1>4, <1>5 DEF S!Absorb
<1> QED BY <1>6, <1>7 DEF S!Next

LEMMA FlipStep ==
  ASSUME IInv, Flip
  PROVE  IInv' /\ S!Next
<1>1. /\ pc = "idle" /\ mode = "in" /\ taken = 0 /\ read = <<>>
      /\ pc' = pc /\ mode' = "out" /\ read' = read /\ left' = left
      /\ total' = total /\ taken' = taken /\ out' = out
  BY DEF Flip, IInv, Absorbing
<1>2. PICK q \in Nat, d \in Nat : Injected(q, d)  BY <1>1 DEF IInv, Absorbing
<1>3. Reading(0, 0)'  BY <1>1, <1>2, FlipReads
<1>4. 0 \in Nat  OBVIOUS
<1>5. IInv'
  BY <1>1, <1>3, <1>4 DEF IInv, Types, Called, Absorbing, Squeezing
<1>6. S!Turn  BY <1>1 DEF S!Turn
<1> QED BY <1>5, <1>6 DEF S!Next

LEMMA ExtractStep ==
  ASSUME IInv, NEW len \in Nat, Extract(len)
  PROVE  IInv' /\ (S!Next \/ UNCHANGED S!vars)
<1>1. /\ pc = "idle" /\ mode = "out" /\ left' = len /\ read' = <<>> /\ read = <<>>
      /\ mode' = mode /\ total' = total /\ taken' = taken
      /\ dptr' = dptr /\ chain' = chain /\ block' = block
      /\ IF len = 0 THEN out' = <<>> /\ pc' = "idle" ELSE pc' = "extract" /\ out' = out
      /\ taken \in Nat /\ total \in Nat
  BY DEF Extract, IInv, Called, Types
<1>2. PICK e \in Nat, g \in Nat : Reading(e, g)  BY <1>1 DEF IInv, Squeezing
<1>3. Reading(e, g)'
  BY <1>1, <1>2 DEF Reading, Padded, MessageBlock, StreamByte
<1>4. IInv'
  <2>1. Types' /\ Called'  BY <1>1, SMT DEF IInv, Types, Called
  <2>2. Absorbing' /\ Squeezing'  BY <1>1, <1>3 DEF Absorbing, Squeezing
  <2> QED BY <2>1, <2>2 DEF IInv
<1>5. CASE len = 0
  <2>1. taken' >= taken /\ out' = [i \in 1..(taken' - taken) |-> StreamByte(total, taken + i - 1)]
    BY <1>1, <1>5, SMT
  <2> QED BY <1>1, <1>4, <2>1 DEF S!Squeeze, S!Next
<1>6. CASE len # 0
  BY <1>1, <1>4, <1>6 DEF S!vars
<1> QED BY <1>5, <1>6

LEMMA ExtractTurnStep ==
  ASSUME IInv, ExtractTurn
  PROVE  IInv' /\ (S!Next \/ UNCHANGED S!vars)
<1>1. /\ mode = "out" /\ left \in Nat /\ left >= 1 /\ total \in Nat /\ taken \in Nat
      /\ mode' = mode /\ total' = total
  BY DEF ExtractTurn, IInv, Types, Called
<1>2. PICK e \in Nat, g \in Nat : Reading(e, g)  BY <1>1 DEF IInv, Squeezing
<1>3. /\ left' \in Nat
      /\ \/ /\ pc' = "idle" /\ read' = <<>> /\ taken' \in Nat /\ taken' >= taken
            /\ out' = [i \in 1..(taken' - taken) |-> StreamByte(total, taken + i - 1)]
            /\ \E e1 \in Nat : Reading(e1, 0)'
         \/ /\ pc' = "extract" /\ left' >= 1 /\ out' = out /\ taken' = taken
            /\ \E e1 \in Nat, g1 \in Nat : Reading(e1, g1)'
  BY <1>1, <1>2, ExtractTurnKeeps
<1>4. \E e1 \in Nat, g1 \in Nat : Reading(e1, g1)'
  <2>1. 0 \in Nat  OBVIOUS
  <2> QED BY <1>3, <2>1
<1>5. IInv'
  <2>1. Types' /\ Called'  BY <1>1, <1>3, SMT DEF Types, Called
  <2>2. Absorbing' /\ Squeezing'  BY <1>1, <1>4 DEF Absorbing, Squeezing
  <2> QED BY <2>1, <2>2 DEF IInv
<1> QED BY <1>1, <1>3, <1>5 DEF S!Squeeze, S!Next, S!vars

(* What a step of Next does to the context. *)
LEMMA ContextSteps ==
  ASSUME [Next]_vars
  PROVE  \/ UNCHANGED shakeVars \/ Reinit \/ InjectTurn \/ Flip \/ ExtractTurn
         \/ \E len \in Nat : Inject(len) \/ Extract(len)
<1>1. \A len \in Pieces : len \in Nat  BY RateAssumption
<1>2. 2 \in Nat  OBVIOUS
<1>3. CASE Context  BY <1>1, <1>3 DEF Context, ShakeNext
<1>4. CASE Hash     BY <1>2, <1>4 DEF Hash
<1>5. CASE Read     BY <1>2, <1>5 DEF Read
<1>6. CASE Squeeze \/ NextPass \/ UNCHANGED vars  BY <1>6 DEF Squeeze, NextPass, vars
<1> QED BY <1>3, <1>4, <1>5, <1>6 DEF Next

LEMMA Invariance == IInv /\ [Next]_vars => IInv' /\ [S!Next]_S!vars
<1> SUFFICES ASSUME IInv, [Next]_vars PROVE IInv' /\ [S!Next]_S!vars  OBVIOUS
<1>1. CASE UNCHANGED shakeVars
  <2>1. /\ pc' = pc /\ dptr' = dptr /\ chain' = chain /\ block' = block /\ left' = left
        /\ read' = read /\ mode' = mode /\ total' = total /\ taken' = taken /\ out' = out
    BY <1>1 DEF shakeVars
  <2>2. ASSUME NEW q \in Nat, NEW d \in Nat, Injected(q, d) PROVE Injected(q, d)'
    BY <2>1, <2>2 DEF Injected, MessageBlock
  <2>3. ASSUME NEW e \in Nat, NEW g \in Nat, Reading(e, g) PROVE Reading(e, g)'
    BY <2>1, <2>3 DEF Reading, Padded, MessageBlock, StreamByte
  <2>4. Types' /\ Called'  BY <2>1 DEF IInv, Types, Called
  <2>5. Absorbing'  BY <2>1, <2>2 DEF IInv, Absorbing
  <2>6. Squeezing'  BY <2>1, <2>3 DEF IInv, Squeezing
  <2> QED BY <2>1, <2>4, <2>5, <2>6 DEF IInv, S!vars
<1>2. CASE Reinit       BY <1>2, ReinitStep
<1>3. CASE InjectTurn   BY <1>3, InjectTurnStep
<1>4. CASE Flip         BY <1>4, FlipStep
<1>5. CASE ExtractTurn  BY <1>5, ExtractTurnStep
<1>6. CASE \E len \in Nat : Inject(len) \/ Extract(len)
  BY <1>6, InjectStep, ExtractStep
<1> QED BY <1>1, <1>2, <1>3, <1>4, <1>5, <1>6, ContextSteps

(* Under any caller, hash_to_point among them, a SHAKE256 context gives a  *)
(* stream that depends on the message only: the bytes read are those of    *)
(* the padded message and of their place in the stream, however the        *)
(* message was cut into calls of shake256_inject and the stream into calls *)
(* of shake256_extract, for every size of block.                           *)
THEOREM SpongeImplemented == Spec => ImplementsSponge
<1>1. Init => IInv /\ S!Init
  BY Initial DEF Init
<1> QED BY <1>1, Invariance, PTL DEF Spec, ImplementsSponge, S!Spec

(* At every turn of every call the bytes injected so far lie one after the *)
(* other in the blocks of the message, each XORed once, in whatever pieces *)
(* they came: what shake256_inject leaves in the state and in dptr.        *)
THEOREM MessageInOrder == Spec => []InjectedInOrder
<1>1. Init => IInv
  BY Initial DEF Init
<1>2. IInv => InjectedInOrder
  <2> SUFFICES ASSUME IInv, mode = "in" PROVE InjectedInOrder
    BY DEF InjectedInOrder
  <2>1. PICK q \in Nat, d \in Nat : Injected(q, d)  BY DEF IInv, Absorbing
  <2> QED BY <2>1, InjectedIs DEF Injected, InjectedInOrder
<1> QED BY <1>1, <1>2, Invariance, PTL DEF Spec

-----------------------------------------------------------------------------
(* The reduction of hash_to_point_ct gives, of every 16-bit word, the      *)
(* residue hash_to_point_vartime computes, and rejects the same words.     *)
THEOREM ReducedIsResidue ==
  ASSUME NEW w \in Nat, w < 65536
  PROVE  /\ Kept(w) => Reduced(w) = w % 12289 /\ Valid(Reduced(w))
         /\ ~Kept(w) => Reduced(w) = Bad /\ ~Valid(Reduced(w))
<1>1. CASE ~(w < 61445)
  BY <1>1, SMT DEF Kept, Reduced, Bad, Valid
<1>2. CASE w < 61445
  <2> DEFINE once(a, q) == IF a >= q THEN a - q ELSE a
             r == once(once(once(w, 24578), 24578), 12289)
  <2>1. Reduced(w) = r  BY <1>2, SMT DEF Reduced
  <2>2. r \in Nat /\ r < 12289 /\ \E k \in 0..4 : w = k * 12289 + r
    <3>1. r \in Nat /\ r < 12289  BY <1>2, SMT
    <3>2. w = r \/ w = 12289 + r \/ w = 24578 + r \/ w = 36867 + r \/ w = 49156 + r
      BY <1>2, SMT
    <3> QED BY <3>1, <3>2, SMT
  <2> HIDE DEF r
  <2>3. w % 12289 = r  BY <2>2, SMT
  <2> QED BY <1>2, <2>1, <2>2, <2>3, SMT DEF Kept, Valid
<1> QED BY <1>1, <1>2 DEF Kept

-----------------------------------------------------------------------------
(***************************************************************************)
(* Counting.                                                               *)
(***************************************************************************)

LEMMA BelowType ==
  ASSUME NEW A \in SUBSET Nat, IsFiniteSet(A), NEW k \in Nat
  PROVE  Below(A, k) \in Nat /\ Below(A, k) <= Cardinality(A) /\ Cardinality(A) \in Nat
<1>1. {j \in A : j < k} \in SUBSET A  OBVIOUS
<1>2. /\ IsFiniteSet({j \in A : j < k})
      /\ Cardinality({j \in A : j < k}) <= Cardinality(A)
  BY <1>1, FS_Subset
<1>3. Cardinality({j \in A : j < k}) \in Nat /\ Cardinality(A) \in Nat
  BY <1>2, FS_CardinalityType
<1> QED BY <1>2, <1>3 DEF Below

(* Between two places at most one member of a set is counted at each. *)
LEMMA BelowStep ==
  ASSUME NEW A \in SUBSET Nat, IsFiniteSet(A), NEW i \in Nat, NEW j \in Nat, i < j
  PROVE  /\ Below(A, i) <= Below(A, j) /\ Below(A, j) <= Below(A, i) + (j - i)
         /\ i \in A => Below(A, i) < Below(A, j)
<1> DEFINE lo == {x \in A : x < i}
           hi == {x \in A : x < j}
           mid == i..(j - 1)
<1>1. lo \in SUBSET A /\ hi \in SUBSET A /\ lo \in SUBSET hi
  <2>1. \A x \in A : x < i => x < j
    <3> TAKE x \in A
    <3>1. x \in Nat  OBVIOUS
    <3> QED BY <3>1, SMT
  <2> QED BY <2>1
<1>2. IsFiniteSet(lo) /\ IsFiniteSet(hi) /\ Cardinality(lo) <= Cardinality(hi)
  BY <1>1, FS_Subset
<1>3. IsFiniteSet(mid) /\ Cardinality(mid) = j - i
  <2>1. i \in Int /\ j - 1 \in Int /\ ~(i > j - 1) /\ (j - 1) - i + 1 = j - i  BY SMT
  <2> QED BY <2>1, FS_Interval
<1>4. /\ Cardinality(lo) \in Nat /\ Cardinality(hi) \in Nat /\ Cardinality(lo \cap mid) \in Nat
      /\ IsFiniteSet(lo \cup mid)
      /\ Cardinality(lo \cup mid) = Cardinality(lo) + Cardinality(mid) - Cardinality(lo \cap mid)
      /\ Cardinality(lo \cup mid) \in Nat
  <2>1. IsFiniteSet(lo \cap mid)
    <3>1. lo \cap mid \in SUBSET lo  OBVIOUS
    <3> QED BY <1>2, <3>1, FS_Subset
  <2>2. IsFiniteSet(lo \cup mid)
        /\ Cardinality(lo \cup mid) = Cardinality(lo) + Cardinality(mid) - Cardinality(lo \cap mid)
    BY <1>2, <1>3, FS_Union
  <2> QED BY <1>2, <2>1, <2>2, FS_CardinalityType
<1>5. Cardinality(hi) <= Cardinality(lo \cup mid)
  <2>1. hi \in SUBSET (lo \cup mid)
    <3>1. \A x \in A : x < j => x < i \/ x \in mid
      <4> TAKE x \in A
      <4>1. x \in Nat  OBVIOUS
      <4> QED BY <4>1, SMT
    <3> QED BY <3>1
  <2> QED BY <1>4, <2>1, FS_Subset
<1>6. ASSUME i \in A PROVE Cardinality(lo) < Cardinality(hi)
  <2>1. lo \cup {i} \in SUBSET hi /\ i \notin lo
    <3>1. i < j /\ ~(i < i)  BY SMT
    <3> QED BY <1>1, <1>6, <3>1
  <2>2. Cardinality(lo \cup {i}) = Cardinality(lo) + 1  BY <1>2, <2>1, FS_AddElement
  <2>3. Cardinality(lo \cup {i}) <= Cardinality(hi)  BY <1>2, <2>1, FS_Subset
  <2> QED BY <1>4, <2>2, <2>3, SMT
<1>7. Below(A, i) = Cardinality(lo) /\ Below(A, j) = Cardinality(hi)  BY DEF Below
<1> HIDE DEF lo, hi, mid
<1> QED BY <1>2, <1>3, <1>4, <1>5, <1>6, <1>7, SMT

(* The members of the image of an increasing function are counted as those *)
(* of the set.                                                             *)
LEMMA BelowImage ==
  ASSUME NEW A \in SUBSET Nat, IsFiniteSet(A), NEW f \in [A -> Nat],
         \A i, j \in A : i < j => f[i] < f[j],
         NEW B, B = {f[i] : i \in A}
  PROVE  /\ IsFiniteSet(B) /\ Cardinality(B) = Cardinality(A)
         /\ \A i \in A : Below(B, f[i]) = Below(A, i)
<1>1. \A i, j \in A : f[i] = f[j] => i = j
  <2> TAKE i, j \in A
  <2>1. i \in Nat /\ j \in Nat /\ f[i] \in Nat /\ f[j] \in Nat  OBVIOUS
  <2>2. (i < j => f[i] < f[j]) /\ (j < i => f[j] < f[i])  OBVIOUS
  <2> QED BY <2>1, <2>2, SMT
<1>2. ASSUME NEW R \in SUBSET A
      PROVE  IsFiniteSet({f[i] : i \in R}) /\ Cardinality({f[i] : i \in R}) = Cardinality(R)
  <2> DEFINE T == {f[i] : i \in R}
             g == [i \in R |-> f[i]]
  <2>1. IsFiniteSet(R)  BY FS_Subset
  <2>2. g \in [R -> T] /\ (\A a, b \in R : g[a] = g[b] => a = b) /\ (\A t \in T : \E s \in R : g[s] = t)
    BY <1>1
  <2> HIDE DEF T, g
  <2>3. g \in Bijection(R, T)  BY <2>2, Fun_IsBij
  <2>4. ExistsBijection(R, T)  BY <2>3 DEF ExistsBijection
  <2>5. IsFiniteSet(T) /\ Cardinality(T) = Cardinality(R)  BY <2>1, <2>4, FS_Bijection
  <2> QED BY <2>5 DEF T
<1>3. A \in SUBSET A  OBVIOUS
<1>4. IsFiniteSet(B) /\ Cardinality(B) = Cardinality(A)  BY <1>2, <1>3
<1>5. ASSUME NEW i \in A PROVE Below(B, f[i]) = Below(A, i)
  <2> DEFINE R == {j \in A : j < i}
  <2>1. {b \in B : b < f[i]} = {f[j] : j \in R}
    <3>1. \A j \in A : f[j] < f[i] <=> j < i
      <4> TAKE j \in A
      <4>1. f[i] \in Nat /\ f[j] \in Nat /\ i \in Nat /\ j \in Nat  OBVIOUS
      <4>2. i < j => f[i] < f[j]  OBVIOUS
      <4>3. j < i => f[j] < f[i]  OBVIOUS
      <4>4. i = j => f[i] = f[j]  OBVIOUS
      <4> QED BY <4>1, <4>2, <4>3, <4>4, SMT
    <3> QED BY <3>1
  <2>2. R \in SUBSET A  OBVIOUS
  <2> HIDE DEF R
  <2>3. Cardinality({f[j] : j \in R}) = Cardinality(R)  BY <1>2, <2>2
  <2> QED BY <2>1, <2>3 DEF Below, R
<1> QED BY <1>4, <1>5

(***************************************************************************)
(* Strides.                                                                *)
(***************************************************************************)

(* What a value that should jump down by d cells still has to jump when    *)
(* the strides under s are done: d without its bits below s.               *)
Left(d, s) == (d \div s) * s

LEMMA Divides ==
  ASSUME NEW d \in Nat, NEW s \in Nat, s >= 1
  PROVE  /\ d \div s \in Nat /\ d % s \in Nat /\ d % s < s
         /\ Left(d, s) \in Nat /\ d = Left(d, s) + (d % s)
         /\ Left(d, s) \div s = d \div s
<1>1. d \div s \in Nat /\ d % s \in 0..(s - 1) /\ d = (d \div s) * s + (d % s)
  BY SMT
<1>2. PICK q \in Nat : q = d \div s  BY <1>1
<1>3. q * s \in Nat /\ q * s + 0 = q * s  BY <1>2, SMT
<1>4. (q * s + 0) \div s = q
  <2>1. 0 \in Nat /\ 0 < s  BY SMT
  <2> QED BY <1>2, <2>1, PlaceOf
<1> QED BY <1>1, <1>2, <1>3, <1>4, SMT DEF Left

LEMMA LeftMonotone ==
  ASSUME NEW s \in Nat, s >= 1, NEW d \in Nat, NEW e \in Nat, d <= e
  PROVE  Left(d, s) <= Left(e, s)
<1> DEFINE a == d \div s
           b == e \div s
<1>1. a \in Nat /\ d % s \in Nat /\ d % s < s /\ d = a * s + (d % s)
  BY Divides DEF Left
<1>2. b \in Nat /\ e % s \in Nat /\ e % s < s /\ e = b * s + (e % s)
  BY Divides DEF Left
<1>3. CASE b < a
  <2> HIDE DEF a, b
  <2>1. b * s \in Nat /\ a * s \in Nat /\ b * s + s <= a * s  BY <1>1, <1>2, <1>3, RowsOf
  <2> QED BY <1>1, <1>2, <2>1, SMT
<1>4. CASE a < b
  <2> HIDE DEF a, b
  <2>1. a * s \in Nat /\ b * s \in Nat /\ a * s + s <= b * s  BY <1>1, <1>2, <1>4, RowsOf
  <2>2. a * s <= b * s  BY <2>1, SMT
  <2> QED BY <2>2 DEF Left, a, b
<1>5. CASE a = b
  <2>1. Left(d, s) = Left(e, s) /\ Left(d, s) \in Nat  BY <1>5, Divides DEF Left
  <2> QED BY <2>1, SMT
<1> HIDE DEF a, b
<1> QED BY <1>1, <1>2, <1>3, <1>4, <1>5, SMT

(* The stride s is made when what is left to jump has bit s set. *)
LEMMA LeftHalves ==
  ASSUME NEW s \in Nat, s >= 1, NEW d \in Nat
  PROVE  Left(d, 2 * s) = IF (Left(d, s) \div s) % 2 = 1 THEN Left(d, s) - s ELSE Left(d, s)
<1>1. PICK q \in Nat, r \in Nat : q = d \div s /\ r < s /\ d = q * s + r /\ Left(d, s) = q * s
  BY Divides DEF Left
<1>2. Left(d, s) \div s = q  BY <1>1, Divides
<1>3. PICK h \in Nat, o \in {0, 1} : q = 2 * h + o /\ o = q % 2
  <2>1. q \div 2 \in Nat /\ q % 2 \in {0, 1} /\ q = 2 * (q \div 2) + (q % 2)  BY SMT
  <2> QED BY <2>1
<1>4. 2 * s \in Nat /\ 2 * s >= 1 /\ o * s + r \in Nat /\ o * s + r < 2 * s /\ o * s \in Nat
  BY <1>1, <1>3, SMT
<1>5. d = h * (2 * s) + (o * s + r) /\ h * (2 * s) = q * s - o * s /\ q * s \in Nat /\ h * (2 * s) \in Nat
  BY <1>1, <1>3, SMT
<1>6. d \div (2 * s) = h
  <2> DEFINE ss == 2 * s
             rr == o * s + r
  <2>1. ss \in Nat /\ ss >= 1 /\ rr \in Nat /\ rr < ss  BY <1>4
  <2>2. d = h * ss + rr  BY <1>5
  <2> HIDE DEF ss, rr
  <2>3. d \div ss = h  BY <2>1, <2>2, PlaceOf
  <2> QED BY <2>3 DEF ss
<1>7. Left(d, 2 * s) = q * s - o * s  BY <1>5, <1>6 DEF Left
<1>8. CASE o = 1
  BY <1>1, <1>2, <1>3, <1>7, <1>8, SMT
<1>9. CASE o = 0
  BY <1>1, <1>2, <1>3, <1>5, <1>7, <1>9, SMT
<1> QED BY <1>3, <1>8, <1>9

LEMMA LeftEnds ==
  ASSUME NEW d \in Nat
  PROVE  /\ Left(d, 1) = d
         /\ \A s \in Nat : d < s => Left(d, s) = 0
<1>1. Left(d, 1) = d  BY SMT DEF Left
<1>2. ASSUME NEW s \in Nat, d < s PROVE Left(d, s) = 0
  <2>1. s >= 1 /\ 0 \in Nat /\ 0 * s + d = d /\ 0 * s = 0  BY <1>2, SMT
  <2>2. d \div s = 0  BY <1>2, <2>1, PlaceOf
  <2> QED BY <2>1, <2>2 DEF Left
<1> QED BY <1>1, <1>2

(***************************************************************************)
(* The kept words of a sequence ws.  The value of word i should end in     *)
(* cell Rank(ws, i), Gap(ws, i) cells below the one it was read into; when *)
(* the strides under s are done it is in cell Spot(ws, s, i).              *)
(***************************************************************************)
KeptIn(ws)     == {i \in 1..Len(ws) : Kept(ws[i])}
Rank(ws, i)    == Below(KeptIn(ws), i)
Gap(ws, i)     == (i - 1) - Rank(ws, i)
Spot(ws, s, i) == Rank(ws, i) + Left(Gap(ws, i), s)

LEMMA SizesType ==
  n \in Nat /\ n >= 1 /\ over \in Nat /\ over >= 1 /\ m \in Nat /\ m >= 2 /\ m = n + over
<1>1. n \in Nat /\ n # 0 /\ over \in Nat /\ over # 0  BY HashAssumption
<1> QED BY <1>1, SMT DEF m

LEMMA KeptType ==
  ASSUME NEW ws \in Seq(Words)
  PROVE  /\ KeptIn(ws) \in SUBSET Nat /\ IsFiniteSet(KeptIn(ws)) /\ Cardinality(KeptIn(ws)) \in Nat
         /\ \A i \in KeptIn(ws) : /\ i \in Nat /\ i >= 1 /\ i <= Len(ws)
                                  /\ ws[i] \in Nat /\ ws[i] < 65536 /\ Kept(ws[i])
<1>1. Len(ws) \in Nat /\ \A i \in 1..Len(ws) : ws[i] \in Words
  OBVIOUS
<1>2. \A w \in Words : w \in Nat /\ w < 65536
  BY HashAssumption
<1>3. /\ KeptIn(ws) \in SUBSET (1..Len(ws))
      /\ \A i \in 1..Len(ws) : i \in Nat /\ i >= 1 /\ i <= Len(ws)
  BY <1>1, SMT DEF KeptIn
<1>4. IsFiniteSet(1..Len(ws))
  <2>1. 1 \in Int /\ Len(ws) \in Int  BY <1>1, SMT
  <2> QED BY <2>1, FS_Interval
<1>5. IsFiniteSet(KeptIn(ws))  BY <1>3, <1>4, FS_Subset
<1>6. Cardinality(KeptIn(ws)) \in Nat  BY <1>5, FS_CardinalityType
<1> QED BY <1>1, <1>2, <1>3, <1>5, <1>6 DEF KeptIn

LEMMA RankType ==
  ASSUME NEW ws \in Seq(Words), NEW i \in Nat, i >= 1
  PROVE  Rank(ws, i) \in Nat /\ Gap(ws, i) \in Nat /\ Rank(ws, i) <= Cardinality(KeptIn(ws))
<1>1. KeptIn(ws) \in SUBSET Nat /\ IsFiniteSet(KeptIn(ws))  BY KeptType
<1>2. Rank(ws, i) \in Nat /\ Rank(ws, i) <= Cardinality(KeptIn(ws))
  BY <1>1, BelowType DEF Rank
<1>3. IsFiniteSet(1..(i - 1)) /\ Cardinality(1..(i - 1)) = i - 1
  <2>1. 1 \in Int /\ i - 1 \in Int /\ (1 > i - 1 => i - 1 = 0) /\ (i - 1) - 1 + 1 = i - 1  BY SMT
  <2> QED BY <2>1, FS_Interval
<1>4. {j \in KeptIn(ws) : j < i} \in SUBSET (1..(i - 1))
  <2>1. \A j \in KeptIn(ws) : j < i => j \in 1..(i - 1)
    <3> TAKE j \in KeptIn(ws)
    <3>1. j \in Nat /\ j >= 1  BY KeptType
    <3> QED BY <3>1, SMT
  <2> QED BY <2>1
<1>5. Rank(ws, i) <= i - 1  BY <1>3, <1>4, FS_Subset DEF Rank, Below
<1> QED BY <1>2, <1>5, SMT DEF Gap

LEMMA RankStep ==
  ASSUME NEW ws \in Seq(Words), NEW i \in Nat, i >= 1, NEW j \in Nat, i < j
  PROVE  /\ Rank(ws, i) <= Rank(ws, j) /\ Gap(ws, i) <= Gap(ws, j)
         /\ i \in KeptIn(ws) => Rank(ws, i) < Rank(ws, j)
<1>1. KeptIn(ws) \in SUBSET Nat /\ IsFiniteSet(KeptIn(ws))  BY KeptType
<1>2. /\ Rank(ws, i) <= Rank(ws, j) /\ Rank(ws, j) <= Rank(ws, i) + (j - i)
      /\ i \in KeptIn(ws) => Rank(ws, i) < Rank(ws, j)
  BY <1>1, BelowStep DEF Rank
<1>3. Rank(ws, i) \in Nat /\ Rank(ws, j) \in Nat  BY RankType, SMT
<1> QED BY <1>2, <1>3, SMT DEF Gap

(* A word that follows does not change the ranks. *)
LEMMA RankAppend ==
  ASSUME NEW ws \in Seq(Words), NEW w \in Words
  PROVE  LET xs == Append(ws, w)
             l  == Len(ws) + 1
         IN  /\ xs \in Seq(Words) /\ Len(xs) = l /\ l \in Nat /\ l >= 1
             /\ KeptIn(xs) = IF Kept(w) THEN KeptIn(ws) \cup {l} ELSE KeptIn(ws)
             /\ Cardinality(KeptIn(xs)) = Cardinality(KeptIn(ws)) + (IF Kept(w) THEN 1 ELSE 0)
             /\ \A i \in KeptIn(ws) : Rank(xs, i) = Rank(ws, i) /\ xs[i] = ws[i]
             /\ Rank(xs, l) = Cardinality(KeptIn(ws)) /\ xs[l] = w
<1> DEFINE xs == Append(ws, w)
           l  == Len(ws) + 1
<1>1. /\ xs \in Seq(Words) /\ Len(xs) = l /\ l \in Nat /\ l >= 1 /\ Len(ws) \in Nat /\ xs[l] = w
      /\ \A i \in 1..Len(ws) : xs[i] = ws[i]
  BY SMT
<1> HIDE DEF xs
<1>2. KeptIn(xs) = IF Kept(w) THEN KeptIn(ws) \cup {l} ELSE KeptIn(ws)
  <2>1. 1..Len(xs) = 1..Len(ws) \cup {l}  BY <1>1, SMT
  <2> QED BY <1>1, <2>1 DEF KeptIn
<1>3. KeptIn(ws) \in SUBSET (1..Len(ws)) /\ IsFiniteSet(KeptIn(ws)) /\ Cardinality(KeptIn(ws)) \in Nat
  BY KeptType DEF KeptIn
<1>4. \A i \in KeptIn(ws) : i \in Nat /\ i < l
  <2> TAKE i \in KeptIn(ws)
  <2>1. i \in Nat /\ i <= Len(ws)  BY KeptType
  <2> QED BY <1>1, <2>1, SMT
<1>5. l \notin KeptIn(ws) /\ ~(l < l)  BY <1>1, <1>4, SMT
<1>6. Cardinality(KeptIn(xs)) = Cardinality(KeptIn(ws)) + (IF Kept(w) THEN 1 ELSE 0)
  <2>1. CASE Kept(w)
    BY <1>2, <1>3, <1>5, <2>1, FS_AddElement
  <2>2. CASE ~Kept(w)
    BY <1>2, <1>3, <2>2, SMT
  <2> QED BY <2>1, <2>2
<1>7. ASSUME NEW i \in KeptIn(ws) PROVE Rank(xs, i) = Rank(ws, i)
  <2>1. ~(l < i)  BY <1>1, <1>4, SMT
  <2>2. {j \in KeptIn(xs) : j < i} = {j \in KeptIn(ws) : j < i}  BY <1>2, <2>1
  <2> QED BY <2>2 DEF Rank, Below
<1>8. Rank(xs, l) = Cardinality(KeptIn(ws))
  <2>1. {j \in KeptIn(xs) : j < l} = KeptIn(ws)  BY <1>2, <1>4, <1>5
  <2> QED BY <2>1 DEF Rank, Below
<1> QED BY <1>1, <1>2, <1>3, <1>6, <1>7, <1>8 DEF xs

LEMMA SpotType ==
  ASSUME NEW ws \in Seq(Words), NEW s \in Nat, s >= 1, NEW i \in KeptIn(ws)
  PROVE  /\ Spot(ws, s, i) \in Nat /\ Spot(ws, s, i) <= i - 1
         /\ Rank(ws, i) \in Nat /\ Rank(ws, i) <= Spot(ws, s, i)
         /\ Spot(ws, s, i) - Rank(ws, i) = Left(Gap(ws, i), s)
<1>1. i \in Nat /\ i >= 1  BY KeptType
<1>2. Rank(ws, i) \in Nat /\ Gap(ws, i) \in Nat /\ Gap(ws, i) = (i - 1) - Rank(ws, i)
  BY <1>1, RankType DEF Gap
<1>3. Left(Gap(ws, i), s) \in Nat /\ Left(Gap(ws, i), s) <= Gap(ws, i)
  <2>1. /\ Left(Gap(ws, i), s) \in Nat /\ (Gap(ws, i) % s) \in Nat
        /\ Gap(ws, i) = Left(Gap(ws, i), s) + (Gap(ws, i) % s)
    BY <1>2, Divides
  <2> QED BY <1>2, <2>1, SMT
<1> QED BY <1>1, <1>2, <1>3, SMT DEF Spot

(* The pass of stride s moves a value by s when the bit s of what it still *)
(* has to jump is set, and leaves it where it is otherwise.                *)
LEMMA SpotHalves ==
  ASSUME NEW ws \in Seq(Words), NEW s \in Nat, s >= 1, NEW i \in KeptIn(ws)
  PROVE  /\ Spot(ws, 2 * s, i) \in Nat /\ Spot(ws, 2 * s, i) <= Spot(ws, s, i)
         /\ ((Spot(ws, s, i) - Rank(ws, i)) \div s) % 2 = 1 =>
              Spot(ws, 2 * s, i) = Spot(ws, s, i) - s /\ s <= Spot(ws, s, i)
         /\ ((Spot(ws, s, i) - Rank(ws, i)) \div s) % 2 # 1 => Spot(ws, 2 * s, i) = Spot(ws, s, i)
<1>1. /\ Spot(ws, s, i) \in Nat /\ Rank(ws, i) \in Nat /\ Rank(ws, i) <= Spot(ws, s, i)
      /\ Spot(ws, s, i) - Rank(ws, i) = Left(Gap(ws, i), s)
  BY SpotType
<1>2. Gap(ws, i) \in Nat  BY KeptType, RankType
<1>3. 2 * s \in Nat /\ 2 * s >= 1  BY SMT
<1>4. Spot(ws, 2 * s, i) \in Nat /\ Rank(ws, i) <= Spot(ws, 2 * s, i)
  <2> DEFINE t == 2 * s
  <2>1. t \in Nat /\ t >= 1  BY <1>3
  <2> HIDE DEF t
  <2>2. Spot(ws, t, i) \in Nat /\ Rank(ws, i) <= Spot(ws, t, i)  BY <2>1, SpotType
  <2> QED BY <2>2 DEF t
<1>5. Left(Gap(ws, i), 2 * s) = IF (Left(Gap(ws, i), s) \div s) % 2 = 1 THEN Left(Gap(ws, i), s) - s
                                ELSE Left(Gap(ws, i), s)
  BY <1>2, LeftHalves
<1>6. Left(Gap(ws, i), s) \in Nat  BY <1>2, Divides
<1>7. CASE ((Spot(ws, s, i) - Rank(ws, i)) \div s) % 2 = 1
  <2>1. Left(Gap(ws, i), 2 * s) = Left(Gap(ws, i), s) - s  BY <1>1, <1>5, <1>7
  <2>2. Spot(ws, 2 * s, i) = Spot(ws, s, i) - s  BY <1>1, <1>6, <2>1, SMT DEF Spot
  <2> QED BY <1>1, <1>4, <1>7, <2>2, SMT
<1>8. CASE ((Spot(ws, s, i) - Rank(ws, i)) \div s) % 2 # 1
  <2>1. Left(Gap(ws, i), 2 * s) = Left(Gap(ws, i), s)  BY <1>1, <1>5, <1>8
  <2>2. Spot(ws, 2 * s, i) = Spot(ws, s, i)  BY <2>1 DEF Spot
  <2> QED BY <1>1, <1>8, <2>2, SMT
<1> QED BY <1>7, <1>8

LEMMA SpotOrder ==
  ASSUME NEW ws \in Seq(Words), NEW s \in Nat, s >= 1,
         NEW i \in KeptIn(ws), NEW j \in KeptIn(ws), i < j
  PROVE  Spot(ws, s, i) < Spot(ws, s, j) /\ Rank(ws, i) < Rank(ws, j)
<1>1. i \in Nat /\ i >= 1 /\ j \in Nat /\ j >= 1  BY KeptType
<1>2. Rank(ws, i) < Rank(ws, j) /\ Gap(ws, i) <= Gap(ws, j)  BY <1>1, RankStep
<1>3. Rank(ws, i) \in Nat /\ Gap(ws, i) \in Nat /\ Rank(ws, j) \in Nat /\ Gap(ws, j) \in Nat
  BY <1>1, RankType
<1>4. Left(Gap(ws, i), s) <= Left(Gap(ws, j), s)  BY <1>2, <1>3, LeftMonotone
<1>5. Left(Gap(ws, i), s) \in Nat /\ Left(Gap(ws, j), s) \in Nat  BY <1>3, Divides
<1> QED BY <1>2, <1>3, <1>4, <1>5, SMT DEF Spot

-----------------------------------------------------------------------------
(***************************************************************************)
(* The invariant.  In the pass of stride p a value is at its Spot for p    *)
(* until u has gone by, and at its Spot for 2 * p from then on.            *)
(***************************************************************************)
KeptAt  == KeptIn(words)
Near(i) == Spot(words, p, i)
Far(i)  == Spot(words, 2 * p, i)
Passed  == {i \in KeptAt : Near(i) < u}
Pos(i)  == IF Near(i) < u THEN Far(i) ELSE Near(i)

HashTypes ==
  /\ loop \in {"idle", "read", "squeeze", "done"}
  /\ words \in Seq(Words) /\ Len(words) <= m
  /\ cell \in [Cells -> CellValues]
  /\ p \in Nat /\ p >= 1 /\ p <= 2 * over /\ (loop # "done" => p <= over)
  /\ u \in Nat /\ u <= m /\ v \in Nat /\ v <= u

(* While the words are read, cell k holds word k + 1. *)
Filling ==
  /\ loop = "idle" => words = <<>> /\ u = 0
  /\ loop = "read" => u = Len(words) /\ u < m
  /\ loop \in {"idle", "read"} =>
       /\ p = 1 /\ v = 0
       /\ \A c \in Cells : cell[c] = IF c < Len(words) THEN Reduced(words[c + 1]) ELSE Bad

(* During a pass, each kept value is where its number of rejected words    *)
(* says, the valid cells are those, and v counts the values passed.        *)
Placed ==
  /\ Len(words) = m
  /\ v = Cardinality(Passed)
  /\ \A i \in KeptAt : cell[Pos(i)] = words[i] % 12289
  /\ \A c \in Cells : Valid(cell[c]) => \E i \in KeptAt : Pos(i) = c

(* What hash_to_point_vartime has collected. *)
Collects(ws, x) ==
  /\ x \in Seq(0..12288)
  /\ Len(x) = IF Cardinality(KeptIn(ws)) < n THEN Cardinality(KeptIn(ws)) ELSE n
  /\ \A k \in 1..Len(x) : \E i \in KeptIn(ws) : Rank(ws, i) = k - 1 /\ x[k] = ws[i] % 12289

Collected == Collects(words, point)

HInv ==
  /\ HashTypes /\ Filling /\ Collected
  /\ loop \in {"squeeze", "done"} => Placed
  /\ loop = "done" => p > over /\ u = 0

(* What a step that keeps the words has to show of the cells. *)
LEMMA PlacedNext ==
  ASSUME KeptAt' = KeptAt, words' = words, Len(words) = m, v' = Cardinality(Passed'),
         \A j \in KeptAt : cell'[Pos(j)'] = words[j] % 12289,
         \A c \in Cells : Valid(cell'[c]) => \E j \in KeptAt : Pos(j)' = c
  PROVE  Placed'
BY SMT DEF Placed

LEMMA ValueType ==
  ASSUME NEW w \in Nat
  PROVE  w % 12289 \in 0..12288 /\ w % 12289 # Bad /\ Valid(w % 12289)
BY SMT DEF Bad, Valid

LEMMA PlaceTypes ==
  ASSUME HashTypes, NEW i \in KeptAt
  PROVE  /\ i \in Nat /\ i >= 1 /\ i <= Len(words) /\ words[i] \in Nat
         /\ Near(i) \in Nat /\ Far(i) \in Nat /\ Far(i) <= Near(i) /\ Near(i) <= i - 1
         /\ Rank(words, i) \in Nat /\ Rank(words, i) <= Near(i)
<1>1. words \in Seq(Words) /\ p \in Nat /\ p >= 1 /\ i \in KeptIn(words)
  BY DEF HashTypes, KeptAt
<1>2. i \in Nat /\ i >= 1 /\ i <= Len(words) /\ words[i] \in Nat
  BY <1>1, KeptType
<1>3. /\ Near(i) \in Nat /\ Near(i) <= i - 1
      /\ Rank(words, i) \in Nat /\ Rank(words, i) <= Near(i)
  BY <1>1, SpotType DEF Near
<1>4. Far(i) \in Nat /\ Far(i) <= Near(i)
  BY <1>1, SpotHalves DEF Near, Far
<1> QED BY <1>2, <1>3, <1>4

LEMMA PlaceOrder ==
  ASSUME HashTypes, NEW i \in KeptAt, NEW j \in KeptAt
  PROVE  /\ Near(i) < Near(j) <=> i < j
         /\ Far(i) < Far(j) <=> i < j
         /\ Pos(i) < Pos(j) <=> i < j
         /\ Pos(i) \in Nat
<1>1. ASSUME NEW a \in KeptAt, NEW b \in KeptAt, a < b PROVE Near(a) < Near(b) /\ Far(a) < Far(b)
  <2> DEFINE s == 2 * p
  <2>1. s \in Nat /\ s >= 1  BY SMT DEF HashTypes
  <2> HIDE DEF s
  <2>2. Spot(words, s, a) < Spot(words, s, b)
    BY <1>1, <2>1, SpotOrder DEF HashTypes, KeptAt
  <2>3. Spot(words, p, a) < Spot(words, p, b)
    BY <1>1, SpotOrder DEF HashTypes, KeptAt
  <2> QED BY <2>2, <2>3 DEF Near, Far, s
<1>2. \A a \in KeptAt : a \in Nat /\ Near(a) \in Nat /\ Far(a) \in Nat /\ Far(a) <= Near(a)
  BY PlaceTypes
<1>3. i = j => Near(i) = Near(j) /\ Far(i) = Far(j)  OBVIOUS
<1>4. i < j => Near(i) < Near(j) /\ Far(i) < Far(j)  BY <1>1
<1>5. j < i => Near(j) < Near(i) /\ Far(j) < Far(i)  BY <1>1
<1>6. /\ i \in Nat /\ Near(i) \in Nat /\ Far(i) \in Nat /\ Far(i) <= Near(i)
      /\ j \in Nat /\ Near(j) \in Nat /\ Far(j) \in Nat /\ Far(j) <= Near(j)
      /\ u \in Nat
  BY <1>2 DEF HashTypes
<1> QED BY <1>3, <1>4, <1>5, <1>6, SMT DEF Pos

(* The place of a kept value is a cell, and holds it. *)
LEMMA PosCell ==
  ASSUME HashTypes, Placed, NEW i \in KeptAt
  PROVE  Pos(i) \in Cells /\ Valid(cell[Pos(i)])
<1>1. /\ i <= m /\ i \in Nat /\ i >= 1 /\ words[i] \in Nat
      /\ Near(i) \in Nat /\ Far(i) \in Nat /\ Far(i) <= Near(i) /\ Near(i) <= i - 1
  BY PlaceTypes DEF Placed
<1>2. Pos(i) \in Cells  BY <1>1, SizesType, SMT DEF Pos, Cells
<1> QED BY <1>1, <1>2, ValueType DEF Placed

(* The value at hand: v is where it should end. *)
LEMMA AtHand ==
  ASSUME HashTypes, Placed, u < m, Valid(cell[u])
  PROVE  \E i \in KeptAt : /\ Pos(i) = u /\ Near(i) = u /\ v = Rank(words, i)
                           /\ Passed = {j \in KeptAt : j < i}
<1>1. u \in Cells  BY SizesType, SMT DEF HashTypes, Cells
<1>2. PICK i \in KeptAt : Pos(i) = u  BY <1>1 DEF Placed
<1>3. Near(i) \in Nat /\ Far(i) \in Nat /\ Far(i) <= Near(i) /\ u \in Nat
  <2>1. u \in Nat  BY DEF HashTypes
  <2> QED BY <2>1, PlaceTypes
<1>4. Near(i) = u  BY <1>2, <1>3, SMT DEF Pos
<1>5. \A j \in KeptAt : Near(j) < u <=> j < i  BY <1>4, PlaceOrder
<1>6. Passed = {j \in KeptAt : j < i}  BY <1>5 DEF Passed
<1>7. v = Rank(words, i)  BY <1>6 DEF Placed, Rank, Below, KeptAt
<1> QED BY <1>2, <1>4, <1>6, <1>7

(* The destination of a value that moves is free. *)
LEMMA DestinationFree ==
  ASSUME HashTypes, Placed, u < m, NEW i \in KeptAt, Near(i) = u, Far(i) = u - p
  PROVE  u - p \in Cells /\ ~Valid(cell[u - p]) /\ \A j \in KeptAt : Pos(j) # u - p
<1>1. i \in Nat /\ Far(i) \in Nat /\ u \in Nat /\ p \in Nat /\ p >= 1
  <2>1. u \in Nat /\ p \in Nat /\ p >= 1  BY DEF HashTypes
  <2> QED BY <2>1, PlaceTypes
<1>2. ASSUME NEW j \in KeptAt, Pos(j) = u - p PROVE FALSE
  <2>1. j \in Nat /\ Near(j) \in Nat /\ Far(j) \in Nat  BY PlaceTypes
  <2>2. /\ Near(j) < Near(i) <=> j < i
        /\ Far(j) < Far(i) <=> j < i
    BY PlaceOrder
  <2>3. CASE Near(j) < u
    <3>1. Far(j) = u - p /\ j < i  BY <1>2, <2>2, <2>3 DEF Pos
    <3> QED BY <1>1, <2>1, <2>2, <3>1, SMT
  <2>4. CASE ~(Near(j) < u)
    <3>1. Near(j) = u - p  BY <1>2, <2>4 DEF Pos
    <3> QED BY <1>1, <2>1, <2>4, <3>1, SMT
  <2> QED BY <2>3, <2>4
<1>3. u - p \in Cells
  <2>1. u - p = Far(i)  OBVIOUS
  <2> QED BY <1>1, <2>1, SizesType, SMT DEF Cells
<1> QED BY <1>2, <1>3 DEF Placed

(* The cell at hand and the one u - p cells below it: the step's choice.   *)
LEMMA Choice ==
  ASSUME HashTypes, Placed, u < m, NEW i \in KeptAt, Near(i) = u, v = Rank(words, i)
  PROVE  /\ Moves(cell[u], u - v) => u >= p /\ Far(i) = u - p
         /\ ~Moves(cell[u], u - v) => Far(i) = u
<1>1. Valid(cell[u])
  <2>1. u \in Nat  BY DEF HashTypes
  <2>2. ~(u < u)  BY <2>1, SMT
  <2>3. Pos(i) = u  BY <2>2 DEF Pos
  <2> QED BY <2>3, PosCell
<1>2. /\ ((Near(i) - Rank(words, i)) \div p) % 2 = 1 => Far(i) = Near(i) - p /\ p <= Near(i)
      /\ ((Near(i) - Rank(words, i)) \div p) % 2 # 1 => Far(i) = Near(i)
  BY SpotHalves DEF HashTypes, KeptAt, Near, Far
<1> QED BY <1>1, <1>2, SMT DEF Moves, HashTypes

(* One cell of a pass. *)
LEMMA SqueezeStep ==
  ASSUME HInv, Squeeze
  PROVE  HInv'
<1>1. /\ loop = "squeeze" /\ u < m /\ u' = u + 1 /\ v' = Next_v(cell[u])
      /\ cell' = IF u >= p /\ Moves(cell[u], u - v)
                 THEN [cell EXCEPT ![u] = cell[u - p], ![u - p] = cell[u]] ELSE cell
      /\ loop' = loop /\ words' = words /\ p' = p /\ point' = point
      /\ HashTypes /\ Filling /\ Collected /\ Placed
  BY DEF Squeeze, HInv
<1>2. /\ u \in Nat /\ v \in Nat /\ v <= u /\ m \in Nat /\ p \in Nat /\ p >= 1
      /\ cell \in [Cells -> CellValues] /\ u \in Cells
  <2>1. u \in Nat /\ v \in Nat /\ v <= u /\ p \in Nat /\ p >= 1 /\ cell \in [Cells -> CellValues]
    BY <1>1 DEF HashTypes
  <2>2. u \in Cells  BY <1>1, <2>1, SizesType, SMT DEF Cells
  <2> QED BY <2>1, <2>2, SizesType
<1>3. /\ KeptAt' = KeptAt
      /\ \A j \in KeptAt : Near(j)' = Near(j) /\ Far(j)' = Far(j)
      /\ \A j \in KeptAt : Pos(j)' = IF Near(j) < u + 1 THEN Far(j) ELSE Near(j)
      /\ Passed' = {j \in KeptAt : Near(j) < u + 1}
  BY <1>1 DEF KeptAt, Near, Far, Pos, Passed
<1>4. \A j \in KeptAt : Near(j) \in Nat /\ Far(j) \in Nat /\ Pos(j) \in Nat /\ words[j] \in Nat
  BY <1>1, PlaceTypes, PlaceOrder
<1>5. Collected' /\ Filling'
  BY <1>1 DEF Collected, Filling
<1>8. ASSUME cell' \in [Cells -> CellValues] PROVE HashTypes'
  <2>1. v' \in Nat /\ v' <= u' /\ u' \in Nat /\ u' <= m
    BY <1>1, <1>2, SMT DEF Next_v
  <2> QED BY <1>1, <1>8, <2>1 DEF HashTypes
<1>6. CASE Valid(cell[u])
  <2>1. PICK i \in KeptAt : /\ Pos(i) = u /\ Near(i) = u /\ v = Rank(words, i)
                            /\ Passed = {j \in KeptAt : j < i}
    BY <1>1, <1>6, AtHand
  <2>2. \A j \in KeptAt : j # i => (Near(j) < u + 1 <=> Near(j) < u) /\ Pos(j)' = Pos(j) /\ Pos(j) # u
    <3> TAKE j \in KeptAt
    <3>1. /\ Near(j) < Near(i) <=> j < i
          /\ Near(i) < Near(j) <=> i < j
          /\ Pos(j) < Pos(i) <=> j < i
          /\ Pos(i) < Pos(j) <=> i < j
      BY <1>1, PlaceOrder
    <3>2. j \in Nat /\ i \in Nat  BY <1>1, PlaceTypes
    <3> HAVE j # i
    <3>3. Near(j) # u /\ Pos(j) # u  BY <1>2, <1>4, <2>1, <3>1, <3>2, SMT
    <3>4. Near(j) < u + 1 <=> Near(j) < u  BY <1>2, <1>4, <3>3, SMT
    <3> QED BY <1>3, <3>3, <3>4 DEF Pos
  <2>3. Pos(i)' = Far(i)
    <3>1. Near(i) < u + 1  BY <1>2, <2>1, SMT
    <3> QED BY <1>3, <3>1
  <2>4. v' = v + 1 /\ v' = Cardinality(Passed')
    <3>1. i \notin Passed
      <4>1. ~(u < u)  BY <1>2, SMT
      <4> QED BY <2>1, <4>1 DEF Passed
    <3>2. Passed' = Passed \cup {i}
      <4>1. Near(i) < u + 1  BY <1>2, <2>1, SMT
      <4> QED BY <1>3, <2>2, <4>1 DEF Passed
    <3>3. IsFiniteSet(Passed)
      <4>1. Passed \in SUBSET KeptAt  BY DEF Passed
      <4>2. IsFiniteSet(KeptAt)  BY <1>1, KeptType DEF HashTypes, KeptAt
      <4> QED BY <4>1, <4>2, FS_Subset
    <3>4. Cardinality(Passed') = Cardinality(Passed) + 1
      BY <3>1, <3>2, <3>3, FS_AddElement
    <3> QED BY <1>1, <1>6, <3>4 DEF Next_v, Placed
  <2>5. HashTypes' /\ Placed'
    <3>1. CASE Moves(cell[u], u - v)
      <4>1. u >= p /\ Far(i) = u - p  BY <1>1, <2>1, <3>1, Choice
      <4>2. u - p \in Cells /\ ~Valid(cell[u - p]) /\ \A j \in KeptAt : Pos(j) # u - p
        BY <1>1, <2>1, <4>1, DestinationFree
      <4>3. u - p # u  BY <1>2, SMT
      <4>4. /\ cell' \in [Cells -> CellValues]
            /\ cell'[u - p] = cell[u] /\ cell'[u] = cell[u - p]
            /\ \A c \in Cells : c # u /\ c # u - p => cell'[c] = cell[c]
        <5>1. PICK d \in Cells : d = u - p /\ d # u  BY <4>2, <4>3
        <5>2. cell' = [cell EXCEPT ![u] = cell[d], ![d] = cell[u]]
          BY <1>1, <3>1, <4>1, <5>1
        <5> QED BY <1>2, <5>1, <5>2
      <4>5. HashTypes'  BY <1>8, <4>4
      <4>6. \A j \in KeptAt : cell'[Pos(j)'] = words[j] % 12289
        <5> TAKE j \in KeptAt
        <5>1. CASE j = i
          BY <1>1, <2>1, <2>3, <4>1, <4>4, <5>1 DEF Placed
        <5>2. CASE j # i
          <6>1. Pos(j) # u /\ Pos(j) # u - p /\ Pos(j)' = Pos(j) /\ Pos(j) \in Cells
            BY <1>1, <2>2, <4>2, <5>2, PosCell
          <6> QED BY <1>1, <4>4, <6>1 DEF Placed
        <5> QED BY <5>1, <5>2
      <4>7. \A c \in Cells : Valid(cell'[c]) => \E j \in KeptAt : Pos(j)' = c
        <5> TAKE c \in Cells
        <5> HAVE Valid(cell'[c])
        <5>1. CASE c = u - p
          BY <2>3, <4>1, <5>1
        <5>2. CASE c # u - p
          <6>1. c # u  BY <4>2, <4>4
          <6>2. cell'[c] = cell[c]  BY <4>4, <5>2, <6>1
          <6>3. PICK j \in KeptAt : Pos(j) = c  BY <1>1, <6>2 DEF Placed
          <6>4. j # i  BY <2>1, <6>1, <6>3
          <6> QED BY <2>2, <6>3, <6>4
        <5> QED BY <5>1, <5>2
      <4>8. Placed'
        <5>1. Len(words) = m  BY <1>1 DEF Placed
        <5>2. KeptAt' = KeptAt /\ words' = words /\ v' = Cardinality(Passed')  BY <1>1, <1>3, <2>4
        <5> QED BY <4>6, <4>7, <5>1, <5>2, PlacedNext
      <4> QED BY <4>5, <4>8
    <3>2. CASE ~Moves(cell[u], u - v)
      <4>1. Far(i) = u /\ cell' = cell  BY <1>1, <2>1, <3>2, Choice
      <4>2. HashTypes'  BY <1>2, <1>8, <4>1
      <4>3. \A j \in KeptAt : Pos(j)' = Pos(j)  BY <2>1, <2>2, <2>3, <4>1
      <4>4. Placed'
        <5>1. /\ Len(words) = m
              /\ \A j \in KeptAt : cell[Pos(j)] = words[j] % 12289
              /\ \A c \in Cells : Valid(cell[c]) => \E j \in KeptAt : Pos(j) = c
          BY <1>1 DEF Placed
        <5>2. KeptAt' = KeptAt /\ words' = words /\ v' = Cardinality(Passed')  BY <1>1, <1>3, <2>4
        <5>3. /\ \A j \in KeptAt : cell'[Pos(j)'] = words[j] % 12289
              /\ \A c \in Cells : Valid(cell'[c]) => \E j \in KeptAt : Pos(j)' = c
          BY <4>1, <4>3, <5>1
        <5> QED BY <5>1, <5>2, <5>3, PlacedNext
      <4> QED BY <4>2, <4>4
    <3> QED BY <3>1, <3>2
  <2> QED BY <1>1, <1>5, <2>5 DEF HInv
<1>7. CASE ~Valid(cell[u])
  <2>1. cell' = cell /\ v' = v  BY <1>1, <1>7 DEF Moves, Next_v
  <2>2. \A j \in KeptAt : Near(j) < u + 1 <=> Near(j) < u
    <3> TAKE j \in KeptAt
    <3>1. Near(j) # u
      <4> SUFFICES ASSUME Near(j) = u PROVE FALSE  OBVIOUS
      <4>1. ~(u < u)  BY <1>2, SMT
      <4>2. Pos(j) = u  BY <4>1 DEF Pos
      <4> QED BY <1>1, <1>7, <4>2, PosCell
    <3> QED BY <1>2, <1>4, <3>1, SMT
  <2>3. Passed' = Passed /\ \A j \in KeptAt : Pos(j)' = Pos(j)
    BY <1>3, <2>2 DEF Passed, Pos
  <2>4. HashTypes'  BY <1>2, <1>8, <2>1
  <2>5. Placed'
    <3>1. /\ Len(words) = m /\ v = Cardinality(Passed)
          /\ \A j \in KeptAt : cell[Pos(j)] = words[j] % 12289
          /\ \A c \in Cells : Valid(cell[c]) => \E j \in KeptAt : Pos(j) = c
      BY <1>1 DEF Placed
    <3>2. KeptAt' = KeptAt /\ words' = words /\ v' = Cardinality(Passed')
      <4>1. v' = v /\ Passed' = Passed /\ v = Cardinality(Passed)  BY <2>1, <2>3, <3>1
      <4>2. v' = Cardinality(Passed')  BY <4>1, Zenon
      <4> QED BY <1>1, <1>3, <4>2
    <3>3. /\ \A j \in KeptAt : cell'[Pos(j)'] = words[j] % 12289
          /\ \A c \in Cells : Valid(cell'[c]) => \E j \in KeptAt : Pos(j)' = c
      BY <2>1, <2>3, <3>1
    <3> QED BY <3>1, <3>2, <3>3, PlacedNext
  <2> QED BY <1>1, <1>5, <2>4, <2>5 DEF HInv
<1> QED BY <1>6, <1>7

(* The end of a pass: every value is at its place for the next stride. *)
LEMMA NextPassStep ==
  ASSUME HInv, NextPass
  PROVE  HInv'
<1>1. /\ loop = "squeeze" /\ u = m /\ u' = 0 /\ v' = 0 /\ p' = 2 * p
      /\ loop' = (IF 2 * p <= over THEN "squeeze" ELSE "done")
      /\ words' = words /\ cell' = cell /\ point' = point
      /\ HashTypes /\ Filling /\ Collected /\ Placed
  BY DEF NextPass, HInv
<1>2. /\ u \in Nat /\ p \in Nat /\ p >= 1 /\ p <= over /\ over \in Nat /\ m \in Nat
      /\ Len(words) = m
  BY <1>1, SizesType DEF HashTypes, Placed
<1>3. /\ KeptAt' = KeptAt
      /\ \A j \in KeptAt : Near(j)' = Far(j) /\ Far(j)' = Spot(words, 2 * (2 * p), j)
      /\ \A j \in KeptAt : Pos(j)' = IF Near(j)' < u' THEN Far(j)' ELSE Near(j)'
      /\ Passed' = {j \in KeptAt : Far(j) < 0}
  BY <1>1 DEF KeptAt, Near, Far, Pos, Passed
<1>4. \A j \in KeptAt : Pos(j) = Far(j) /\ ~(Far(j) < 0)
  <2> TAKE j \in KeptAt
  <2>1. /\ j \in Nat /\ j <= Len(words) /\ Near(j) \in Nat /\ Far(j) \in Nat
        /\ Near(j) <= j - 1
    BY <1>1, PlaceTypes
  <2>2. Near(j) < u /\ ~(Far(j) < 0)  BY <1>1, <1>2, <2>1, SMT
  <2> QED BY <2>2 DEF Pos
<1>5. \A j \in KeptAt : Pos(j)' = Pos(j)
  BY <1>1, <1>3, <1>4
<1>6. Passed' = {}  BY <1>3, <1>4
<1>7. HashTypes'
  <2>1. /\ p' \in Nat /\ p' >= 1 /\ p' <= 2 * over /\ (loop' # "done" => p' <= over)
        /\ u' \in Nat /\ u' <= m /\ v' \in Nat /\ v' <= u' /\ loop' \in {"squeeze", "done"}
    BY <1>1, <1>2, SMT
  <2> QED BY <1>1, <2>1 DEF HashTypes
<1>8. Placed'
  <2>1. /\ Len(words) = m
        /\ \A j \in KeptAt : cell[Pos(j)] = words[j] % 12289
        /\ \A c \in Cells : Valid(cell[c]) => \E j \in KeptAt : Pos(j) = c
    BY <1>1 DEF Placed
  <2>2. v' = Cardinality(Passed')  BY <1>1, <1>6, FS_EmptySet
  <2>3. KeptAt' = KeptAt /\ words' = words  BY <1>1, <1>3
  <2>4. /\ \A j \in KeptAt : cell'[Pos(j)'] = words[j] % 12289
        /\ \A c \in Cells : Valid(cell'[c]) => \E j \in KeptAt : Pos(j)' = c
    BY <1>1, <1>5, <2>1
  <2> QED BY <2>1, <2>2, <2>3, <2>4, PlacedNext
<1>9. Collected' /\ Filling'
  BY <1>1 DEF Collected, Filling
<1>10. loop' = "done" => p' > over /\ u' = 0
  BY <1>1, <1>2, SMT
<1> QED BY <1>1, <1>7, <1>8, <1>9, <1>10 DEF HInv

(* The words kept so far, and where the first n of them are. *)
LEMMA CollectsStep ==
  ASSUME NEW ws \in Seq(Words), NEW x, Collects(ws, x), NEW w \in Words
  PROVE  Collects(Append(ws, w), VartimeTurn(x, w))
<1> DEFINE l == Len(ws) + 1
           K == Cardinality(KeptIn(ws))
           xs == Append(ws, w)
           y  == VartimeTurn(x, w)
<1>1. w \in Nat  BY HashAssumption
<1>2. /\ KeptIn(xs) = IF Kept(w) THEN KeptIn(ws) \cup {l} ELSE KeptIn(ws)
      /\ Cardinality(KeptIn(xs)) = K + (IF Kept(w) THEN 1 ELSE 0)
      /\ \A i \in KeptIn(ws) : Rank(xs, i) = Rank(ws, i) /\ xs[i] = ws[i]
      /\ Rank(xs, l) = K /\ xs[l] = w
  BY RankAppend
<1>3. /\ K \in Nat /\ n \in Nat /\ x \in Seq(0..12288)
      /\ Len(x) = IF K < n THEN K ELSE n
      /\ \A k \in 1..Len(x) :
           \E i \in KeptIn(ws) : Rank(ws, i) = k - 1 /\ x[k] = ws[i] % 12289
  BY KeptType, SizesType DEF Collects
<1>4. y = IF Len(x) < n /\ Kept(w) THEN Append(x, w % 12289) ELSE x
  BY DEF VartimeTurn
<1> SUFFICES Collects(xs, y)  OBVIOUS
<1> HIDE DEF K, l, xs, y
<1>5. CASE Kept(w) /\ K < n
  <2>1. Len(x) = K /\ y = Append(x, w % 12289) /\ w % 12289 \in 0..12288
    BY <1>1, <1>3, <1>4, <1>5, ValueType, SMTT(30)
  <2>2. /\ y \in Seq(0..12288) /\ Len(y) = K + 1 /\ y[K + 1] = w % 12289
        /\ \A k \in 1..K : y[k] = x[k]
    BY <1>3, <2>1, SMTT(30)
  <2>3. Cardinality(KeptIn(xs)) = K + 1 /\ KeptIn(xs) = KeptIn(ws) \cup {l}  BY <1>2, <1>5
  <2>4. Len(y) = IF Cardinality(KeptIn(xs)) < n THEN Cardinality(KeptIn(xs)) ELSE n
    BY <1>3, <1>5, <2>2, <2>3, SMT
  <2>5. ASSUME NEW k \in 1..Len(y)
        PROVE  \E i \in KeptIn(xs) : Rank(xs, i) = k - 1 /\ y[k] = xs[i] % 12289
    <3>1. CASE k = K + 1
      <4>1. k - 1 = K  BY <1>3, <3>1, SMT
      <4>2. l \in KeptIn(xs) /\ Rank(xs, l) = k - 1 /\ y[k] = xs[l] % 12289
        BY <1>2, <2>2, <2>3, <3>1, <4>1
      <4> QED BY <4>2
    <3>2. CASE k # K + 1
      <4>1. k \in 1..K  BY <1>3, <2>2, <3>2, SMT
      <4>2. PICK i \in KeptIn(ws) : Rank(ws, i) = k - 1 /\ x[k] = ws[i] % 12289
        BY <1>3, <2>1, <4>1, SMTT(30)
      <4>3. i \in KeptIn(xs) /\ Rank(xs, i) = k - 1 /\ y[k] = xs[i] % 12289
        BY <1>2, <2>2, <2>3, <4>1, <4>2
      <4> QED BY <4>3
    <3> QED BY <3>1, <3>2
  <2> QED BY <2>2, <2>4, <2>5 DEF Collects
<1>6. CASE ~(Kept(w) /\ K < n)
  <2>1. y = x
    <3>1. Kept(w) => ~(Len(x) < n)  BY <1>3, <1>6, SMT
    <3> QED BY <1>4, <3>1
  <2>2. Len(y) = IF Cardinality(KeptIn(xs)) < n THEN Cardinality(KeptIn(xs)) ELSE n
    <3>1. CASE Kept(w)
      <4>1. Cardinality(KeptIn(xs)) = K + 1 /\ ~(K < n)  BY <1>2, <1>6, <3>1
      <4> QED BY <1>3, <2>1, <4>1, SMT
    <3>2. CASE ~Kept(w)
      <4>1. Cardinality(KeptIn(xs)) = K  BY <1>2, <3>2 DEF K
      <4> QED BY <1>3, <2>1, <4>1
    <3> QED BY <3>1, <3>2
  <2>3. ASSUME NEW k \in 1..Len(y)
        PROVE  \E i \in KeptIn(xs) : Rank(xs, i) = k - 1 /\ y[k] = xs[i] % 12289
    <3>1. PICK i \in KeptIn(ws) : Rank(ws, i) = k - 1 /\ x[k] = ws[i] % 12289
      BY <1>3, <2>1
    <3>2. i \in KeptIn(xs) /\ Rank(xs, i) = k - 1 /\ y[k] = xs[i] % 12289
      BY <1>2, <2>1, <3>1
    <3> QED BY <3>2
  <2>4. y \in Seq(0..12288)  BY <1>3, <2>1
  <2> QED BY <2>2, <2>3, <2>4 DEF Collects
<1> QED BY <1>5, <1>6

LEMMA ReducedType ==
  ASSUME NEW w \in Words
  PROVE  /\ Reduced(w) \in CellValues
         /\ Kept(w) => Reduced(w) = w % 12289
         /\ Valid(Reduced(w)) => Kept(w)
<1>1. w \in Nat /\ w < 65536  BY HashAssumption
<1>2. w % 12289 \in 0..12288  BY <1>1, ValueType
<1>3. CASE Kept(w)
  <2>1. Reduced(w) = w % 12289  BY <1>1, <1>3, ReducedIsResidue
  <2> QED BY <1>2, <1>3, <2>1, SMTT(30) DEF CellValues
<1>4. CASE ~Kept(w)
  <2>1. Reduced(w) = Bad /\ ~Valid(Reduced(w))  BY <1>1, <1>4, ReducedIsResidue
  <2> QED BY <1>4, <2>1 DEF CellValues
<1> QED BY <1>3, <1>4

(* A word has been read. *)
LEMMA ReadStep ==
  ASSUME HInv, Read
  PROVE  HInv'
<1>1. PICK w \in Words : /\ words' = Append(words, w)
                         /\ cell'  = [cell EXCEPT ![u] = Reduced(w)]
                         /\ point' = VartimeTurn(point, w)
  BY DEF Read
<1>2. /\ loop = "read" /\ p' = p /\ v' = v
      /\ IF u + 1 < m THEN u' = u + 1 /\ loop' = "read" ELSE u' = 0 /\ loop' = "squeeze"
      /\ HashTypes /\ Filling /\ Collected
  BY DEF Read, HInv
<1>3. /\ words \in Seq(Words) /\ Len(words) \in Nat /\ Len(words) < m /\ u = Len(words)
      /\ p = 1 /\ v = 0 /\ cell \in [Cells -> CellValues]
      /\ \A c \in Cells : cell[c] = IF c < Len(words) THEN Reduced(words[c + 1]) ELSE Bad
  BY <1>2 DEF HashTypes, Filling
<1>4. /\ words' \in Seq(Words) /\ Len(words') = Len(words) + 1
      /\ words'[Len(words) + 1] = w /\ \A i \in 1..Len(words) : words'[i] = words[i]
  BY <1>1, <1>3, SMT
<1>5. u \in Cells  BY <1>3, SizesType, SMT DEF Cells
<1>6. cell' \in [Cells -> CellValues]  BY <1>1, <1>3, <1>5, ReducedType
<1>7. \A c \in Cells : cell'[c] = IF c < Len(words') THEN Reduced(words'[c + 1]) ELSE Bad
  <2> TAKE c \in Cells
  <2>1. c \in Nat  BY SizesType, SMT DEF Cells
  <2>2. CASE c = u
    <3>1. c < Len(words') /\ c + 1 = Len(words) + 1  BY <1>3, <1>4, <2>2, SMT
    <3> QED BY <1>1, <1>3, <1>4, <1>5, <2>2, <3>1
  <2>3. CASE c # u
    <3>1. cell'[c] = cell[c]  BY <1>1, <1>3, <2>3
    <3>2. c < Len(words') <=> c < Len(words)  BY <1>3, <1>4, <2>1, <2>3, SMT
    <3>3. c < Len(words) => c + 1 \in 1..Len(words)  BY <1>3, <2>1, SMT
    <3> QED BY <1>3, <1>4, <3>1, <3>2, <3>3
  <2> QED BY <2>2, <2>3
<1>8. Collected'  BY <1>1, <1>2, <1>3, CollectsStep DEF Collected
<1>9. CASE u + 1 < m
  <2>1. u' = u + 1 /\ loop' = "read"  BY <1>2, <1>9
  <2>2. HashTypes'
    <3>1. /\ Len(words') <= m /\ p' \in Nat /\ p' >= 1 /\ p' <= 2 * over /\ p' <= over
          /\ u' \in Nat /\ u' <= m /\ v' \in Nat /\ v' <= u'
      BY <1>2, <1>3, <1>4, <1>9, <2>1, SizesType, SMT
    <3> QED BY <1>4, <1>6, <2>1, <3>1 DEF HashTypes
  <2>3. u' = Len(words') /\ u' < m  BY <1>3, <1>4, <1>9, <2>1, SMT
  <2>4. Filling'  BY <1>2, <1>3, <1>7, <2>1, <2>3 DEF Filling
  <2> QED BY <1>8, <2>1, <2>2, <2>4 DEF HInv
<1>10. CASE ~(u + 1 < m)
  <2>1. u' = 0 /\ loop' = "squeeze"  BY <1>2, <1>10
  <2>2. Len(words') = m  BY <1>3, <1>4, <1>10, SizesType, SMT
  <2>3. HashTypes'
    <3>1. /\ Len(words') <= m /\ p' \in Nat /\ p' >= 1 /\ p' <= 2 * over /\ p' <= over
          /\ u' \in Nat /\ u' <= m /\ v' \in Nat /\ v' <= u'
      BY <1>2, <1>3, <2>1, <2>2, SizesType, SMT
    <3> QED BY <1>4, <1>6, <2>1, <3>1 DEF HashTypes
  <2>4. ASSUME NEW i \in KeptAt'
        PROVE  /\ i \in Nat /\ i >= 1 /\ i <= m /\ words'[i] \in Words /\ Kept(words'[i])
               /\ Near(i)' = i - 1 /\ Pos(i)' = i - 1 /\ i - 1 \in Cells
    <3>1. i \in KeptIn(words') /\ i \in 1..Len(words') /\ words'[i] \in Words
      BY <1>4, <2>4, SMT DEF KeptAt, KeptIn
    <3>2. i \in Nat /\ i >= 1 /\ i <= m /\ Kept(words'[i])  BY <1>4, <2>2, <3>1, KeptType
    <3>3. Rank(words', i) \in Nat /\ Gap(words', i) \in Nat  BY <1>4, <3>2, RankType
    <3>4. Left(Gap(words', i), 1) = Gap(words', i)  BY <3>3, LeftEnds
    <3>5. Spot(words', 1, i) = i - 1  BY <3>2, <3>3, <3>4, SMT DEF Spot, Gap
    <3>6. Near(i)' = i - 1  BY <1>2, <1>3, <3>5 DEF Near
    <3>7. Pos(i)' = i - 1
      <4>1. ~(i - 1 < 0)  BY <3>2, SMT
      <4>2. Pos(i)' = IF Near(i)' < u' THEN Far(i)' ELSE Near(i)'  BY DEF Pos
      <4> QED BY <2>1, <3>6, <4>1, <4>2
    <3>8. i - 1 \in Cells  BY <3>2, SizesType, SMT DEF Cells
    <3> QED BY <3>1, <3>2, <3>6, <3>7, <3>8
  <2>5. \A i \in KeptAt' : cell'[Pos(i)'] = words'[i] % 12289
    <3> TAKE i \in KeptAt'
    <3>1. i - 1 < Len(words') /\ (i - 1) + 1 = i  BY <2>2, <2>4, SMT
    <3> QED BY <1>7, <2>4, <3>1, ReducedType
  <2>6. \A c \in Cells : Valid(cell'[c]) => \E i \in KeptAt' : Pos(i)' = c
    <3> TAKE c \in Cells
    <3> HAVE Valid(cell'[c])
    <3>1. c \in Nat /\ c < Len(words') /\ c + 1 \in 1..Len(words') /\ (c + 1) - 1 = c
      BY <2>2, SizesType, SMT DEF Cells
    <3>2. words'[c + 1] \in Words  BY <1>4, <3>1
    <3>3. Kept(words'[c + 1])  BY <1>7, <3>1, <3>2, ReducedType
    <3>4. c + 1 \in KeptAt'  BY <3>1, <3>3 DEF KeptAt, KeptIn
    <3> QED BY <2>4, <3>1, <3>4
  <2>7. v' = Cardinality(Passed')
    <3>1. \A i \in KeptAt' : ~(Near(i)' < u')
      <4> TAKE i \in KeptAt'
      <4>1. ~(i - 1 < 0)  BY <2>4, SMT
      <4> QED BY <2>1, <2>4, <4>1
    <3>2. Passed' = {}  BY <3>1 DEF Passed
    <3> QED BY <1>2, <1>3, <3>2, FS_EmptySet
  <2>8. Placed'
    <3>1. v' = Cardinality(Passed)'  BY <2>7
    <3> QED BY <2>2, <2>5, <2>6, <3>1, SMT DEF Placed
  <2>9. Filling'  BY <2>1 DEF Filling
  <2> QED BY <1>8, <2>1, <2>3, <2>8, <2>9 DEF HInv
<1> QED BY <1>9, <1>10

LEMMA HashStep ==
  ASSUME HInv, Hash
  PROVE  HInv'
<1>1. /\ loop = "idle" /\ loop' = "read"
      /\ words' = words /\ cell' = cell /\ p' = p /\ u' = u /\ v' = v /\ point' = point
      /\ HashTypes /\ Filling /\ Collected
  BY DEF Hash, HInv
<1>2. u = Len(words) /\ u < m
  <2>1. words = <<>> /\ u = 0  BY <1>1 DEF Filling
  <2> QED BY <2>1, SizesType, SMT
<1>3. HashTypes' /\ Filling' /\ Collected'
  BY <1>1, <1>2 DEF HashTypes, Filling, Collected
<1> QED BY <1>1, <1>3 DEF HInv

LEMMA HashFrame ==
  ASSUME HInv, UNCHANGED pointVars
  PROVE  HInv'
<1>1. /\ loop' = loop /\ words' = words /\ cell' = cell /\ p' = p /\ u' = u /\ v' = v
      /\ point' = point /\ HashTypes /\ Filling /\ Collected
  BY DEF pointVars, HInv
<1>2. HashTypes' /\ Filling' /\ Collected'
  BY <1>1 DEF HashTypes, Filling, Collected
<1>3. Placed => Placed'
  <2> SUFFICES ASSUME Placed PROVE Placed'  OBVIOUS
  <2>1. /\ KeptAt' = KeptAt /\ Passed' = Passed /\ \A j \in KeptAt : Pos(j)' = Pos(j)
    BY <1>1 DEF KeptAt, Passed, Pos, Near, Far
  <2>2. /\ Len(words) = m /\ v = Cardinality(Passed)
        /\ \A j \in KeptAt : cell[Pos(j)] = words[j] % 12289
        /\ \A c \in Cells : Valid(cell[c]) => \E j \in KeptAt : Pos(j) = c
    BY DEF Placed
  <2>3. v' = Cardinality(Passed')
    <3>1. v' = v /\ Passed' = Passed /\ v = Cardinality(Passed)  BY <1>1, <2>1, <2>2
    <3> QED BY <3>1, Zenon
  <2>4. /\ \A j \in KeptAt : cell'[Pos(j)'] = words[j] % 12289
        /\ \A c \in Cells : Valid(cell'[c]) => \E j \in KeptAt : Pos(j)' = c
    BY <1>1, <2>1, <2>2
  <2>5. KeptAt' = KeptAt /\ words' = words /\ Len(words) = m  BY <1>1, <2>1, <2>2
  <2> QED BY <2>3, <2>4, <2>5, PlacedNext
<1> QED BY <1>1, <1>2, <1>3 DEF HInv

LEMMA HashInit == Init => HInv
<1> SUFFICES ASSUME Init PROVE HInv  OBVIOUS
<1>1. /\ loop = "idle" /\ words = <<>> /\ cell = [i \in Cells |-> Bad]
      /\ p = 1 /\ u = 0 /\ v = 0 /\ point = <<>>
  BY DEF Init
<1>2. HashTypes
  <2>1. /\ Len(words) <= m /\ p \in Nat /\ p >= 1 /\ p <= 2 * over /\ p <= over
        /\ u \in Nat /\ u <= m /\ v \in Nat /\ v <= u
    BY <1>1, SizesType, SMT
  <2>2. cell \in [Cells -> CellValues]  BY <1>1 DEF CellValues
  <2>3. words \in Seq(Words)  BY <1>1
  <2> QED BY <1>1, <2>1, <2>2, <2>3 DEF HashTypes
<1>3. Filling
  <2>1. \A c \in Cells : ~(c < 0)  BY SizesType, SMT DEF Cells
  <2>2. Len(words) = 0  BY <1>1
  <2> QED BY <1>1, <2>1, <2>2 DEF Filling
<1>4. Collected
  <2>1. KeptIn(words) = {}  BY <1>1 DEF KeptIn
  <2>2. Cardinality(KeptIn(words)) = 0 /\ 0 < n  BY <2>1, FS_EmptySet, SizesType, SMT
  <2>3. point \in Seq(0..12288) /\ Len(point) = 0  BY <1>1
  <2> QED BY <2>2, <2>3, SMT DEF Collected, Collects
<1> QED BY <1>1, <1>2, <1>3, <1>4 DEF HInv

LEMMA HashInvariance == HInv /\ [Next]_vars => HInv'
<1> SUFFICES ASSUME HInv, [Next]_vars PROVE HInv'  OBVIOUS
<1>1. CASE Context  BY <1>1, HashFrame DEF Context
<1>2. CASE Hash     BY <1>2, HashStep
<1>3. CASE Read     BY <1>3, ReadStep
<1>4. CASE Squeeze  BY <1>4, SqueezeStep
<1>5. CASE NextPass BY <1>5, NextPassStep
<1>6. CASE UNCHANGED vars
  <2>1. UNCHANGED pointVars  BY <1>6 DEF vars
  <2> QED BY <2>1, HashFrame
<1> QED BY <1>1, <1>2, <1>3, <1>4, <1>5, <1>6 DEF Next

-----------------------------------------------------------------------------
(* In every pass the cell a value is moved to holds a rejected word, as the *)
(* comment of hash_to_point_ct says: no swap ever loses a kept value.      *)
THEOREM CompactionFree == Spec => []FreeDestination
<1>1. HInv => FreeDestination
  <2> SUFFICES ASSUME HInv, loop = "squeeze", u < m, u >= p, Moves(cell[u], u - v)
               PROVE  ~Valid(cell[u - p])
    BY DEF FreeDestination
  <2>1. HashTypes /\ Placed /\ Valid(cell[u])  BY DEF HInv, Moves
  <2>2. PICK i \in KeptAt : Near(i) = u /\ v = Rank(words, i)  BY <2>1, AtHand
  <2>3. Far(i) = u - p  BY <2>1, <2>2, Choice
  <2> QED BY <2>1, <2>2, <2>3, DestinationFree
<1> QED BY <1>1, HashInit, HashInvariance, PTL DEF Spec

(* After every step of every pass the valid cells hold the kept words in    *)
(* the order in which they were read, none lost and none doubled.          *)
THEOREM CompactionOrder == Spec => []OrderKept
<1>1. HInv => OrderKept
  <2> DEFINE valid == {c \in Cells : Valid(cell[c])}
  <2> SUFFICES ASSUME HInv, loop \in {"squeeze", "done"}
               PROVE  /\ Cardinality(valid) = Cardinality(KeptAt)
                      /\ \A c \in valid, i \in KeptAt :
                           Below(valid, c) = Below(KeptAt, i) => cell[c] = words[i] % 12289
    BY DEF OrderKept, KeptAt, KeptIn
  <2>1. HashTypes /\ Placed  BY DEF HInv
  <2> DEFINE f == [i \in KeptAt |-> Pos(i)]
  <2>2. KeptAt \in SUBSET Nat /\ IsFiniteSet(KeptAt)
    BY <2>1, KeptType DEF HashTypes, KeptAt
  <2>3. f \in [KeptAt -> Nat]  BY <2>1, PlaceOrder
  <2>4. \A i, j \in KeptAt : i < j => f[i] < f[j]  BY <2>1, PlaceOrder
  <2>5. valid = {f[i] : i \in KeptAt}
    <3>1. \A c \in valid : \E i \in KeptAt : c = f[i]  BY <2>1 DEF Placed
    <3>2. \A i \in KeptAt : f[i] \in valid  BY <2>1, PosCell
    <3> QED BY <3>1, <3>2
  <2> HIDE DEF valid, f
  <2>6. /\ Cardinality(valid) = Cardinality(KeptAt)
        /\ \A i \in KeptAt : Below(valid, f[i]) = Below(KeptAt, i)
    BY <2>2, <2>3, <2>4, <2>5, BelowImage
  <2>7. ASSUME NEW c \in valid, NEW i \in KeptAt, Below(valid, c) = Below(KeptAt, i)
        PROVE  cell[c] = words[i] % 12289
    <3>1. PICK j \in KeptAt : c = f[j]  BY <2>5
    <3>2. Rank(words, j) = Rank(words, i)  BY <2>6, <2>7, <3>1 DEF Rank, KeptAt
    <3>3. i \in Nat /\ j \in Nat /\ Rank(words, i) \in Nat /\ Rank(words, j) \in Nat
      BY <2>1, PlaceTypes
    <3>4. /\ i < j => Rank(words, i) < Rank(words, j)
          /\ j < i => Rank(words, j) < Rank(words, i)
      BY <2>1, SpotOrder DEF HashTypes, KeptAt
    <3>5. i = j  BY <3>2, <3>3, <3>4, SMT
    <3> QED BY <2>1, <3>1, <3>5 DEF f, Placed
  <2> QED BY <2>6, <2>7
<1> QED BY <1>1, HashInit, HashInvariance, PTL DEF Spec

(* Whenever the words read are enough for hash_to_point_vartime, the point  *)
(* it returns is the one hash_to_point_ct leaves in x[], for every degree,  *)
(* every oversampling and every pattern of rejected words.                 *)
THEOREM CompactionAgrees == Spec => []SamePoint
<1>1. HInv => SamePoint
  <2> SUFFICES ASSUME HInv, loop = "done", Len(point) = n
               PROVE  [i \in 1..n |-> cell[i - 1]] = point
    BY DEF SamePoint
  <2>1. HashTypes /\ Placed /\ Collected /\ p > over /\ u = 0  BY DEF HInv
  <2>2. /\ words \in Seq(Words) /\ Len(words) = m /\ p \in Nat /\ p >= 1
    BY <2>1 DEF HashTypes, Placed
  <2>3. /\ point \in Seq(0..12288) /\ Cardinality(KeptAt) \in Nat /\ n <= Cardinality(KeptAt)
        /\ \A k \in 1..n :
             \E i \in KeptAt : Rank(words, i) = k - 1 /\ point[k] = words[i] % 12289
    <3>1. /\ Len(point) = IF Cardinality(KeptAt) < n THEN Cardinality(KeptAt) ELSE n
          /\ point \in Seq(0..12288)
          /\ \A k \in 1..n :
               \E i \in KeptAt : Rank(words, i) = k - 1 /\ point[k] = words[i] % 12289
      BY <2>1 DEF Collected, Collects, KeptAt
    <3>2. Cardinality(KeptAt) \in Nat  BY <2>2, KeptType DEF KeptAt
    <3> QED BY <3>1, <3>2, SizesType, SMT
  <2>4. ASSUME NEW k \in 1..n PROVE cell[k - 1] = point[k]
    <3>1. PICK i \in KeptAt : Rank(words, i) = k - 1 /\ point[k] = words[i] % 12289
      BY <2>3
    <3>2. i \in Nat /\ i >= 1 /\ i <= m /\ Gap(words, i) \in Nat
      BY <2>1, <2>2, PlaceTypes, RankType
    <3>3. Gap(words, i) <= over
      <4>1. m + 1 \in Nat /\ m + 1 >= 1 /\ i < m + 1 /\ (m + 1) - 1 = m
        BY <3>2, SizesType, SMT
      <4>2. Gap(words, i) <= Gap(words, m + 1)  BY <2>2, <3>2, <4>1, RankStep
      <4>3. Rank(words, m + 1) = Cardinality(KeptAt)
        <5>1. \A j \in KeptAt : j < m + 1
          <6> TAKE j \in KeptAt
          <6>1. j \in Nat /\ j <= m  BY <2>1, <2>2, PlaceTypes
          <6> QED BY <6>1, SizesType, SMT
        <5>2. {j \in KeptAt : j < m + 1} = KeptAt  BY <5>1
        <5> QED BY <5>2 DEF Rank, Below, KeptAt
      <4>4. Gap(words, m + 1) = m - Cardinality(KeptAt)  BY <4>1, <4>3 DEF Gap
      <4> QED BY <2>3, <3>2, <4>2, <4>4, SizesType, SMT
    <3>4. Left(Gap(words, i), p) = 0
      <4>1. Gap(words, i) < p  BY <2>1, <2>2, <3>2, <3>3, SizesType, SMT
      <4> QED BY <2>2, <3>2, <4>1, LeftEnds
    <3>5. Pos(i) = k - 1
      <4>1. Near(i) = k - 1  BY <3>1, <3>4, SMT DEF Near, Spot
      <4>2. ~(k - 1 < u)  BY <2>1, SMT
      <4> QED BY <4>1, <4>2 DEF Pos
    <3> QED BY <2>1, <3>1, <3>5 DEF Placed
  <2>5. point = [k \in 1..n |-> point[k]]  BY <2>3
  <2> QED BY <2>4, <2>5
<1> QED BY <1>1, HashInit, HashInvariance, PTL DEF Spec

-----------------------------------------------------------------------------
(* The callers stay within the bounds on what is injected and extracted,   *)
(* the calls in progress counted.                                          *)
Budget ==
  /\ total <= MaxIn /\ taken <= MaxOut
  /\ pc = "inject" => total + left <= MaxIn
  /\ pc = "extract" => taken + Len(read) + left <= MaxOut

BlockType == \A c \in RateCells : block[c] \subseteq (-2)..(MaxIn - 1)

LEMMA XorType ==
  ASSUME NEW X, NEW A \in SUBSET X, NEW x \in X
  PROVE  Xor(A, x) \subseteq X
BY DEF Xor

LEMMA InjectTurnBudget ==
  ASSUME IInv, Budget, BlockType, InjectTurn
  PROVE  Budget' /\ BlockType'
<1>1. /\ pc = "inject" /\ mode = "in" /\ left \in Nat /\ left >= 1 /\ total \in Nat /\ taken \in Nat
  BY DEF InjectTurn, IInv, Types, Called
<1>2. PICK q \in Nat, d \in Nat : Injected(q, d)  BY <1>1 DEF IInv, Absorbing
<1>3. dptr = d /\ d \in Nat /\ d < Rate /\ Rate \in Nat  BY <1>2, RateType DEF Injected
<1>4. PICK clen \in Nat : clen = Piece(dptr) /\ clen <= left
  <2>1. Piece(dptr) \in Nat /\ Piece(dptr) <= left  BY <1>1, <1>3, SMT DEF Piece
  <2> QED BY <2>1, Zenon
<1>5. /\ total' = total + clen /\ left' = left - clen /\ taken' = taken /\ read' = read
      /\ pc' \in {"idle", "inject"}
      /\ block' = Clear \/ block' = Absorbed(clen)
  BY <1>4 DEF InjectTurn
<1>6. total + left <= MaxIn /\ taken <= MaxOut /\ MaxIn \in Nat  BY <1>1, RateAssumption DEF Budget
<1>7. Budget'
  <2>1. total' <= MaxIn /\ total' + left' <= MaxIn  BY <1>1, <1>4, <1>5, <1>6, SMT
  <2>2. pc' # "extract"  BY <1>5
  <2> QED BY <1>5, <1>6, <2>1, <2>2 DEF Budget
<1>8. BlockType'
  <2>1. ASSUME NEW c \in RateCells PROVE Absorbed(clen)[c] \subseteq (-2)..(MaxIn - 1)
    <3>1. block[c] \in SUBSET ((-2)..(MaxIn - 1))  BY DEF BlockType
    <3>2. CASE c \in dptr..(dptr + clen - 1)
      <4>1. total + c - dptr \in (-2)..(MaxIn - 1)
        BY <1>1, <1>3, <1>4, <1>6, <3>2, SMT
      <4>2. Absorbed(clen)[c] = Xor(block[c], total + c - dptr)  BY <3>2 DEF Absorbed
      <4> QED BY <3>1, <4>1, <4>2, XorType
    <3>3. CASE c \notin dptr..(dptr + clen - 1)
      BY <3>1, <3>3 DEF Absorbed
    <3> QED BY <3>2, <3>3
  <2> QED BY <1>5, <2>1 DEF BlockType, Clear
<1> QED BY <1>7, <1>8

LEMMA FlipBudget ==
  ASSUME IInv, Budget, BlockType, Flip
  PROVE  Budget' /\ BlockType'
<1>1. /\ pc = "idle" /\ mode = "in" /\ pc' = pc /\ left' = left /\ read' = read
      /\ total' = total /\ taken' = taken
  BY DEF Flip
<1>2. PICK q \in Nat, d \in Nat : Injected(q, d)  BY <1>1 DEF IInv, Absorbing
<1>3. DOMAIN block = RateCells /\ MaxIn \in Nat
  BY <1>2, RateAssumption DEF Injected, MessageBlock
<1> DEFINE padded == [block EXCEPT ![dptr] = Xor(@, X1F)]
<1>4. block' = [padded EXCEPT ![Rate - 1] = Xor(@, X80)]  BY DEF Flip
<1>5. X1F \in (-2)..(MaxIn - 1) /\ X80 \in (-2)..(MaxIn - 1)  BY <1>3, SMT DEF X1F, X80
<1>6. ASSUME NEW c \in RateCells PROVE padded[c] \in SUBSET ((-2)..(MaxIn - 1))
  <2>1. block[c] \in SUBSET ((-2)..(MaxIn - 1))  BY DEF BlockType
  <2>2. padded[c] = IF c = dptr THEN Xor(block[c], X1F) ELSE block[c]  BY <1>3
  <2> QED BY <1>5, <2>1, <2>2, XorType
<1>7. ASSUME NEW c \in RateCells PROVE block'[c] \subseteq (-2)..(MaxIn - 1)
  <2>1. DOMAIN padded = RateCells  BY <1>3
  <2> HIDE DEF padded
  <2>2. block'[c] = IF c = Rate - 1 THEN Xor(padded[c], X80) ELSE padded[c]  BY <1>4, <2>1
  <2> QED BY <1>5, <1>6, <2>2, XorType
<1> QED BY <1>1, <1>7 DEF Budget, BlockType

LEMMA ExtractTurnBudget ==
  ASSUME IInv, Budget, BlockType, ExtractTurn
  PROVE  Budget' /\ BlockType'
<1>1. /\ pc = "extract" /\ mode = "out" /\ left \in Nat /\ left >= 1 /\ total \in Nat /\ taken \in Nat
  BY DEF ExtractTurn, IInv, Types, Called
<1>2. PICK e \in Nat, g \in Nat : Reading(e, g)  BY <1>1 DEF IInv, Squeezing
<1>3. /\ dptr \in Nat /\ dptr >= 1 /\ dptr <= Rate /\ Rate \in Nat
      /\ Len(read) = g /\ read = [i \in 1..g |-> StreamByte(total, taken + i - 1)]
  BY <1>2, RateType, SMT DEF Reading
<1> DEFINE d == IF dptr = Rate THEN 0 ELSE dptr
           c == IF dptr = Rate THEN Append(chain, block) ELSE chain
           b == IF dptr = Rate THEN Clear ELSE block
<1>4. PICK clen \in Nat : clen = Piece(d) /\ clen <= left
  <2>1. Piece(d) \in Nat /\ Piece(d) <= left  BY <1>1, <1>3, SMT DEF Piece
  <2> QED BY <2>1, Zenon
<1>5. PICK bytes : bytes = read \o [i \in 1..clen |-> At(c, b, d + i - 1)]
  OBVIOUS
<1>6. /\ block' = b /\ left' = left - clen /\ total' = total
      /\ IF clen = left
         THEN pc' = "idle" /\ read' = <<>> /\ taken' = taken + Len(bytes)
         ELSE pc' = pc /\ read' = bytes /\ taken' = taken
  BY <1>4, <1>5, Zenon DEF ExtractTurn
<1>7. Len(bytes) = g + clen
  <2>1. PICK rest : rest = [i \in 1..clen |-> At(c, b, d + i - 1)]  OBVIOUS
  <2>2. rest = [i \in 1..clen |-> rest[i]] /\ read = [i \in 1..g |-> read[i]]  BY <1>3, <2>1
  <2> QED BY <1>5, <2>1, <2>2, SMTT(30)
<1>8. taken + g + left <= MaxOut /\ total <= MaxIn /\ MaxOut \in Nat
  BY <1>1, <1>3, RateAssumption DEF Budget
<1>9. Budget'
  <2>1. CASE clen = left
    <3>1. taken' <= MaxOut /\ pc' = "idle" /\ total' <= MaxIn
      BY <1>1, <1>6, <1>7, <1>8, <2>1, SMT
    <3> QED BY <3>1 DEF Budget
  <2>2. CASE clen # left
    <3>1. /\ pc' = "extract" /\ total' <= MaxIn /\ taken' <= MaxOut
          /\ taken' + Len(read') + left' <= MaxOut
      BY <1>1, <1>4, <1>6, <1>7, <1>8, <2>2, SMT
    <3> QED BY <3>1 DEF Budget
  <2> QED BY <2>1, <2>2
<1>10. BlockType'  BY <1>6 DEF BlockType, Clear
<1> QED BY <1>9, <1>10

LEMMA CallBudget ==
  ASSUME IInv, Budget, BlockType, NEW len \in Nat, Inject(len) \/ Extract(len)
  PROVE  Budget' /\ BlockType'
<1>1. /\ block' = block /\ total' = total /\ taken' = taken /\ left' = len
      /\ read = <<>> /\ taken \in Nat /\ total \in Nat
  BY DEF Inject, Extract, IInv, Called, Types
<1>2. CASE Inject(len)
  <2>1. total + len <= MaxIn /\ pc' \in {"idle", "inject"}  BY <1>2 DEF Inject
  <2> QED BY <1>1, <2>1 DEF Budget, BlockType
<1>3. CASE Extract(len)
  <2>1. taken + len <= MaxOut /\ pc' \in {"idle", "extract"} /\ read' = <<>>
    BY <1>3 DEF Extract
  <2>2. taken' + Len(read') + left' <= MaxOut  BY <1>1, <2>1, SMT
  <2> QED BY <1>1, <2>1, <2>2 DEF Budget, BlockType
<1> QED BY <1>2, <1>3

LEMMA ReinitBudget ==
  ASSUME IInv, Budget, BlockType, Reinit
  PROVE  Budget' /\ BlockType'
<1>1. pc' = "idle" /\ total' = 0 /\ taken' = 0 /\ block' = Clear /\ 0 <= MaxIn /\ 0 <= MaxOut
  BY RateAssumption, SMT DEF Reinit
<1> QED BY <1>1 DEF Budget, BlockType, Clear

LEMMA BudgetInvariance == IInv /\ Budget /\ BlockType /\ [Next]_vars => Budget' /\ BlockType'
<1> SUFFICES ASSUME IInv, Budget, BlockType, [Next]_vars PROVE Budget' /\ BlockType'
  OBVIOUS
<1>1. CASE UNCHANGED shakeVars
  BY <1>1 DEF shakeVars, Budget, BlockType
<1>2. CASE Reinit       BY <1>2, ReinitBudget
<1>3. CASE InjectTurn   BY <1>3, InjectTurnBudget
<1>4. CASE Flip         BY <1>4, FlipBudget
<1>5. CASE ExtractTurn  BY <1>5, ExtractTurnBudget
<1>6. CASE \E len \in Nat : Inject(len) \/ Extract(len)
  BY <1>6, CallBudget
<1> QED BY <1>1, <1>2, <1>3, <1>4, <1>5, <1>6, ContextSteps

(* Every reachable state of the context and of the hash functions is well  *)
(* typed: dptr inside the block, at the end of it only after the flip,     *)
(* cells residues or the mark, u and v inside the array, and no stride     *)
(* beyond twice the oversampling.                                          *)
THEOREM TypeCorrect == Spec => []TypeOK
<1>1. Init => IInv /\ Budget /\ BlockType /\ HInv
  <2> SUFFICES ASSUME Init PROVE IInv /\ Budget /\ BlockType /\ HInv  OBVIOUS
  <2>1. IInv /\ HInv  BY Initial, HashInit DEF Init
  <2>2. pc = "idle" /\ total = 0 /\ taken = 0 /\ block = Clear /\ 0 <= MaxIn /\ 0 <= MaxOut
    BY RateAssumption, SMT DEF Init, ShakeInit
  <2> QED BY <2>1, <2>2 DEF Budget, BlockType, Clear
<1>2. IInv /\ Budget /\ BlockType /\ HInv => TypeOK
  <2> SUFFICES ASSUME IInv, Budget, BlockType, HInv PROVE TypeOK  OBVIOUS
  <2>1. ShakeTypeOK
    <3>1. /\ pc \in {"idle", "inject", "extract"} /\ mode \in {"in", "out"}
          /\ left \in Nat /\ total \in Nat /\ taken \in Nat
      BY DEF IInv, Types
    <3>2. total \in 0..MaxIn /\ taken \in 0..MaxOut
      BY <3>1, RateAssumption, SMT DEF Budget
    <3>3. dptr \in 0..Rate /\ (mode = "in" => dptr < Rate)
      <4>1. CASE mode = "in"
        <5>1. PICK q \in Nat, d \in Nat : Injected(q, d)  BY <4>1 DEF IInv, Absorbing
        <5>2. dptr = d /\ d < Rate  BY <5>1 DEF Injected
        <5> QED BY <5>2, RateType, SMT
      <4>2. CASE mode = "out"
        <5>1. PICK e \in Nat, g \in Nat : Reading(e, g)  BY <4>2 DEF IInv, Squeezing
        <5>2. dptr \in 1..Rate  BY <5>1 DEF Reading
        <5> QED BY <4>2, <5>2, RateType, SMT
      <4> QED BY <3>1, <4>1, <4>2
    <3> QED BY <3>1, <3>2, <3>3 DEF ShakeTypeOK, BlockType
  <2>2. HashTypes /\ Collected  BY DEF HInv
  <2>3. p \in 1..(2 * over) /\ u \in 0..m /\ v \in 0..u
    <3>1. p \in Nat /\ p >= 1 /\ p <= 2 * over /\ u \in Nat /\ u <= m /\ v \in Nat /\ v <= u
      BY <2>2 DEF HashTypes
    <3> QED BY <3>1, SizesType, SMT
  <2>4. point \in Seq(0..12288) /\ Len(point) <= n
    <3>1. /\ point \in Seq(0..12288)
          /\ Len(point) = IF Cardinality(KeptIn(words)) < n THEN Cardinality(KeptIn(words)) ELSE n
      BY <2>2 DEF Collected, Collects
    <3>2. Cardinality(KeptIn(words)) \in Nat  BY <2>2, KeptType DEF HashTypes
    <3> QED BY <3>1, <3>2, SizesType, SMT
  <2>5. /\ loop \in {"idle", "read", "squeeze", "done"}
        /\ words \in Seq(Words) /\ Len(words) <= m /\ cell \in [Cells -> CellValues]
    BY <2>2 DEF HashTypes
  <2> QED BY <2>1, <2>3, <2>4, <2>5 DEF TypeOK
<1> QED BY <1>1, <1>2, Invariance, BudgetInvariance, HashInvariance, PTL DEF Spec
=============================================================================
