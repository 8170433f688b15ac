------------------------------- MODULE Codec --------------------------------
(***************************************************************************)
(* The encodings of falcon-lazy/codec.c: fixed-width fields (modq, trim)   *)
(* and the compressed format of signature values (comp).  Encoders push    *)
(* bits into a 32-bit accumulator and write a byte whenever there are      *)
(* eight of them; decoders read the same fields and insist that the unused *)
(* bits of the last byte be zero.                                          *)
(*                                                                         *)
(* A buffer is a sequence of bytes; the accumulator is the sequence of its *)
(* significant bits, the highest first.  A function of the code that       *)
(* returns 0 is an operator that returns <<>>, or Refused.                 *)
(***************************************************************************)
EXTENDS Integers, SequencesExt

AccBits     == 32             (* the width of acc                           *)
Byte        == 0..255
Coefficient == (-2047)..2047  (* what the compressed format can hold        *)

(* The k low bits of a value, in two's complement, the highest first. *)
Bits(v, k) == [i \in 1..k |-> (v \div 2^(k - i)) % 2]

Value(bits) ==
  LET v[i \in 0..Len(bits)] == IF i = 0 THEN 0 ELSE 2 * v[i - 1] + bits[i]
  IN  v[Len(bits)]

ByteBits(buf) ==
  [i \in 1..(8 * Len(buf)) |-> (buf[(i - 1) \div 8 + 1] \div 2^(7 - ((i - 1) % 8))) % 2]

Bytes(k) == (k + 7) \div 8    (* bytes that hold k bits                     *)

Zeros(k) == [i \in 1..k |-> 0]

-----------------------------------------------------------------------------
(* The loop that all encoders share: some bits are pushed into acc, and    *)
(* its full bytes are written, len of its bits being still to write.       *)
Push(st, piece) ==
  LET all   == st.acc \o piece
      acc   == SubSeq(all, Len(all) - AccBits + 1, Len(all))
      len   == st.len + Len(piece)
      bit(k) == IF k < AccBits THEN acc[AccBits - k] ELSE 0
      byte(j) == Value([i \in 1..8 |-> bit(len - 8 * j + 8 - i)])
  IN  [acc |-> acc, len |-> len % 8,
       buf |-> st.buf \o [j \in 1..(len \div 8) |-> byte(j)]]

(* All the pieces are pushed, then what is left of acc is written. *)
Written(pieces) ==
  LET pushed[i \in 0..Len(pieces)] ==
        IF i = 0 THEN [acc |-> Zeros(AccBits), len |-> 0, buf |-> <<>>]
        ELSE Push(pushed[i - 1], pieces[i])
      st   == pushed[Len(pieces)]
      rest == SubSeq(st.acc, AccBits - st.len + 1, AccBits) \o Zeros(8 - st.len)
  IN  IF st.len = 0 THEN st.buf ELSE Append(st.buf, Value(rest))

(* modq_encode, and trim_i8_encode or trim_i16_encode. *)
modq_encode(x, room) ==
  IF (\E u \in DOMAIN x : x[u] >= 12289) \/ Bytes(14 * Len(x)) > room THEN <<>>
  ELSE Written([u \in DOMAIN x |-> Bits(x[u], 14)])

trim_encode(x, bits, room) ==
  LET maxv == 2^(bits - 1) - 1
  IN  IF (\E u \in DOMAIN x : x[u] \notin (-maxv)..maxv) \/ Bytes(bits * Len(x)) > room
      THEN <<>>
      ELSE Written([u \in DOMAIN x |-> Bits(x[u], bits)])

(* One value of the compressed format: the sign, seven low bits, the high  *)
(* part in unary.                                                          *)
CompPiece(t) ==
  LET w == IF t < 0 THEN -t ELSE t
  IN  <<IF t < 0 THEN 1 ELSE 0>> \o Bits(w, 7) \o Zeros(w \div 128) \o <<1>>

(* A bug: the limit of the accumulator is not that of the values. *)
comp_encode_Limit(x, room) ==
  IF \E u \in DOMAIN x : x[u] \notin (-4095)..4095 THEN <<>>
  ELSE LET out == Written([u \in DOMAIN x |-> CompPiece(x[u])])
       IN  IF Len(out) > room THEN <<>> ELSE out

(* comp_encode gives up on the byte that has no room. *)
comp_encode(x, room) ==
  IF \E u \in DOMAIN x : x[u] \notin Coefficient THEN <<>>
  ELSE LET out == Written([u \in DOMAIN x |-> CompPiece(x[u])])
       IN  IF Len(out) > room THEN <<>> ELSE out

-----------------------------------------------------------------------------
(* What a decoder finds: its values, and v bytes consumed. *)
Refused == [x |-> <<>>, v |-> 0]

(* Are the bits after the first k zero, up to the end of their byte? *)
PaddedWithZeros(s, k) == \A i \in (k + 1)..(8 * Bytes(k)) : s[i] = 0

modq_decode(buf, count) ==
  LET s == ByteBits(buf)
      x == [u \in 1..count |-> Value(SubSeq(s, 14 * (u - 1) + 1, 14 * u))]
  IN  IF Bytes(14 * count) > Len(buf) THEN Refused
      ELSE IF (\E u \in 1..count : x[u] >= 12289) \/ ~PaddedWithZeros(s, 14 * count)
      THEN Refused ELSE [x |-> x, v |-> Bytes(14 * count)]

(* The most negative value of the width is forbidden. *)
trim_decode(buf, bits, count) ==
  LET s == ByteBits(buf)
      w(u) == Value(SubSeq(s, bits * (u - 1) + 1, bits * u))
      x == [u \in 1..count |-> IF w(u) >= 2^(bits - 1) THEN w(u) - 2^bits ELSE w(u)]
  IN  IF Bytes(bits * count) > Len(buf) THEN Refused
      ELSE IF (\E u \in 1..count : x[u] = -(2^(bits - 1))) \/ ~PaddedWithZeros(s, bits * count)
      THEN Refused ELSE [x |-> x, v |-> Bytes(bits * count)]

(* A bug: -0 is read as 0. *)
CompValue_MinusZero(s, st) ==
  LET p    == st.p
      ones == {i \in (p + 9)..Len(s) : s[i] = 1}
      stop == Min(ones)
      m    == Value(SubSeq(s, p + 2, p + 8)) + 128 * (stop - (p + 9))
  IN  IF p = -1 \/ p + 8 > Len(s) \/ ones = {} \/ m > 2047
      THEN [st EXCEPT !.p = -1]
      ELSE [x |-> Append(st.x, IF s[p + 1] = 1 THEN -m ELSE m), p |-> stop]

(* One value of comp_decode, from bit p of s on: st.p is -1 once there has *)
(* been an error.  "-0" and values over 2047 are errors, and so is the end *)
(* of the buffer, which is met when a byte is needed and there is none.    *)
CompValue(s, st) ==
  LET p    == st.p
      ones == {i \in (p + 9)..Len(s) : s[i] = 1}
      stop == Min(ones)
      m    == Value(SubSeq(s, p + 2, p + 8)) + 128 * (stop - (p + 9))
      neg  == s[p + 1] = 1
  IN  IF p = -1 \/ p + 8 > Len(s) \/ ones = {} THEN [st EXCEPT !.p = -1]
      ELSE IF m > 2047 \/ (neg /\ m = 0) THEN [st EXCEPT !.p = -1]
      ELSE [x |-> Append(st.x, IF neg THEN -m ELSE m), p |-> stop]

comp_decode(buf, count) ==
  LET s  == ByteBits(buf)
      read[u \in 0..count] ==
        IF u = 0 THEN [x |-> <<>>, p |-> 0] ELSE CompValue(s, read[u - 1])
      st == read[count]
  IN  IF st.p = -1 THEN Refused
      ELSE IF ~PaddedWithZeros(s, st.p) THEN Refused
      ELSE [x |-> st.x, v |-> Bytes(st.p)]
=============================================================================
