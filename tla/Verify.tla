------------------------------- MODULE Verify -------------------------------
(***************************************************************************)
(* What a verifier does with bytes (falcon-lazy/falcon.c and vrfy.c): the  *)
(* public key and the signature value are decoded, the key is brought to   *)
(* the NTT in Montgomery form, and verify_raw computes s2*h - c0 there and *)
(* back, centres it, and tests the norm.  The arrays h, sv and tt are the  *)
(* code's; a transform takes one step per layer, as the loops do.          *)
(*                                                                         *)
(* The bytes are those that falcon_make_public derives from a private key  *)
(* and that a signer's encoder makes of a signature value, with bits       *)
(* flipped on the way, if any.                                             *)
(***************************************************************************)
EXTENDS Mq, Codec

CONSTANTS
  Cases,   (* the calls: a key, a signature value, its format, a hash, ...  *)
  Null

(* int8_t arrays of key coefficients, int16_t arrays of values. *)
SmallPoly == [Index -> (-127)..127]
Int16     == (-32768)..32767
ValuePoly == [Index -> Int16]

(* A private key f, g with its F and G; the signature value, its format    *)
(* and the room for it; the hashed point; the bits flipped in either.      *)
ASSUME CasesAssumption ==
  \A c \in Cases :
    /\ {c.f, c.g, c.F, c.G} \subseteq SmallPoly
    /\ c.s2 \in ValuePoly /\ c.c0 \in [Index -> Zq]
    /\ c.type \in {"compressed", "padded", "ct"} /\ c.room \in Nat
    /\ c.keyflips \subseteq Nat /\ c.sigflips \subseteq Nat

(* Bounds of the squared norm for degrees 2 to 16, and the widths of the   *)
(* CT format.                                                              *)
l2bound      == <<101498, 208714, 428865, 892039>>
max_sig_bits == <<10, 11, 11, 12>>

SIZE   == -2
FORMAT == -3
BADSIG == -4

VARIABLES
  pc,    (* the stage of the call                                          *)
  call,  (* what was given to it                                           *)
  pk,    (* the bytes of the public key                                    *)
  body,  (* the bytes of the signature value                               *)
  h,     (* h[]                                                            *)
  sv,    (* sv[]                                                           *)
  tt,    (* tt[]                                                           *)
  m,     (* the loop variable of a transform                               *)
  ret    (* what was returned, Null before                                 *)

vars == <<pc, call, pk, body, h, sv, tt, m, ret>>

Init ==
  /\ call \in Cases /\ pc = "make"
  /\ pk = <<>> /\ body = <<>> /\ h = Null /\ sv = Null /\ tt = Null /\ m = 0 /\ ret = Null

Return(code) == pc' = "done" /\ ret' = code

AsSeq(a)  == [u \in 1..n |-> a[u - 1]]
AsPoly(x) == [k \in Index |-> x[k + 1]]

(* The bits of a buffer at these places are flipped. *)
Flipped(bytes, places) ==
  LET s == ByteBits(bytes)
      bit(k) == IF k \in places THEN 1 - s[k] ELSE s[k]
  IN  [j \in DOMAIN bytes |-> Value([i \in 1..8 |-> bit(8 * (j - 1) + i)])]

(* falcon_make_public. *)
MakePublic ==
  /\ pc = "make"
  /\ LET r == compute_public(call.f, call.g)
     IN  IF r.ok
         THEN /\ pk' = Flipped(modq_encode(AsSeq(r.val), Bytes(14 * n)), call.keyflips)
              /\ pc' = "encode" /\ UNCHANGED ret
         ELSE Return(FORMAT) /\ UNCHANGED pk
  /\ UNCHANGED <<call, body, h, sv, tt, m>>

(* The end of falcon_sign_{dyn,tree}_finish: a value that does not fit is  *)
(* not sent.                                                               *)
Encode ==
  /\ pc = "encode"
  /\ LET e == IF call.type = "ct"
              THEN trim_encode(AsSeq(call.s2), max_sig_bits[logn], call.room)
              ELSE comp_encode(AsSeq(call.s2), call.room)
         pad == IF call.type = "padded" THEN Zeros(call.room - Len(e)) ELSE <<>>
     IN  IF e = <<>> THEN Return(SIZE) /\ UNCHANGED body
         ELSE body' = Flipped(e \o pad, call.sigflips) /\ pc' = "key" /\ UNCHANGED ret
  /\ UNCHANGED <<call, pk, h, sv, tt, m>>

DecodeKey ==
  /\ pc = "key"
  /\ LET r == modq_decode(pk, n)
     IN  IF Len(pk) # Bytes(14 * n) \/ r.v # Len(pk) THEN Return(FORMAT) /\ UNCHANGED h
         ELSE h' = AsPoly(r.x) /\ pc' = "value" /\ UNCHANGED ret
  /\ UNCHANGED <<call, pk, body, sv, tt, m>>

(* Extra bytes of value 0 are tolerated in the padded format. *)
DecodeValue ==
  /\ pc = "value"
  /\ LET r    == IF call.type = "ct" THEN trim_decode(body, max_sig_bits[logn], n)
                 ELSE comp_decode(body, n)
         rest == SubSeq(body, r.v + 1, Len(body))
     IN  IF r.v = 0 \/ (rest # <<>> /\ call.type # "padded")
                    \/ \E i \in DOMAIN rest : rest[i] # 0
         THEN Return(FORMAT) /\ UNCHANGED <<sv, m>>
         ELSE sv' = AsPoly(r.x) /\ m' = 1 /\ pc' = "ntt h" /\ UNCHANGED ret
  /\ UNCHANGED <<call, pk, body, h, tt>>

(* to_ntt_monty *)
TransformKey ==
  /\ pc = "ntt h"
  /\ h' = NttLayer(h, m) /\ m' = 2 * m
  /\ pc' = IF m' < n THEN pc ELSE "monty"
  /\ UNCHANGED <<call, pk, body, sv, tt, ret>>

ToMonty ==
  /\ pc = "monty"
  /\ h' = mq_poly_tomonty(h)
  /\ pc' = "load"
  /\ UNCHANGED <<call, pk, body, sv, tt, m, ret>>

(* verify_raw: s2 modulo q. *)
Load ==
  /\ pc = "load"
  /\ tt' = mq_poly_conv(sv) /\ m' = 1 /\ pc' = "ntt s2"
  /\ UNCHANGED <<call, pk, body, h, sv, ret>>

TransformValue ==
  /\ pc = "ntt s2"
  /\ tt' = NttLayer(tt, m) /\ m' = 2 * m
  /\ pc' = IF m' < n THEN pc ELSE "product"
  /\ UNCHANGED <<call, pk, body, h, sv, ret>>

Product ==
  /\ pc = "product"
  /\ tt' = mq_poly_montymul_ntt(tt, h) /\ m' = n \div 2 /\ pc' = "intt"
  /\ UNCHANGED <<call, pk, body, h, sv, ret>>

(* m: the blocks that are left. *)
TransformBack ==
  /\ pc = "intt"
  /\ tt' = InttLayer(tt, m) /\ m' = m \div 2
  /\ pc' = IF m' > 0 THEN pc ELSE "scale"
  /\ UNCHANGED <<call, pk, body, h, sv, ret>>

Rescale ==
  /\ pc = "scale"
  /\ tt' = Scale(tt) /\ pc' = "sub"
  /\ UNCHANGED <<call, pk, body, h, sv, m, ret>>

SubPoint ==
  /\ pc = "sub"
  /\ tt' = mq_poly_sub(tt, call.c0) /\ pc' = "norm"
  /\ UNCHANGED <<call, pk, body, h, sv, m, ret>>

Centered(w) == IF w > Q \div 2 THEN w - Q ELSE w

(* The sum of the cells of an array. *)
SumOf(a) ==
  LET s[k \in 0..n] == IF k = 0 THEN 0 ELSE s[k - 1] + a[k - 1]
  IN  s[n]

SqNorm(a) == SumOf([k \in Index |-> a[k] * a[k]])

Judge ==
  /\ pc = "norm"
  /\ LET s == SqNorm([k \in Index |-> Centered(tt[k])]) + SqNorm(sv)
     IN  Return(IF s <= 3 * l2bound[logn] THEN 0 ELSE BADSIG)
  /\ UNCHANGED <<call, pk, body, h, sv, tt, m>>

Next ==
  \/ MakePublic \/ Encode \/ DecodeKey \/ DecodeValue
  \/ TransformKey \/ ToMonty
  \/ Load \/ TransformValue \/ Product \/ TransformBack \/ Rescale \/ SubPoint
  \/ Judge

Spec == Init /\ [][Next]_vars

-----------------------------------------------------------------------------
(* Every word of the transforms is a residue: the masked corrections never *)
(* see a value they do not correct, and uint16_t never cuts one.  Decoded  *)
(* values have 12 bits, whatever the bytes are.                            *)
TypeOK ==
  /\ pk \in Seq(Byte) /\ body \in Seq(Byte)
  /\ sv = Null \/ sv \in [Index -> Coefficient]
  /\ h = Null \/ h \in [Index -> Zq]
  /\ tt = Null \/ tt \in [Index -> Zq]
  /\ ret \in {Null, 0, SIZE, FORMAT, BADSIG}

(* The product of the ring Z_q[X]/(X^n + 1). *)
RingMul(a, b) ==
  [k \in Index |->
     SumOf([i \in Index |-> (IF i <= k THEN a[i] * b[k - i]
                             ELSE -(a[i] * b[k - i + n])) % Q]) % Q]

Residues(a) == [k \in Index |-> a[k] % Q]

(* The private keys are NTRU keys, f*G - g*F = q, here modulo q: keygen    *)
(* keeps no others (keygen.c:4046-4088).                                   *)
ASSUME NtruAssumption ==
  \A key \in {[f |-> c.f, g |-> c.g, F |-> c.F, G |-> c.G] : c \in Cases} :
    RingMul(Residues(key.f), Residues(key.G)) = RingMul(Residues(key.g), Residues(key.F))

(* The residue of least absolute value. *)
Least(w) == CHOOSE z \in (-(Q \div 2))..(Q \div 2) : (z - w) % Q = 0

(* The public key as it is in its bytes, whatever h[] holds by now. *)
PublicKey == AsPoly(modq_decode(pk, n).x)

(* s1 of the signature equation s1 + s2*h = c0. *)
S1 == LET p == RingMul(Residues(sv), PublicKey)
      IN  [k \in Index |-> Least(call.c0[k] - p[k])]

(* The verdict of verify_raw, that went through two transforms in          *)
(* Montgomery form, one of them undone, is that of the signature equation  *)
(* over the ring, for the key and the value that are in the bytes.         *)
VerdictOfEquation ==
  pc = "done" /\ ret \in {0, BADSIG} =>
    (ret = 0 <=> SqNorm(S1) + SqNorm(sv) <= 3 * l2bound[logn])

(* A signature value and a key have one encoding: bytes that are decoded   *)
(* are those the encoder writes for what was read, whatever was flipped.   *)
OneEncoding ==
  pc = "ntt h" /\ m = 1 =>
    LET e == IF call.type = "ct" THEN trim_encode(AsSeq(sv), max_sig_bits[logn], Len(body))
             ELSE comp_encode(AsSeq(sv), Len(body))
    IN  /\ pk = modq_encode(AsSeq(h), Len(pk))
        /\ IsPrefix(e, body) /\ e # <<>>
        /\ \A i \in DOMAIN body : i > Len(e) => body[i] = 0 /\ call.type = "padded"

(* What is encoded and arrives as it was sent is decoded to the same       *)
(* value; only a value out of the format's range or too long for the room  *)
(* is not encoded.                                                         *)
Size(x) == Bytes(SumOf([k \in Index |-> Len(CompPiece(x[k]))]))

Encodable ==
  IF call.type = "ct"
  THEN LET top == 2^(max_sig_bits[logn] - 1)
       IN  (\A k \in Index : -top < call.s2[k] /\ call.s2[k] < top)
           /\ Bytes(n * max_sig_bits[logn]) <= call.room
  ELSE (\A k \in Index : -2048 < call.s2[k] /\ call.s2[k] < 2048)
       /\ Size(call.s2) <= call.room

Arrives ==
  /\ pc = "done" /\ ret = SIZE => ~Encodable
  /\ sv # Null => Encodable
  /\ sv # Null /\ call.sigflips = {} => sv = call.s2
  /\ pc = "done" /\ ret = FORMAT /\ compute_public(call.f, call.g).ok
       => call.sigflips # {} \/ call.keyflips # {}

(* The three inversions of vrfy.c agree.  The key made of f and g times f  *)
(* is g; completing f, g and F gives the G with f*G - g*F = q; and         *)
(* verify_recover finds the verifier's key again in a signature it accepts *)
(* whose s2 is_invertible.                                                 *)
KeyRecovered ==
  /\ pc = "encode" /\ call.keyflips = {} =>
       /\ RingMul(PublicKey, Residues(call.f)) = Residues(call.g)
       /\ complete_private(call.f, call.g, call.F) = [ok |-> TRUE, val |-> call.G]
  /\ pc = "done" /\ ret = 0 /\ is_invertible(sv) =>
       verify_recover(call.c0, S1, sv) = PublicKey
=============================================================================
