----------------------------- MODULE FalconApi -----------------------------
(***************************************************************************)
(* The streamed signing and verification API of falcon-lazy/falcon.c as a  *)
(* caller drives it: start a context, inject the data in chunks, finish.   *)
(* One caller owns the SHAKE256 context hash_data, the buffer sig[] with   *)
(* its *sig_len, and the temporary area, where the hashed point hm and the *)
(* signature value sv share their storage.                                 *)
(*                                                                         *)
(* A hashed point is the data it was squeezed from and how much had been   *)
(* squeezed before.  A signature value is the point it is a short preimage *)
(* of, with the size of its compressed encoding (0: it has none) and       *)
(* whether the CT format can hold it.                                      *)
(***************************************************************************)
EXTENDS Integers, Sequences, FiniteSetsExt

CONSTANTS
  Logn,       (* the degree of the keys at hand                            *)
  Nonces,     (* nonces that falcon_sign_start may draw                    *)
  Chunks,     (* chunks of data                                            *)
  MaxChunks,  (* bound: chunks injected into one context                   *)
  CompSizes,  (* sizes of compressed values, 0 for "not encodable"         *)
  Caps,       (* sizes of the buffer sig[]                                 *)
  Lens,       (* lengths a signature may have when it reaches the verifier *)
  Finishers,  (* the finishing functions called: "dyn", "tree", "lazy"     *)
  Null

ASSUME ApiAssumption ==
  /\ Logn \in 1..10 /\ MaxChunks \in Nat
  /\ CompSizes \subseteq Nat /\ Caps \subseteq Nat /\ Lens \subseteq Nat
  /\ Finishers \subseteq {"dyn", "tree", "lazy"}

(* Error codes, signature types and signature headers of falcon.h. *)
SIZE == -2
FORMAT == -3
BADSIG == -4
BADARG == -5
COMPRESSED == 1
PADDED == 2
CT == 3
HdrComp == 48
HdrCt == 80

(* FALCON_SIG_PADDED_SIZE and FALCON_SIG_CT_SIZE. *)
PaddedSize ==
  LET part(k) == k \div 2^(10 - Logn)
  IN  44 + 3 * part(256) + 2 * part(128) + 3 * part(64) + 2 * part(16)
         - 2 * part(2) - 8 * part(1)
CtSize == 3 * 2^(Logn - 1) - (IF Logn = 3 THEN 1 ELSE 0) + 41

VARIABLES
  pc,      (* "idle" between calls; "hash" and "sign" in a finishing loop   *)
  hd,      (* hash_data                                                    *)
  saved,   (* sav_hash_data                                                *)
  buf,     (* hm, or sv once it has been computed over it                  *)
  call,    (* the arguments of the finishing call in progress, or Null     *)
  sig,     (* what is in sig[]: a signature, its len being what *sig_len    *)
           (* was set to, or Null                                          *)
  ret      (* what the last call returned, Null during a call              *)

vars == <<pc, hd, saved, buf, call, sig, ret>>

NoContext == [mode |-> "unset", data |-> <<>>, used |-> 0]

(* Contexts, hashed points, values, and signatures in sig[]. *)
Items   == Nonces \cup Chunks
Context == [mode : {"unset", "in", "out"}, data : Seq(Items), used : Nat]
Points  == [data : Seq(Items), from : Nat]
Values  == [pt : Points, csize : CompSizes, fits : BOOLEAN]
Lengths == Lens \cup {PaddedSize} \cup {41 + v : v \in CompSizes \cup {CtSize - 41}}
Sigs    == [hdr : {0, HdrComp, HdrCt}, nonce : Items, val : Values, len : Lengths,
            tail : {"zeros", "junk"}]
Calls   == [fn : Finishers, type : {COMPRESSED, PADDED, CT}, cap : Caps,
            data : Seq(Items)]

ASSUME NullAssumption == Null \notin Sigs

Init ==
  /\ pc = "idle" /\ hd = NoContext /\ saved = NoContext
  /\ buf = Null /\ call = Null /\ sig = Null /\ ret = Null

Point(ctx) == [data |-> ctx.data, from |-> ctx.used]

(* The code of the first check that fails, 0 if none does. *)
FirstError(checks) ==
  LET failed == {i \in DOMAIN checks : checks[i][1]}
  IN  IF failed = {} THEN 0 ELSE checks[Min(failed)][2]

-----------------------------------------------------------------------------
(* falcon_sign_start: a new context has absorbed the nonce, which the      *)
(* caller keeps for the finishing call.  The caller has a new buffer.      *)
SignStart ==
  /\ pc = "idle"
  /\ \E r \in Nonces : hd' = [mode |-> "in", data |-> <<r>>, used |-> 0]
  /\ sig' = Null /\ ret' = 0
  /\ UNCHANGED <<pc, saved, buf, call>>

(* shake256_inject by the caller. *)
Inject(c) ==
  /\ pc = "idle" /\ hd.mode = "in" /\ Len(hd.data) <= MaxChunks
  /\ hd' = [hd EXCEPT !.data = Append(@, c)]
  /\ UNCHANGED <<pc, saved, buf, call, sig, ret>>

(* The checks of a finishing call, in order.  key is what is wrong with    *)
(* the private (or expanded) key, "ok" if nothing is; pub the same for the *)
(* public key, which only the lazy variant reads.                          *)
SignChecks(fn, type, cap, key, pub, small) ==
  << <<key \in {"empty", "header", "length"}, FORMAT>>,
     <<small, SIZE>>,
     <<cap < 41, SIZE>>,
     <<type = PADDED /\ cap < PaddedSize, SIZE>>,
     <<type = CT /\ cap < CtSize, SIZE>>,
     <<type \notin {COMPRESSED, PADDED, CT}, BADARG>>,
     <<key \in {"decode", "complete"}, FORMAT>>,
     <<fn = "lazy" /\ pub # "ok", FORMAT>> >>

(* What can be wrong with the key each variant is given: an expanded key   *)
(* has only its degree byte checked.                                       *)
KeyFaults(fn) ==
  IF fn = "tree" THEN {"ok", "header"}
  ELSE {"ok", "empty", "header", "length", "decode", "complete"}

(* The entry of falcon_sign_{dyn,tree,dyn_lazy}_finish: the checks, then   *)
(* the context is flipped and kept.                                        *)
SignFinish(fn, type, cap, key, pub, small) ==
  LET err == FirstError(SignChecks(fn, type, cap, key, pub, small))
  IN  /\ pc = "idle" /\ hd.mode = "in" /\ sig = Null
      /\ IF err # 0
         THEN /\ ret' = err
              /\ UNCHANGED <<pc, hd, saved, call>>
         ELSE /\ hd' = [hd EXCEPT !.mode = "out"]
              /\ saved' = hd'
              /\ call' = [fn |-> fn, type |-> type, cap |-> cap, data |-> hd.data]
              /\ pc' = "hash" /\ ret' = Null
      /\ UNCHANGED <<buf, sig>>

(* A bug: hash_data is not put back, a new attempt squeezes on. *)
HashPoint_NoRestore ==
  /\ pc = "hash"
  /\ buf' = Point(hd)
  /\ hd' = [hd EXCEPT !.used = @ + 1]
  /\ pc' = "sign"
  /\ UNCHANGED <<saved, call, sig, ret>>

(* The top of the loop: the context is put back and squeezed into hm. *)
HashPoint ==
  /\ pc = "hash"
  /\ buf' = Point(saved)
  /\ hd' = [saved EXCEPT !.used = @ + 1]
  /\ pc' = "sign"
  /\ UNCHANGED <<saved, call, sig, ret>>

(* The bytes an encoder produces for a value, 0 if it fails: comp_encode   *)
(* stops at the room it is given, trim_i16_encode has a fixed size.        *)
Encoded(type, cap, val) ==
  LET room == IF type = PADDED THEN PaddedSize - 41 ELSE cap - 41
  IN  IF type = CT THEN (IF val.fits THEN CtSize - 41 ELSE 0)
      ELSE IF val.csize <= room THEN val.csize ELSE 0

(* A bug: the CT format keeps the header of the others. *)
Header_Same(type) == HdrComp

Header(type) == IF type = CT THEN HdrCt ELSE HdrComp

(* A signature as it stands in sig[] or on the wire: tail says what        *)
(* follows the encoded value, if anything does.                            *)
Signature(hdr, r, val, len, tail) ==
  [hdr |-> hdr, nonce |-> r, val |-> val, len |-> len, tail |-> tail]

(* A bug: the padding is written but not counted. *)
Output_ShortLen(type, r, val, v) ==
  Signature(Header(type), r, val, 41 + v, "zeros")

(* What a finishing call of this type leaves in sig[] for a value encoded  *)
(* in v bytes.                                                             *)
Output(type, r, val, v) ==
  Signature(Header(type), r, val, IF type = PADDED THEN PaddedSize ELSE 41 + v,
            "zeros")

(* Bugs: a signature that does not fit is retried without hashing again;   *)
(* every failure is retried.                                               *)
AfterMisfit_NoRehash(type) == IF type = PADDED THEN "sign" ELSE "idle"
AfterMisfit_RetryAll(type) == "hash"

(* A value that does not fit: another attempt in the padded format, an     *)
(* error in the others.                                                    *)
AfterMisfit(type) == IF type = PADDED THEN "hash" ELSE "idle"

(* A finishing call returns; its local variables are gone. *)
Return(code) ==
  /\ pc' = "idle" /\ ret' = code
  /\ saved' = NoContext /\ buf' = Null /\ call' = Null

(* The rest of the loop body: sign over hm into sv, encode into sig[].  An  *)
(* attempt that fails leaves part of a signature there.                    *)
SignEncode(c, fits) ==
  LET val == [pt |-> buf, csize |-> c, fits |-> fits]
      v   == Encoded(call.type, call.cap, val)
  IN  /\ pc = "sign" /\ call.fn # "lazy"
      /\ IF v # 0
         THEN /\ sig' = Output(call.type, call.data[1], val, v)
              /\ Return(0)
         ELSE /\ sig' = Null
              /\ IF AfterMisfit(call.type) = "idle" THEN Return(SIZE)
                 ELSE /\ pc' = AfterMisfit(call.type) /\ buf' = val
                      /\ UNCHANGED <<saved, call, ret>>
      /\ UNCHANGED hd

(* falcon_sign_dyn_lazy_finish after its hash: the value is left in sv, and *)
(* 0 is returned.                                                          *)
SignLazy ==
  /\ pc = "sign" /\ call.fn = "lazy"
  /\ Return(0)
  /\ UNCHANGED <<hd, sig>>

-----------------------------------------------------------------------------
(* What the decoder of the signature's header consumes, 0 if it fails. *)
Decoded(s) ==
  LET body == IF s.hdr = HdrCt THEN (IF s.val.fits THEN CtSize - 41 ELSE 0)
              ELSE s.val.csize
  IN  IF body <= s.len - 41 THEN body ELSE 0

(* Between signer and verifier a signature can be transcoded: its value    *)
(* and nonce under another header, with another length and tail.           *)
(* Junk needs bytes of its own.                                            *)
Transcode(hdr, len, tail) ==
  /\ pc = "idle" /\ sig # Null
  /\ sig' = Signature(hdr, sig.nonce, sig.val, len, tail)
  /\ tail = "junk" => Decoded(sig') # 0 /\ len > 41 + Decoded(sig')
  /\ UNCHANGED <<pc, hd, saved, buf, call, ret>>

(* falcon_verify_start. *)
VerifyStart ==
  /\ pc = "idle" /\ sig # Null
  /\ IF sig.len < 41
     THEN ret' = FORMAT /\ UNCHANGED hd
     ELSE /\ ret' = 0
          /\ hd' = [mode |-> "in", data |-> <<sig.nonce>>, used |-> 0]
  /\ UNCHANGED <<pc, saved, buf, call, sig>>

(* A bug: trailing zeros are accepted in every format. *)
MayPad_Always(type, s) == TRUE

(* Are trailing zeros tolerated? *)
MayPad(type, s) == type = PADDED \/ (type = 0 /\ s.len = PaddedSize)

(* The checks of falcon_verify_finish that come before it hashes. *)
VerifyChecks(type, s, pub, small) ==
  << <<s.len < 41 \/ pub \in {"empty", "header"}, FORMAT>>,
     <<pub = "degree", BADSIG>>,
     <<type = 0 /\ s.hdr \notin {HdrComp, HdrCt}, BADSIG>>,
     <<type \in {COMPRESSED, PADDED} /\ s.hdr # HdrComp, FORMAT>>,
     <<type = CT /\ s.hdr # HdrCt, FORMAT>>,
     <<type = PADDED /\ s.len # PaddedSize, FORMAT>>,
     <<type \in {0, CT} /\ s.hdr = HdrCt /\ s.len # CtSize, FORMAT>>,
     <<type \notin {0, COMPRESSED, PADDED, CT}, BADARG>>,
     <<pub = "length", FORMAT>>,
     <<small, SIZE>>,
     <<pub = "decode", FORMAT>>,
     <<Decoded(s) = 0, FORMAT>>,
     <<41 + Decoded(s) # s.len /\ ~MayPad(type, s), FORMAT>>,
     <<41 + Decoded(s) # s.len /\ s.tail # "zeros", FORMAT>> >>

(* falcon_verify_finish: the checks, then the point is hashed and the value *)
(* compared with it (verify_raw).                                          *)
VerifyFinish(type, pub, small) ==
  LET err == FirstError(VerifyChecks(type, sig, pub, small))
  IN  /\ pc = "idle" /\ sig # Null /\ hd.mode = "in"
      /\ IF err # 0
         THEN ret' = err /\ UNCHANGED hd
         ELSE /\ hd' = [hd EXCEPT !.mode = "out", !.used = 1]
              /\ ret' = IF sig.val.pt = Point(hd) THEN 0 ELSE BADSIG
      /\ UNCHANGED <<pc, saved, buf, call, sig>>

SignTypes   == {COMPRESSED, PADDED, CT, 9}
PubFaults   == {"ok", "empty", "header", "degree", "length", "decode"}

Sign ==
  \/ SignStart
  \/ \E c \in Chunks : Inject(c)
  \/ \E fn \in Finishers, type \in SignTypes, cap \in Caps, small \in BOOLEAN :
       \E key \in KeyFaults(fn), pub \in IF fn = "lazy" THEN {"ok", "decode"} ELSE {"ok"} :
         SignFinish(fn, type, cap, key, pub, small)
  \/ HashPoint
  \/ \E c \in CompSizes, fits \in BOOLEAN : SignEncode(c, fits)
  \/ SignLazy

Verify ==
  \/ \E hdr \in {0, HdrComp, HdrCt}, len \in Lens, tail \in {"zeros", "junk"} :
       Transcode(hdr, len, tail)
  \/ VerifyStart
  \/ \E type \in SignTypes \cup {0}, pub \in PubFaults, small \in BOOLEAN :
       VerifyFinish(type, pub, small)

Next == Sign \/ Verify

(* The loop is one thread's.  Its strong fairness is that of the sampler:  *)
(* a value that fits is not avoided for ever.                              *)
FairLoop ==
  /\ WF_vars(HashPoint) /\ WF_vars(SignLazy)
  /\ WF_vars(\E c \in CompSizes, fits \in BOOLEAN : SignEncode(c, fits))
  /\ SF_vars(\E c \in CompSizes : c # 0 /\ c <= PaddedSize - 41 /\ SignEncode(c, TRUE))

Spec == Init /\ [][Next]_vars /\ FairLoop

-----------------------------------------------------------------------------
TypeOK ==
  /\ pc \in {"idle", "hash", "sign"}
  /\ \A ctx \in {hd, saved} :
       /\ ctx \in Context
       /\ ctx.used = 0 \/ (ctx.used = 1 /\ ctx.mode = "out")
       /\ Len(ctx.data) <= MaxChunks + 1
  /\ sig \in Sigs \cup {Null}
  /\ ret \in {0, SIZE, FORMAT, BADSIG, BADARG, Null}
  /\ IF pc = "idle" THEN call = Null /\ buf = Null /\ saved = NoContext
                    ELSE call \in Calls /\ ret = Null
  /\ pc = "sign" => buf \in Points

(* A finishing loop returns. *)
Ends == pc = "sign" /\ pc' = "idle"

(* sig[] holds a signature over everything the call was given, under the   *)
(* nonce that was hashed first, from a first squeeze.                      *)
Delivered ==
  /\ sig' # Null
  /\ sig'.nonce = call.data[1]
  /\ sig'.val.pt = [data |-> call.data, from |-> 0]

(* A call that returns 0 has signed its message, on whichever attempt: hm   *)
(* is hashed again on every one "because we overwrite the hash output with *)
(* the signature" (falcon.c:437-442), from the context as it was.          *)
SignedMessage == [][Ends /\ ret' = 0 /\ call.fn # "lazy" => Delivered]_vars

(* The same of the lazy variant, which falcon.h presents as a copy of      *)
(* sign_dyn and whose last comment is "Compute and encode signature"       *)
(* (falcon.c:630).                                                         *)
LazySignedMessage == [][Ends /\ ret' = 0 => Delivered]_vars

(* "*sig_len will be set to the actual length of the signature", fixed for *)
(* PADDED and CT, and never beyond the buffer (falcon.h).                  *)
DocumentedLengths ==
  [][Ends /\ ret' = 0 /\ call.fn # "lazy" =>
       /\ sig'.len <= call.cap
       /\ call.type = PADDED => sig'.len = PaddedSize
       /\ call.type = CT => sig'.len = CtSize]_vars

(* What a finishing call emits passes every check of falcon_verify_finish  *)
(* under its own type and under type 0, "inferred from the signature       *)
(* header byte".                                                           *)
RoundTrip ==
  [][Ends /\ ret' = 0 /\ call.fn # "lazy" =>
       \A type \in {0, call.type} :
         FirstError(VerifyChecks(type, sig', "ok", FALSE)) = 0]_vars

(* A signature that is accepted under an explicit type is, byte for byte,  *)
(* the one the signer of that type emits for its value: only type 0 is     *)
(* "malleable (since a signature value can be transcoded to other          *)
(* formats)" (falcon.h), and then only to what another type emits.         *)
Canonical ==
  [][\A type \in 0..3 :
       VerifyFinish(type, "ok", FALSE) /\ ret' = 0 =>
         \E t \in 1..3 :
           /\ type # 0 => t = type
           /\ sig = Output(t, sig.nonce, sig.val, Decoded(sig))]_vars

(* Every finishing call returns, however many padded attempts it takes. *)
EveryCallReturns == pc # "idle" ~> pc = "idle"
=============================================================================
