-------------------------- MODULE FalconApi_proofs --------------------------
(***************************************************************************)
(* What a finishing call of falcon.c delivers, for every degree, message,  *)
(* set of buffers and number of padded attempts.                           *)
(*                                                                         *)
(* The invariant is about a call in progress: the saved context is the one *)
(* the call was given, flipped and not yet squeezed, and when the signer   *)
(* runs, the buffer holds the first point of that context.  The loop only  *)
(* keeps it because a failed attempt goes back to HashPoint.               *)
(***************************************************************************)
EXTENDS FalconApi, TLAPS

HashedAnew ==
  /\ pc \in {"idle", "hash", "sign"}
  /\ hd \in Context
  /\ hd.mode = "in" => hd.used = 0 /\ hd.data # <<>>
  /\ pc = "idle" \/ /\ call.data \in Seq(Items) /\ call.data # <<>>
                    /\ saved = [mode |-> "out", data |-> call.data, used |-> 0]
  /\ pc = "sign" => buf = [data |-> call.data, from |-> 0]
  /\ sig # Null => sig.nonce \in Items

LEMMA HashedInit == Init => HashedAnew
BY DEF Init, HashedAnew, NoContext, Context

LEMMA HashedStep == HashedAnew /\ [Next]_vars => HashedAnew'
<1> SUFFICES ASSUME HashedAnew, [Next]_vars PROVE HashedAnew'
  OBVIOUS
<1>1. CASE SignStart
  <2>1. PICK r \in Nonces : hd' = [mode |-> "in", data |-> <<r>>, used |-> 0]
    BY <1>1 DEF SignStart
  <2>2. r \in Items
    BY DEF Items
  <2>3. hd' \in Context /\ hd'.used = 0 /\ hd'.data # <<>>
    BY <2>1, <2>2 DEF Context
  <2> QED
    BY <1>1, <2>3 DEF SignStart, HashedAnew
<1>2. ASSUME NEW c \in Chunks, Inject(c) PROVE HashedAnew'
  <2>1. c \in Items /\ hd.data \in Seq(Items)
    BY DEF HashedAnew, Context, Items
  <2>2. Append(hd.data, c) \in Seq(Items) /\ Append(hd.data, c) # <<>>
    BY <2>1
  <2>3. hd' = [hd EXCEPT !.data = Append(hd.data, c)]
    BY <1>2 DEF Inject
  <2>4. hd' \in Context /\ hd'.used = 0 /\ hd'.data # <<>>
    BY <1>2, <2>2, <2>3 DEF Inject, HashedAnew, Context
  <2> QED
    BY <1>2, <2>4 DEF Inject, HashedAnew
<1>3. ASSUME NEW fn \in Finishers, NEW type \in SignTypes, NEW cap \in Caps,
             NEW small \in BOOLEAN, NEW key, NEW pub,
             SignFinish(fn, type, cap, key, pub, small)
      PROVE HashedAnew'
  <2> DEFINE err == FirstError(SignChecks(fn, type, cap, key, pub, small))
  <2>1. CASE err # 0
    BY <1>3, <2>1 DEF SignFinish, HashedAnew
  <2>2. CASE err = 0
    <3>1. /\ hd' = [hd EXCEPT !.mode = "out"] /\ saved' = hd'
          /\ call' = [fn |-> fn, type |-> type, cap |-> cap, data |-> hd.data]
          /\ pc' = "hash" /\ hd.mode = "in" /\ sig' = sig
      BY <1>3, <2>2 DEF SignFinish
    <3>2. hd' = [mode |-> "out", data |-> hd.data, used |-> 0]
      BY <3>1 DEF HashedAnew, Context
    <3>3. hd' \in Context
      BY <3>2 DEF HashedAnew, Context
    <3> QED
      BY <3>1, <3>2, <3>3 DEF HashedAnew, Context
  <2> QED
    BY <2>1, <2>2
<1>4. CASE HashPoint
  <2>1. saved = [mode |-> "out", data |-> call.data, used |-> 0] /\ call.data \in Seq(Items)
    BY <1>4 DEF HashPoint, HashedAnew
  <2>2. hd' = [mode |-> "out", data |-> call.data, used |-> 1]
    BY <1>4, <2>1 DEF HashPoint
  <2>3. hd' \in Context
    BY <2>1, <2>2 DEF Context
  <2>4. buf' = [data |-> call.data, from |-> 0]
    BY <1>4, <2>1 DEF HashPoint, Point
  <2> QED
    BY <1>4, <2>2, <2>3, <2>4 DEF HashPoint, HashedAnew
<1>5. ASSUME NEW c \in CompSizes, NEW fits \in BOOLEAN, SignEncode(c, fits)
      PROVE HashedAnew'
  <2>1. call.data[1] \in Items
    BY <1>5 DEF SignEncode, HashedAnew
  <2>2. sig' # Null => sig'.nonce \in Items
    BY <1>5, <2>1 DEF SignEncode, Output, Signature
  <2>3. hd' = hd /\ pc' \in {"idle", "hash"}
    BY <1>5 DEF SignEncode, Return, AfterMisfit
  <2>4. pc' = "idle" \/ (saved' = saved /\ call' = call)
    BY <1>5 DEF SignEncode, Return, AfterMisfit
  <2> QED
    BY <1>5, <2>2, <2>3, <2>4 DEF SignEncode, HashedAnew
<1>6. CASE SignLazy
  BY <1>6 DEF SignLazy, Return, HashedAnew
<1>7. ASSUME NEW hdr, NEW len, NEW tail, Transcode(hdr, len, tail) PROVE HashedAnew'
  BY <1>7 DEF Transcode, Signature, HashedAnew
<1>8. CASE VerifyStart
  <2>1. CASE sig.len < 41
    BY <1>8, <2>1 DEF VerifyStart, HashedAnew
  <2>2. CASE ~(sig.len < 41)
    <3>1. hd' = [mode |-> "in", data |-> <<sig.nonce>>, used |-> 0]
      BY <1>8, <2>2 DEF VerifyStart
    <3>2. sig.nonce \in Items
      BY <1>8 DEF VerifyStart, HashedAnew
    <3>3. hd' \in Context /\ hd'.used = 0 /\ hd'.data # <<>>
      BY <3>1, <3>2 DEF Context
    <3> QED
      BY <1>8, <3>3 DEF VerifyStart, HashedAnew
  <2> QED
    BY <2>1, <2>2
<1>9. ASSUME NEW type, NEW pub, NEW small, VerifyFinish(type, pub, small)
      PROVE HashedAnew'
  <2>1. hd' = hd \/ (hd' = [hd EXCEPT !.mode = "out", !.used = 1])
    BY <1>9 DEF VerifyFinish
  <2>2. CASE hd' = hd
    BY <1>9, <2>2 DEF VerifyFinish, HashedAnew
  <2>3. CASE hd' = [hd EXCEPT !.mode = "out", !.used = 1]
    <3>1. hd' = [mode |-> "out", data |-> hd.data, used |-> 1]
      BY <2>3 DEF HashedAnew, Context
    <3>2. hd' \in Context /\ hd'.mode # "in"
      BY <3>1 DEF HashedAnew, Context
    <3> QED
      BY <1>9, <3>2 DEF VerifyFinish, HashedAnew
  <2> QED
    BY <2>1, <2>2, <2>3
<1>10. CASE UNCHANGED vars
  BY <1>10 DEF vars, HashedAnew
<1> QED
  BY <1>1, <1>2, <1>3, <1>4, <1>5, <1>6, <1>7, <1>8, <1>9, <1>10 DEF Next, Sign, Verify

LEMMA HashedAlways == Spec => []HashedAnew
<1> QED
  BY HashedInit, HashedStep, PTL DEF Spec

-----------------------------------------------------------------------------
(* A finishing loop ends in SignEncode or in SignLazy. *)
LEMMA EndsIn ==
  ASSUME HashedAnew, [Next]_vars, Ends, call.fn # "lazy"
  PROVE  \E c \in CompSizes, fits \in BOOLEAN : SignEncode(c, fits)
BY DEF Next, Sign, Verify, Ends, SignStart, Inject, SignFinish, HashPoint, SignLazy,
       Transcode, VerifyStart, VerifyFinish, vars

(* A call of the dyn or tree signer that returns 0 has put in sig[] a      *)
(* signature of the data it was given, under the nonce that was hashed     *)
(* first, whatever the number of attempts.                                 *)
THEOREM SignsItsMessage == Spec => SignedMessage
<1>1. HashedAnew /\ [Next]_vars =>
        [Ends /\ ret' = 0 /\ call.fn # "lazy" => Delivered]_vars
  <2> SUFFICES ASSUME HashedAnew, [Next]_vars, Ends, ret' = 0, call.fn # "lazy"
               PROVE  Delivered
    OBVIOUS
  <2>1. PICK c \in CompSizes, fits \in BOOLEAN : SignEncode(c, fits)
    BY EndsIn
  <2> DEFINE val == [pt |-> buf, csize |-> c, fits |-> fits]
             v   == Encoded(call.type, call.cap, val)
  <2>2. pc = "sign" /\ buf = [data |-> call.data, from |-> 0] /\ call.data \in Seq(Items)
        /\ call.data # <<>>
    BY <2>1 DEF SignEncode, HashedAnew
  <2>3. v # 0
    <3> SUFFICES ASSUME v = 0 PROVE FALSE
      OBVIOUS
    <3>1. IF AfterMisfit(call.type) = "idle" THEN Return(SIZE)
          ELSE pc' = AfterMisfit(call.type)
      BY <2>1 DEF SignEncode
    <3> QED
      BY <3>1 DEF Return, SIZE, AfterMisfit, Ends
  <2>4. sig' = Output(call.type, call.data[1], val, v)
    BY <2>1, <2>3 DEF SignEncode
  <2>5. sig'.nonce = call.data[1] /\ sig'.val.pt = [data |-> call.data, from |-> 0]
    BY <2>2, <2>4 DEF Output, Signature
  <2>6. v \in CompSizes \cup {CtSize - 41}
    BY <2>1, <2>3 DEF Encoded
  <2>7. sig'.len \in Lengths
    BY <2>4, <2>6 DEF Output, Signature, Lengths
  <2>8. val \in Values /\ call.data[1] \in Items
    BY <2>2 DEF Values, Points
  <2>9. sig' \in Sigs
    BY <2>4, <2>7, <2>8 DEF Output, Signature, Header, Sigs
  <2> QED
    BY <2>5, <2>9, NullAssumption DEF Delivered
<1> QED
  BY <1>1, HashedAlways, PTL DEF Spec, SignedMessage

-----------------------------------------------------------------------------
(* The documented sizes are natural numbers at every degree. *)
LEMMA Sizes == PaddedSize \in Nat /\ CtSize \in Nat /\ CtSize > 41
<1>1. Logn \in 1..10
  BY ApiAssumption
<1>2. ASSUME NEW k \in 0..9
      PROVE  2^k \in {1, 2, 4, 8, 16, 32, 64, 128, 256, 512}
  <2>1. k \in {0, 1, 2, 3, 4, 5, 6, 7, 8, 9}
    OBVIOUS
  <2>2. k = 0 => 2^k = 1
    OBVIOUS
  <2>3. k = 1 => 2^k = 2
    OBVIOUS
  <2>4. k = 2 => 2^k = 4
    OBVIOUS
  <2>5. k = 3 => 2^k = 8
    OBVIOUS
  <2>6. k = 4 => 2^k = 16
    OBVIOUS
  <2>7. k = 5 => 2^k = 32
    OBVIOUS
  <2>8. k = 6 => 2^k = 64
    OBVIOUS
  <2>9. k = 7 => 2^k = 128
    OBVIOUS
  <2>10. k = 8 => 2^k = 256
    OBVIOUS
  <2>11. k = 9 => 2^k = 512
    OBVIOUS
  <2> QED
    BY <2>1, <2>2, <2>3, <2>4, <2>5, <2>6, <2>7, <2>8, <2>9, <2>10, <2>11
<1>3. 2^(10 - Logn) \in {1, 2, 4, 8, 16, 32, 64, 128, 256, 512}
  <2>1. 10 - Logn \in 0..9
    BY <1>1
  <2> QED
    BY <1>2, <2>1, Zenon
<1>4. 2^(Logn - 1) \in {1, 2, 4, 8, 16, 32, 64, 128, 256, 512}
  <2>1. Logn - 1 \in 0..9
    BY <1>1
  <2> QED
    BY <1>2, <2>1, Zenon
<1>5. PaddedSize \in Nat
  <2>1. ASSUME NEW p \in {1, 2, 4, 8, 16, 32, 64, 128, 256, 512}
        PROVE  44 + 3 * (256 \div p) + 2 * (128 \div p) + 3 * (64 \div p)
                  + 2 * (16 \div p) - 2 * (2 \div p) - 8 * (1 \div p) \in Nat
    OBVIOUS
  <2> QED
    BY <1>3, <2>1 DEF PaddedSize
<1>6. CtSize \in Nat /\ CtSize > 41
  BY <1>4 DEF CtSize
<1> QED
  BY <1>5, <1>6

(* A set of check numbers that is not empty has its least. *)
LEMMA LeastCheck ==
  ASSUME NEW S, S \subseteq 1..14, S # {} PROVE Min(S) \in S
<1>1. \A j \in S : j \in {1, 2, 3, 4, 5, 6, 7, 8, 9, 10, 11, 12, 13, 14}
  OBVIOUS
<1>2. PICK k \in S : TRUE
  OBVIOUS
<1>3. \E i \in S : \A j \in S : i <= j
  BY <1>1, <1>2
<1> QED
  BY <1>3 DEF Min

(* FirstError returns 0 only when every check has passed, if no check's    *)
(* code is 0.                                                              *)
LEMMA NoError ==
  ASSUME NEW checks, DOMAIN checks \subseteq 1..14,
         \A i \in DOMAIN checks : checks[i][2] # 0,
         FirstError(checks) = 0
  PROVE  \A i \in DOMAIN checks : ~checks[i][1]
<1> DEFINE failed == {i \in DOMAIN checks : checks[i][1]}
<1> SUFFICES ASSUME failed # {} PROVE FALSE
  OBVIOUS
<1>1. failed \subseteq 1..14
  OBVIOUS
<1>2. Min(failed) \in failed
  BY <1>1, LeastCheck
<1>3. FirstError(checks) = checks[Min(failed)][2]
  BY DEF FirstError
<1> QED
  BY <1>1, <1>2, <1>3

(* What the checks of a finishing call guarantee about the buffer. *)
RoomGranted ==
  pc # "idle" =>
    /\ call.type \in {COMPRESSED, PADDED, CT}
    /\ call.cap \in Nat /\ call.cap >= 41
    /\ call.type = PADDED => call.cap >= PaddedSize
    /\ call.type = CT => call.cap >= CtSize

LEMMA ChecksGrantRoom ==
  ASSUME NEW fn, NEW type, NEW cap \in Nat, NEW key, NEW pub, NEW small \in BOOLEAN,
         FirstError(SignChecks(fn, type, cap, key, pub, small)) = 0
  PROVE  /\ type \in {COMPRESSED, PADDED, CT} /\ cap >= 41
         /\ type = PADDED => cap >= PaddedSize
         /\ type = CT => cap >= CtSize
<1> DEFINE checks == SignChecks(fn, type, cap, key, pub, small)
<1>1. DOMAIN checks = 1..8
  BY DEF SignChecks
<1>2. \A i \in 1..8 : checks[i][2] # 0
  BY DEF SignChecks, FORMAT, SIZE, BADARG
<1>3. \A i \in 1..8 : ~checks[i][1]
  <2>1. FirstError(checks) = 0
    OBVIOUS
  <2> HIDE DEF checks
  <2> QED
    BY <1>1, <1>2, <2>1, NoError
<1>4. ~(cap < 41)
  <2>1. checks[3][1] = (cap < 41)
    BY DEF SignChecks
  <2>2. 3 \in 1..8
    OBVIOUS
  <2> HIDE DEF checks
  <2> QED
    BY <1>3, <2>1, <2>2, Zenon
<1>5. ~(type = PADDED /\ cap < PaddedSize)
  <2>1. checks[4][1] = (type = PADDED /\ cap < PaddedSize)
    BY DEF SignChecks
  <2>2. 4 \in 1..8
    OBVIOUS
  <2> HIDE DEF checks
  <2> QED
    BY <1>3, <2>1, <2>2, Zenon
<1>6. ~(type = CT /\ cap < CtSize)
  <2>1. checks[5][1] = (type = CT /\ cap < CtSize)
    BY DEF SignChecks
  <2>2. 5 \in 1..8
    OBVIOUS
  <2> HIDE DEF checks
  <2> QED
    BY <1>3, <2>1, <2>2, Zenon
<1>7. ~(type \notin {COMPRESSED, PADDED, CT})
  <2>1. checks[6][1] = (type \notin {COMPRESSED, PADDED, CT})
    BY DEF SignChecks
  <2>2. 6 \in 1..8
    OBVIOUS
  <2> HIDE DEF checks
  <2> QED
    BY <1>3, <2>1, <2>2, Zenon
<1> QED
  BY <1>4, <1>5, <1>6, <1>7, Sizes

LEMMA RoomInit == Init => RoomGranted
BY DEF Init, RoomGranted

LEMMA RoomStep == RoomGranted /\ [Next]_vars => RoomGranted'
<1> SUFFICES ASSUME RoomGranted, [Next]_vars PROVE RoomGranted'
  OBVIOUS
<1>1. CASE call' = call /\ (pc' = "idle" \/ pc # "idle")
  BY <1>1 DEF RoomGranted
<1>2. ASSUME NEW fn \in Finishers, NEW type \in SignTypes, NEW cap \in Caps,
             NEW small \in BOOLEAN, NEW key, NEW pub,
             SignFinish(fn, type, cap, key, pub, small)
      PROVE RoomGranted'
  <2>1. CASE FirstError(SignChecks(fn, type, cap, key, pub, small)) # 0
    BY <1>2, <2>1 DEF SignFinish, RoomGranted
  <2>2. CASE FirstError(SignChecks(fn, type, cap, key, pub, small)) = 0
    <3>1. cap \in Nat
      BY ApiAssumption
    <3>2. call'.type = type /\ call'.cap = cap
      BY <1>2, <2>2 DEF SignFinish
    <3> QED
      BY <2>2, <3>1, <3>2, ChecksGrantRoom DEF RoomGranted
  <2> QED
    BY <2>1, <2>2
<1>3. ASSUME NEW c \in CompSizes, NEW fits \in BOOLEAN, SignEncode(c, fits)
      PROVE RoomGranted'
  BY <1>3 DEF SignEncode, Return, AfterMisfit, RoomGranted
<1>4. CASE SignLazy
  BY <1>4 DEF SignLazy, Return, RoomGranted
<1>5. CASE SignStart \/ VerifyStart \/ HashPoint \/ UNCHANGED vars
  BY <1>5 DEF SignStart, VerifyStart, HashPoint, vars, RoomGranted
<1>6. ASSUME NEW c \in Chunks, Inject(c) PROVE RoomGranted'
  BY <1>6 DEF Inject, RoomGranted
<1>7. ASSUME NEW hdr, NEW len, NEW tail, Transcode(hdr, len, tail) PROVE RoomGranted'
  BY <1>7 DEF Transcode, RoomGranted
<1>8. ASSUME NEW type, NEW pub, NEW small, VerifyFinish(type, pub, small)
      PROVE RoomGranted'
  BY <1>8 DEF VerifyFinish, RoomGranted
<1> QED
  BY <1>2, <1>3, <1>4, <1>5, <1>6, <1>7, <1>8 DEF Next, Sign, Verify

(* A successful call stays within the buffer and sets the length falcon.h  *)
(* documents for its format.                                               *)
THEOREM LengthsDocumented == Spec => DocumentedLengths
<1>1. HashedAnew /\ RoomGranted /\ [Next]_vars =>
        [Ends /\ ret' = 0 /\ call.fn # "lazy" =>
           /\ sig'.len <= call.cap
           /\ call.type = PADDED => sig'.len = PaddedSize
           /\ call.type = CT => sig'.len = CtSize]_vars
  <2> SUFFICES ASSUME HashedAnew, RoomGranted, [Next]_vars, Ends, ret' = 0,
                      call.fn # "lazy"
               PROVE  /\ sig'.len <= call.cap
                      /\ call.type = PADDED => sig'.len = PaddedSize
                      /\ call.type = CT => sig'.len = CtSize
    OBVIOUS
  <2>1. PICK c \in CompSizes, fits \in BOOLEAN : SignEncode(c, fits)
    BY EndsIn
  <2> DEFINE val == [pt |-> buf, csize |-> c, fits |-> fits]
             v   == Encoded(call.type, call.cap, val)
  <2>2. pc = "sign"
    BY DEF Ends
  <2>3. v # 0
    <3> SUFFICES ASSUME v = 0 PROVE FALSE
      OBVIOUS
    <3>1. IF AfterMisfit(call.type) = "idle" THEN Return(SIZE)
          ELSE pc' = AfterMisfit(call.type)
      BY <2>1 DEF SignEncode
    <3> QED
      BY <3>1 DEF Return, SIZE, AfterMisfit, Ends
  <2>4. sig'.len = IF call.type = PADDED THEN PaddedSize ELSE 41 + v
    BY <2>1, <2>3 DEF SignEncode, Output, Signature
  <2>5. c \in Nat
    BY ApiAssumption
  <2>6. CASE call.type = PADDED
    BY <2>2, <2>4, <2>6, Sizes DEF RoomGranted, PADDED, CT
  <2>7. CASE call.type = CT
    <3>1. v = CtSize - 41
      BY <2>3, <2>7 DEF Encoded
    <3> HIDE DEF v
    <3> QED
      BY <2>2, <2>4, <2>7, <3>1, Sizes DEF RoomGranted, PADDED, CT
  <2>8. CASE call.type = COMPRESSED
    <3>1. v = c /\ c <= call.cap - 41
      BY <2>3, <2>8 DEF Encoded, COMPRESSED, PADDED, CT
    <3> HIDE DEF v
    <3> QED
      BY <2>2, <2>4, <2>5, <2>8, <3>1 DEF RoomGranted, COMPRESSED, PADDED, CT
  <2> QED
    BY <2>2, <2>6, <2>7, <2>8 DEF RoomGranted
<1> QED
  BY <1>1, HashedAlways, RoomInit, RoomStep, PTL DEF Spec, DocumentedLengths

-----------------------------------------------------------------------------
(* The checks of falcon_verify_finish, one by one. *)
Passed(type, s, pub, small) ==
  /\ ~(s.len < 41 \/ pub \in {"empty", "header"})
  /\ ~(pub = "degree")
  /\ ~(type = 0 /\ s.hdr \notin {HdrComp, HdrCt})
  /\ ~(type \in {COMPRESSED, PADDED} /\ s.hdr # HdrComp)
  /\ ~(type = CT /\ s.hdr # HdrCt)
  /\ ~(type = PADDED /\ s.len # PaddedSize)
  /\ ~(type \in {0, CT} /\ s.hdr = HdrCt /\ s.len # CtSize)
  /\ ~(type \notin {0, COMPRESSED, PADDED, CT})
  /\ ~(pub = "length")
  /\ ~small
  /\ ~(pub = "decode")
  /\ ~(Decoded(s) = 0)
  /\ ~(41 + Decoded(s) # s.len /\ ~MayPad(type, s))
  /\ ~(41 + Decoded(s) # s.len /\ s.tail # "zeros")

LEMMA VerifyPasses ==
  ASSUME NEW type, NEW s, NEW pub, NEW small \in BOOLEAN
  PROVE  FirstError(VerifyChecks(type, s, pub, small)) = 0 <=> Passed(type, s, pub, small)
<1> DEFINE checks == VerifyChecks(type, s, pub, small)
<1>1. DOMAIN checks = 1..14
  BY DEF VerifyChecks
<1>2. \A i \in 1..14 : checks[i][2] # 0
  BY DEF VerifyChecks, FORMAT, SIZE, BADARG, BADSIG
<1>3. Passed(type, s, pub, small) <=> \A i \in 1..14 : ~checks[i][1]
  <2>1. \A i \in 1..14 : i \in {1, 2, 3, 4, 5, 6, 7, 8, 9, 10, 11, 12, 13, 14}
    OBVIOUS
  <2>2. {1, 2, 3, 4, 5, 6, 7, 8, 9, 10, 11, 12, 13, 14} \subseteq 1..14
    OBVIOUS
  <2>3. /\ checks[1][1] = (s.len < 41 \/ pub \in {"empty", "header"})
        /\ checks[2][1] = (pub = "degree")
        /\ checks[3][1] = (type = 0 /\ s.hdr \notin {HdrComp, HdrCt})
        /\ checks[4][1] = (type \in {COMPRESSED, PADDED} /\ s.hdr # HdrComp)
        /\ checks[5][1] = (type = CT /\ s.hdr # HdrCt)
        /\ checks[6][1] = (type = PADDED /\ s.len # PaddedSize)
        /\ checks[7][1] = (type \in {0, CT} /\ s.hdr = HdrCt /\ s.len # CtSize)
    BY DEF VerifyChecks
  <2>4. /\ checks[8][1] = (type \notin {0, COMPRESSED, PADDED, CT})
        /\ checks[9][1] = (pub = "length")
        /\ checks[10][1] = small
        /\ checks[11][1] = (pub = "decode")
        /\ checks[12][1] = (Decoded(s) = 0)
        /\ checks[13][1] = (41 + Decoded(s) # s.len /\ ~MayPad(type, s))
        /\ checks[14][1] = (41 + Decoded(s) # s.len /\ s.tail # "zeros")
    BY DEF VerifyChecks
  <2> HIDE DEF checks
  <2> QED BY <2>1, <2>2, <2>3, <2>4, Zenon DEF Passed
<1>4. ASSUME \A i \in 1..14 : ~checks[i][1] PROVE FirstError(checks) = 0
  <2> HIDE DEF checks
  <2> QED BY <1>1, <1>4 DEF FirstError
<1>5. ASSUME FirstError(checks) = 0 PROVE \A i \in 1..14 : ~checks[i][1]
  <2> HIDE DEF checks
  <2> QED BY <1>1, <1>2, <1>5, NoError
<1> QED BY <1>3, <1>4, <1>5

(* A signature that a signer of one of the three types has put in sig[]    *)
(* passes every check of the verifier, for its type and for type 0.        *)
LEMMA OutputPasses ==
  ASSUME NEW type \in {COMPRESSED, PADDED, CT}, NEW cap \in Nat, NEW r, NEW pt,
         NEW c \in Nat, NEW fits \in BOOLEAN, NEW t \in {0, type}, NEW v,
         v = Encoded(type, cap, [pt |-> pt, csize |-> c, fits |-> fits]), v # 0
  PROVE  Passed(t, Output(type, r, [pt |-> pt, csize |-> c, fits |-> fits], v), "ok", FALSE)
<1>0. PICK s : s = Output(type, r, [pt |-> pt, csize |-> c, fits |-> fits], v)
  OBVIOUS
<1> SUFFICES Passed(t, s, "ok", FALSE)
  BY <1>0
<1>1. /\ s.hdr = Header(type) /\ s.val.csize = c /\ s.val.fits = fits /\ s.tail = "zeros"
      /\ s.len = IF type = PADDED THEN PaddedSize ELSE 41 + v
  BY <1>0 DEF Output, Signature
<1>2. CASE type = COMPRESSED
  <2>1. v = c /\ s.hdr = HdrComp /\ s.len = 41 + c
    BY <1>1, <1>2 DEF Encoded, Header, COMPRESSED, PADDED, CT
  <2>2. Decoded(s) = c
    BY <1>1, <2>1 DEF Decoded, HdrComp, HdrCt
  <2> QED BY <1>1, <1>2, <2>1, <2>2 DEF Passed, HdrComp, HdrCt, COMPRESSED, PADDED, CT
<1>3. CASE type = PADDED
  <2>1. v = c /\ c <= PaddedSize - 41 /\ s.hdr = HdrComp /\ s.len = PaddedSize
    BY <1>1, <1>3 DEF Encoded, Header, COMPRESSED, PADDED, CT
  <2>2. Decoded(s) = c
    BY <1>1, <2>1, Sizes DEF Decoded, HdrComp, HdrCt
  <2>3. MayPad(t, s)
    BY <1>3, <2>1 DEF MayPad
  <2> QED
    BY <1>1, <1>3, <2>1, <2>2, <2>3, Sizes DEF Passed, HdrComp, HdrCt, COMPRESSED, PADDED, CT
<1>4. CASE type = CT
  <2>1. fits /\ v = CtSize - 41 /\ s.hdr = HdrCt /\ s.len = 41 + v
    BY <1>1, <1>4 DEF Encoded, Header, COMPRESSED, PADDED, CT
  <2>2. s.len = CtSize
    BY <2>1, Sizes
  <2>3. Decoded(s) = CtSize - 41
    BY <1>1, <2>1, <2>2, Sizes DEF Decoded
  <2> QED
    BY <1>1, <1>4, <2>1, <2>2, <2>3, Sizes DEF Passed, HdrComp, HdrCt, COMPRESSED, PADDED, CT
<1> QED BY <1>2, <1>3, <1>4

(* What a finishing call that returns 0 has left in sig[] passes every     *)
(* check of falcon_verify_finish, under the type of the call and under     *)
(* type 0.                                                                 *)
THEOREM EmittedAccepted == Spec => RoundTrip
<1>1. HashedAnew /\ RoomGranted /\ [Next]_vars =>
        [Ends /\ ret' = 0 /\ call.fn # "lazy" =>
           \A type \in {0, call.type} :
             FirstError(VerifyChecks(type, sig', "ok", FALSE)) = 0]_vars
  <2> SUFFICES ASSUME HashedAnew, RoomGranted, [Next]_vars, Ends, ret' = 0,
                      call.fn # "lazy", NEW type \in {0, call.type}
               PROVE  FirstError(VerifyChecks(type, sig', "ok", FALSE)) = 0
    OBVIOUS
  <2>1. PICK c \in CompSizes, fits \in BOOLEAN : SignEncode(c, fits)
    BY EndsIn
  <2>2. PICK v : v = Encoded(call.type, call.cap, [pt |-> buf, csize |-> c, fits |-> fits])
    OBVIOUS
  <2>3. v # 0
    <3> SUFFICES ASSUME v = 0 PROVE FALSE
      OBVIOUS
    <3>1. IF AfterMisfit(call.type) = "idle" THEN Return(SIZE)
          ELSE pc' = AfterMisfit(call.type)
      BY <2>1, <2>2 DEF SignEncode
    <3> QED
      BY <3>1 DEF Return, SIZE, AfterMisfit, Ends
  <2>4. sig' = Output(call.type, call.data[1], [pt |-> buf, csize |-> c, fits |-> fits], v)
    BY <2>1, <2>2, <2>3 DEF SignEncode
  <2>5. call.type \in {COMPRESSED, PADDED, CT} /\ call.cap \in Nat /\ c \in Nat
    BY ApiAssumption DEF Ends, RoomGranted
  <2>6. Passed(type, sig', "ok", FALSE)
    BY <2>2, <2>3, <2>4, <2>5, OutputPasses
  <2> QED
    BY <2>6, VerifyPasses
<1> QED
  BY <1>1, HashedAlways, RoomInit, RoomStep, PTL DEF Spec, RoundTrip

-----------------------------------------------------------------------------
(* What is in sig[] is a signature; bytes that are not zero can only       *)
(* follow the value that is decoded.                                       *)
WellFormed(s) ==
  /\ s = Signature(s.hdr, s.nonce, s.val, s.len, s.tail)
  /\ s.val.csize \in Nat
  /\ s.tail = "zeros" \/ (s.tail = "junk" /\ s.len > 41 + Decoded(s))

SigShape == sig # Null => WellFormed(sig)

LEMMA OutputShape ==
  ASSUME NEW type, NEW r, NEW v, NEW pt, NEW c \in Nat, NEW fits
  PROVE  WellFormed(Output(type, r, [pt |-> pt, csize |-> c, fits |-> fits], v))
BY DEF WellFormed, Output, Signature

LEMMA ShapeStep == SigShape /\ [Next]_vars => SigShape'
<1> SUFFICES ASSUME SigShape, [Next]_vars PROVE SigShape'
  OBVIOUS
<1>1. CASE sig' = sig \/ sig' = Null
  BY <1>1 DEF SigShape, WellFormed, Decoded, CtSize
<1>2. ASSUME NEW c \in CompSizes, NEW fits \in BOOLEAN, SignEncode(c, fits)
      PROVE SigShape'
  <2>1. PICK v : v = Encoded(call.type, call.cap, [pt |-> buf, csize |-> c, fits |-> fits])
    OBVIOUS
  <2>2. \/ sig' = Null
        \/ sig' = Output(call.type, call.data[1], [pt |-> buf, csize |-> c, fits |-> fits], v)
    BY <1>2, <2>1 DEF SignEncode
  <2>3. sig' = Null \/ WellFormed(sig')
    BY <2>2, OutputShape, ApiAssumption
  <2> QED
    BY <2>3 DEF SigShape, WellFormed, Decoded, CtSize
<1>3. ASSUME NEW hdr, NEW len, NEW tail \in {"zeros", "junk"}, Transcode(hdr, len, tail)
      PROVE SigShape'
  <2>1. /\ sig # Null /\ WellFormed(sig) /\ sig' = Signature(hdr, sig.nonce, sig.val, len, tail)
        /\ tail = "junk" => len > 41 + Decoded(sig')
    BY <1>3 DEF Transcode, SigShape
  <2>2. /\ sig' = Signature(sig'.hdr, sig'.nonce, sig'.val, sig'.len, sig'.tail)
        /\ sig'.val = sig.val /\ sig'.len = len /\ sig'.tail = tail
    BY <2>1 DEF Signature
  <2>3. WellFormed(sig')
    BY <2>1, <2>2 DEF WellFormed
  <2> QED
    BY <2>3 DEF SigShape, WellFormed, Decoded, CtSize
<1>4. ASSUME SignStart PROVE sig' = Null
  BY <1>4 DEF SignStart
<1>5. ASSUME NEW c, Inject(c) PROVE sig' = sig
  BY <1>5 DEF Inject
<1>6. ASSUME NEW fn, NEW type, NEW cap, NEW key, NEW pub, NEW small,
             SignFinish(fn, type, cap, key, pub, small)
      PROVE sig' = sig
  BY <1>6 DEF SignFinish
<1>7. ASSUME HashPoint \/ SignLazy \/ VerifyStart \/ UNCHANGED vars PROVE sig' = sig
  BY <1>7 DEF HashPoint, SignLazy, VerifyStart, vars
<1>8. ASSUME NEW type, NEW pub, NEW small, VerifyFinish(type, pub, small)
      PROVE sig' = sig
  BY <1>8 DEF VerifyFinish
<1> QED
  BY <1>1, <1>2, <1>3, <1>4, <1>5, <1>6, <1>7, <1>8 DEF Next, Sign, Verify

(* A signature that passes the checks is the output of a signer: of the    *)
(* type it was checked under, if that type is not 0.                       *)
LEMMA PassedIsOutput ==
  ASSUME NEW type \in {0, COMPRESSED, PADDED, CT}, NEW s, WellFormed(s),
         Passed(type, s, "ok", FALSE)
  PROVE  \E t \in {COMPRESSED, PADDED, CT} :
           /\ type # 0 => t = type
           /\ s = Output(t, s.nonce, s.val, Decoded(s))
<1>1. Decoded(s) \in Nat
  BY Sizes DEF WellFormed, Decoded
<1>2. s.tail = "zeros"
  <2>1. 41 + Decoded(s) # s.len => s.tail = "zeros"
    BY DEF Passed
  <2>2. 41 + Decoded(s) = s.len => ~(s.len > 41 + Decoded(s))
    BY <1>1
  <2> QED
    BY <2>1, <2>2 DEF WellFormed
<1>3. s = Signature(s.hdr, s.nonce, s.val, s.len, "zeros")
  BY <1>2 DEF WellFormed
<1>4. ASSUME NEW t \in {COMPRESSED, CT}, s.hdr = Header(t), s.len = 41 + Decoded(s)
      PROVE  s = Output(t, s.nonce, s.val, Decoded(s))
  <2>1. t # PADDED
    BY DEF COMPRESSED, PADDED, CT
  <2> QED
    BY <1>3, <1>4, <2>1 DEF Output
<1>5. ASSUME s.hdr = HdrComp, s.len = PaddedSize
      PROVE  s = Output(PADDED, s.nonce, s.val, Decoded(s))
  BY <1>3, <1>5 DEF Output, Header, PADDED, CT
<1>6. CASE s.hdr = HdrCt
  <2>1. type \in {0, CT} /\ s.len = CtSize
    BY <1>6 DEF Passed, HdrComp, HdrCt, COMPRESSED, PADDED, CT
  <2>2. Decoded(s) = CtSize - 41
    BY <1>6 DEF Passed, Decoded
  <2>3. s = Output(CT, s.nonce, s.val, Decoded(s))
    BY <1>4, <1>6, <2>1, <2>2, Sizes DEF Header
  <2> QED
    BY <2>1, <2>3
<1>7. CASE s.hdr # HdrCt
  <2>1. s.hdr = HdrComp /\ type # CT
    BY <1>7 DEF Passed, HdrComp, HdrCt, COMPRESSED, PADDED, CT
  <2>2. type = PADDED => s.len = PaddedSize
    BY DEF Passed
  <2>3. s.len = 41 + Decoded(s) \/ type = PADDED \/ (type = 0 /\ s.len = PaddedSize)
    BY DEF Passed, MayPad
  <2>4. s.hdr = Header(COMPRESSED)
    BY <2>1 DEF Header, COMPRESSED, CT
  <2>5. CASE type = PADDED \/ (type = 0 /\ s.len = PaddedSize)
    BY <1>5, <2>1, <2>2, <2>5
  <2>6. CASE s.len = 41 + Decoded(s) /\ type # PADDED
    <3>1. s = Output(COMPRESSED, s.nonce, s.val, Decoded(s))
      BY <1>4, <2>4, <2>6
    <3>2. type # 0 => type = COMPRESSED
      BY <2>1, <2>6
    <3> QED
      BY <3>1, <3>2
  <2> QED
    BY <2>3, <2>5, <2>6
<1> QED
  BY <1>6, <1>7

(* What the verifier accepts under an explicit type is the signature that  *)
(* the signer of that type emits for the value, and under type 0 the one   *)
(* that some signer emits: no other header, length or tail is accepted.    *)
THEOREM AcceptedIsEmitted == Spec => Canonical
<1>1. Init => SigShape
  BY DEF Init, SigShape
<1>2. SigShape /\ [Next]_vars =>
        [\A type \in 0..3 :
           VerifyFinish(type, "ok", FALSE) /\ ret' = 0 =>
             \E t \in 1..3 :
               /\ type # 0 => t = type
               /\ sig = Output(t, sig.nonce, sig.val, Decoded(sig))]_vars
  <2> SUFFICES ASSUME SigShape, NEW type \in 0..3,
                      VerifyFinish(type, "ok", FALSE), ret' = 0
               PROVE  \E t \in 1..3 :
                        /\ type # 0 => t = type
                        /\ sig = Output(t, sig.nonce, sig.val, Decoded(sig))
    OBVIOUS
  <2>1. sig # Null /\ FirstError(VerifyChecks(type, sig, "ok", FALSE)) = 0
    BY DEF VerifyFinish
  <2>2. WellFormed(sig) /\ Passed(type, sig, "ok", FALSE)
    BY <2>1, VerifyPasses DEF SigShape
  <2>3. type \in {0, COMPRESSED, PADDED, CT} /\ {COMPRESSED, PADDED, CT} \subseteq 1..3
    BY DEF COMPRESSED, PADDED, CT
  <2> QED
    BY <2>2, <2>3, PassedIsOutput, ZenonT(40)
<1> QED
  BY <1>1, <1>2, ShapeStep, PTL DEF Spec, Canonical

-----------------------------------------------------------------------------
(* The code FirstError reports is one of the checks' codes, or 0. *)
Codes == {0, SIZE, FORMAT, BADSIG, BADARG}

LEMMA ErrorCode ==
  ASSUME NEW checks, DOMAIN checks \subseteq 1..14,
         \A i \in DOMAIN checks : checks[i][2] \in Codes
  PROVE  FirstError(checks) \in Codes
<1> DEFINE failed == {i \in DOMAIN checks : checks[i][1]}
<1>1. CASE failed = {}
  BY <1>1 DEF FirstError, Codes
<1>2. CASE failed # {}
  <2>1. failed \subseteq 1..14
    OBVIOUS
  <2>2. Min(failed) \in failed
    BY <1>2, <2>1, LeastCheck
  <2>3. FirstError(checks) = checks[Min(failed)][2]
    BY <1>2 DEF FirstError
  <2> QED
    BY <2>2, <2>3
<1> QED
  BY <1>1, <1>2

LEMMA SignCode ==
  ASSUME NEW fn, NEW type, NEW cap, NEW key, NEW pub, NEW small
  PROVE  FirstError(SignChecks(fn, type, cap, key, pub, small)) \in Codes
<1> DEFINE checks == SignChecks(fn, type, cap, key, pub, small)
<1>1. DOMAIN checks = 1..8 /\ \A i \in 1..8 : checks[i][2] \in {SIZE, FORMAT, BADARG}
  BY DEF SignChecks
<1> HIDE DEF checks
<1>2. DOMAIN checks \subseteq 1..14
  BY <1>1
<1>3. \A i \in DOMAIN checks : checks[i][2] \in Codes
  BY <1>1 DEF Codes
<1>4. FirstError(checks) \in Codes
  BY <1>2, <1>3, ErrorCode
<1> QED
  BY <1>4 DEF checks

LEMMA VerifyCode ==
  ASSUME NEW type, NEW s, NEW pub, NEW small
  PROVE  FirstError(VerifyChecks(type, s, pub, small)) \in Codes
<1> DEFINE checks == VerifyChecks(type, s, pub, small)
<1>1. DOMAIN checks = 1..14
  BY DEF VerifyChecks
<1>2. \A i \in 1..14 : checks[i][2] \in {SIZE, FORMAT, BADSIG, BADARG}
  BY DEF VerifyChecks
<1> HIDE DEF checks
<1>3. DOMAIN checks \subseteq 1..14
  BY <1>1
<1>4. \A i \in DOMAIN checks : checks[i][2] \in Codes
  BY <1>1, <1>2 DEF Codes
<1>5. FirstError(checks) \in Codes
  BY <1>3, <1>4, ErrorCode
<1> QED
  BY <1>5 DEF checks

(* TypeOK, part by part. *)
ContextOK(ctx) ==
  /\ ctx \in Context
  /\ ctx.used = 0 \/ (ctx.used = 1 /\ ctx.mode = "out")
  /\ Len(ctx.data) <= MaxChunks + 1

CallOK ==
  /\ IF pc = "idle" THEN call = Null /\ buf = Null /\ saved = NoContext
                    ELSE call \in Calls /\ ret = Null
  /\ pc = "sign" => buf \in Points

LEMMA TypeParts ==
  TypeOK <=> /\ pc \in {"idle", "hash", "sign"}
             /\ ContextOK(hd) /\ ContextOK(saved)
             /\ sig \in Sigs \cup {Null} /\ ret \in Codes \cup {Null} /\ CallOK
BY DEF TypeOK, ContextOK, CallOK, Codes

LEMMA TypePartsNext ==
  TypeOK' <=> /\ pc' \in {"idle", "hash", "sign"}
              /\ ContextOK(hd') /\ ContextOK(saved')
              /\ sig' \in Sigs \cup {Null} /\ ret' \in Codes \cup {Null} /\ CallOK'
BY DEF TypeOK, ContextOK, CallOK, Codes

LEMMA FreshContext ==
  /\ ContextOK(NoContext)
  /\ \A r \in Items : ContextOK([mode |-> "in", data |-> <<r>>, used |-> 0])
<1>1. MaxChunks \in Nat
  BY ApiAssumption
<1>2. ASSUME NEW r \in Items
      PROVE  ContextOK([mode |-> "in", data |-> <<r>>, used |-> 0])
  <2>1. <<r>> \in Seq(Items) /\ Len(<<r>>) = 1
    OBVIOUS
  <2> QED
    BY <1>1, <2>1 DEF ContextOK, Context
<1>3. ContextOK(NoContext)
  <2>1. <<>> \in Seq(Items) /\ Len(<<>>) = 0
    OBVIOUS
  <2> QED
    BY <1>1, <2>1 DEF ContextOK, Context, NoContext
<1> QED
  BY <1>2, <1>3

LEMMA TypeInit == Init => TypeOK
<1> SUFFICES ASSUME Init PROVE TypeOK
  OBVIOUS
<1>1. ContextOK(hd) /\ ContextOK(saved)
  BY FreshContext DEF Init
<1> QED
  BY <1>1, TypeParts DEF Init, CallOK

LEMMA TypeStep == TypeOK /\ HashedAnew /\ [Next]_vars => TypeOK'
<1> SUFFICES ASSUME TypeOK, HashedAnew, [Next]_vars PROVE TypeOK'
  OBVIOUS
<1> USE TypeParts, TypePartsNext
<1>1. CASE SignStart
  <2>1. PICK r \in Nonces : hd' = [mode |-> "in", data |-> <<r>>, used |-> 0]
    BY <1>1 DEF SignStart
  <2>2. ContextOK(hd')
    BY <2>1, FreshContext DEF Items
  <2>3. /\ pc = "idle" /\ pc' = pc /\ saved' = saved /\ buf' = buf /\ call' = call
        /\ sig' = Null /\ ret' = 0
    BY <1>1 DEF SignStart
  <2> QED
    BY <2>2, <2>3 DEF CallOK, Codes
<1>2. ASSUME NEW c \in Chunks, Inject(c) PROVE TypeOK'
  <2>1. /\ hd.mode = "in" /\ Len(hd.data) <= MaxChunks
        /\ hd' = [hd EXCEPT !.data = Append(hd.data, c)]
    BY <1>2 DEF Inject
  <2>2. c \in Items /\ hd.data \in Seq(Items) /\ hd \in Context /\ hd.used = 0
    BY <2>1 DEF HashedAnew, Context, Items
  <2>3. /\ Append(hd.data, c) \in Seq(Items)
        /\ Len(Append(hd.data, c)) = Len(hd.data) + 1
    BY <2>2
  <2>4. hd' = [mode |-> "in", data |-> Append(hd.data, c), used |-> 0]
    BY <2>1, <2>2 DEF Context
  <2>5. Len(hd.data) \in Nat /\ MaxChunks \in Nat
    BY <2>2, ApiAssumption
  <2>6. PICK d : d = Append(hd.data, c)
    OBVIOUS
  <2>7. d \in Seq(Items) /\ Len(d) <= MaxChunks + 1
    BY <2>1, <2>3, <2>5, <2>6
  <2>8. ContextOK([mode |-> "in", data |-> d, used |-> 0])
    BY <2>7 DEF ContextOK, Context
  <2>9. ContextOK(hd')
    BY <2>4, <2>6, <2>8
  <2> QED
    BY <1>2, <2>9 DEF Inject, CallOK
<1>3. ASSUME NEW fn \in Finishers, NEW type \in SignTypes, NEW cap \in Caps,
             NEW small \in BOOLEAN, NEW key, NEW pub,
             SignFinish(fn, type, cap, key, pub, small)
      PROVE TypeOK'
  <2> DEFINE err == FirstError(SignChecks(fn, type, cap, key, pub, small))
  <2>0. err \in Codes
    BY SignCode
  <2>1. CASE err # 0
    <3>1. /\ pc = "idle" /\ pc' = pc /\ hd' = hd /\ saved' = saved /\ call' = call
          /\ buf' = buf /\ sig' = sig /\ ret' = err
      BY <1>3, <2>1 DEF SignFinish
    <3> HIDE DEF err
    <3> QED
      BY <2>0, <3>1 DEF CallOK
  <2>2. CASE err = 0
    <3>1. /\ hd' = [hd EXCEPT !.mode = "out"] /\ saved' = hd' /\ hd.mode = "in"
          /\ call' = [fn |-> fn, type |-> type, cap |-> cap, data |-> hd.data]
          /\ pc' = "hash" /\ ret' = Null /\ buf' = buf /\ sig' = sig
      BY <1>3, <2>2 DEF SignFinish
    <3>2. hd \in Context /\ hd.data \in Seq(Items) /\ hd.used = 0
      BY <3>1 DEF HashedAnew, Context
    <3>3. hd' = [mode |-> "out", data |-> hd.data, used |-> 0]
      BY <3>1, <3>2 DEF Context
    <3>4. ContextOK(hd')
      BY <3>2, <3>3 DEF ContextOK, Context
    <3>5. type \in {COMPRESSED, PADDED, CT}
      BY <2>2, ApiAssumption, ChecksGrantRoom
    <3>6. call' \in Calls
      BY <3>1, <3>2, <3>5 DEF Calls
    <3> QED
      BY <3>1, <3>4, <3>6 DEF CallOK
  <2> QED
    BY <2>1, <2>2
<1>4. CASE HashPoint
  <2>1. /\ pc = "hash" /\ pc' = "sign" /\ buf' = Point(saved)
        /\ hd' = [saved EXCEPT !.used = saved.used + 1]
        /\ saved' = saved /\ call' = call /\ sig' = sig /\ ret' = ret
    BY <1>4 DEF HashPoint
  <2>2. saved = [mode |-> "out", data |-> call.data, used |-> 0] /\ call.data \in Seq(Items)
    BY <2>1 DEF HashedAnew
  <2>3. hd' = [mode |-> "out", data |-> call.data, used |-> 1]
    BY <2>1, <2>2
  <2>4. Len(call.data) <= MaxChunks + 1
    BY <2>2 DEF ContextOK
  <2>5. ContextOK(hd')
    BY <2>2, <2>3, <2>4 DEF ContextOK, Context
  <2>6. buf' \in Points
    BY <2>1, <2>2 DEF Point, Points
  <2> QED
    BY <2>1, <2>5, <2>6 DEF CallOK
<1>5. ASSUME NEW c \in CompSizes, NEW fits \in BOOLEAN, SignEncode(c, fits)
      PROVE TypeOK'
  <2> DEFINE val == [pt |-> buf, csize |-> c, fits |-> fits]
             v   == Encoded(call.type, call.cap, val)
  <2>1. pc = "sign" /\ hd' = hd /\ buf \in Points /\ call \in Calls /\ ret = Null
    BY <1>5 DEF SignEncode, CallOK
  <2>2. CASE v # 0
    <3>1. sig' = Output(call.type, call.data[1], val, v) /\ Return(0)
      BY <1>5, <2>2 DEF SignEncode
    <3>2. v \in CompSizes \cup {CtSize - 41}
      BY <2>2 DEF Encoded
    <3>3. val \in Values
      BY <2>1 DEF Values
    <3>4. call.data[1] \in Items
      BY <2>1 DEF HashedAnew
    <3>5. sig' \in Sigs
      BY <3>1, <3>2, <3>3, <3>4 DEF Output, Signature, Header, Sigs, Lengths
    <3> QED
      BY <2>1, <3>1, <3>5, FreshContext DEF Return, CallOK, Codes
  <2>3. CASE v = 0
    <3>1. sig' = Null
      BY <1>5, <2>3 DEF SignEncode
    <3>2. CASE call.type = PADDED
      <4>1. pc' = "hash" /\ saved' = saved /\ call' = call /\ ret' = ret
        BY <1>5, <2>3, <3>2 DEF SignEncode, AfterMisfit
      <4> QED
        BY <2>1, <3>1, <4>1 DEF CallOK
    <3>3. CASE call.type # PADDED
      <4>1. Return(SIZE)
        BY <1>5, <2>3, <3>3 DEF SignEncode, AfterMisfit
      <4> QED
        BY <2>1, <3>1, <4>1, FreshContext DEF Return, CallOK, Codes
    <3> QED
      BY <3>2, <3>3
  <2> QED
    BY <2>2, <2>3
<1>6. CASE SignLazy
  BY <1>6, FreshContext DEF SignLazy, Return, CallOK, Codes
<1>7. ASSUME NEW hdr \in {0, HdrComp, HdrCt}, NEW len \in Lens,
             NEW tail \in {"zeros", "junk"}, Transcode(hdr, len, tail)
      PROVE TypeOK'
  <2>1. /\ sig \in Sigs /\ sig' = Signature(hdr, sig.nonce, sig.val, len, tail)
        /\ pc' = pc /\ hd' = hd /\ saved' = saved /\ buf' = buf /\ call' = call /\ ret' = ret
    BY <1>7 DEF Transcode
  <2>2. sig' \in Sigs
    BY <2>1 DEF Signature, Sigs, Lengths
  <2> QED
    BY <2>1, <2>2 DEF CallOK
<1>8. CASE VerifyStart
  <2>1. /\ pc = "idle" /\ pc' = pc /\ saved' = saved /\ buf' = buf /\ call' = call
        /\ sig' = sig /\ sig \in Sigs /\ ret' \in {0, FORMAT}
    BY <1>8 DEF VerifyStart
  <2>2. hd' = hd \/ hd' = [mode |-> "in", data |-> <<sig.nonce>>, used |-> 0]
    BY <1>8 DEF VerifyStart
  <2>3. sig.nonce \in Items
    BY <2>1 DEF Sigs
  <2>4. ContextOK(hd')
    BY <2>2, <2>3, FreshContext
  <2> QED
    BY <2>1, <2>4 DEF CallOK, Codes
<1>9. ASSUME NEW type, NEW pub, NEW small, VerifyFinish(type, pub, small)
      PROVE TypeOK'
  <2> DEFINE err == FirstError(VerifyChecks(type, sig, pub, small))
  <2>1. /\ pc = "idle" /\ pc' = pc /\ saved' = saved /\ buf' = buf /\ call' = call
        /\ sig' = sig /\ hd.mode = "in"
    BY <1>9 DEF VerifyFinish
  <2>2. err \in Codes
    BY VerifyCode
  <2>3. CASE err # 0
    <3>1. ret' = err /\ hd' = hd
      BY <1>9, <2>3 DEF VerifyFinish
    <3> HIDE DEF err
    <3> QED
      BY <2>1, <2>2, <3>1 DEF CallOK
  <2>4. CASE err = 0
    <3>1. /\ hd' = [hd EXCEPT !.mode = "out", !.used = 1]
          /\ ret' \in {0, BADSIG}
      BY <1>9, <2>4 DEF VerifyFinish
    <3>2. hd' = [mode |-> "out", data |-> hd.data, used |-> 1] /\ hd.data \in Seq(Items)
      BY <3>1 DEF HashedAnew, Context
    <3>3. ContextOK(hd')
      BY <3>2 DEF ContextOK, Context
    <3> QED
      BY <2>1, <3>1, <3>3 DEF CallOK, Codes
  <2> QED
    BY <2>3, <2>4
<1>10. CASE UNCHANGED vars
  BY <1>10 DEF vars, CallOK
<1> QED
  BY <1>1, <1>2, <1>3, <1>4, <1>5, <1>6, <1>7, <1>8, <1>9, <1>10 DEF Next, Sign, Verify

(* The state of the streamed API, whatever the caller does: contexts are   *)
(* squeezed at most once since they were put back, a call in progress has  *)
(* the arguments its checks let through, a buffer that is signed is a      *)
(* point, and nothing of a call is left when it has returned.              *)
THEOREM TypeCorrect == Spec => []TypeOK
<1> QED
  BY TypeInit, TypeStep, HashedAlways, PTL DEF Spec
=============================================================================
