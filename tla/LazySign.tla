------------------------------ MODULE LazySign ------------------------------
(***************************************************************************)
(* The split online/offline API of falcon-lazy/sign.c as its callers drive *)
(* it (falcon-lazy2/tests, the m4 and m7 harnesses): a pool of offline     *)
(* tokens, each a triple of buffers (sample1, sample2, sample_target) that *)
(* sign_dyn_lazy_offline fills and sign_dyn_lazy_online consumes, and one  *)
(* output buffer the online calls share.                                   *)
(*                                                                         *)
(* The online phase adds the hashed message into sample_target IN PLACE,   *)
(* so a token carries the sum of everything it has signed.                 *)
(***************************************************************************)
EXTENDS LazyOps

CONSTANTS
  Tokens,   (* offline tokens                                              *)
  MaxUse,   (* bound: online calls on a token between two offline calls    *)
  NoTok,    (* a token that has not been prepared                          *)
  NoSig     (* an output buffer nothing has been written to                *)

Token     == [x1 : Samples, x2 : Samples, tgt : QPoly]
Signature == [hm : Hashes, s2 : Poly, ok : BOOLEAN, owed : QPoly]

ASSUME UseAssumption  == MaxUse \in Nat
ASSUME NullAssumption == NoTok \notin Token /\ NoSig \notin Signature

VARIABLES
  tok,   (* tok[t]: the token's buffers, or NoTok                          *)
  uses,  (* history: online calls on t since its last offline call         *)
  owed,  (* history: the sum modulo Q of the hashes of those calls         *)
  out    (* out[t]: what the last online call on t wrote and returned,     *)
         (* with (history) the value of owed[t] at that moment             *)

vars == <<tok, uses, owed, out>>

TypeOK ==
  /\ tok  \in [Tokens -> Token \cup {NoTok}]
  /\ uses \in [Tokens -> 0..MaxUse]
  /\ owed \in [Tokens -> QPoly]
  /\ out  \in [Tokens -> Signature \cup {NoSig}]

Init ==
  /\ tok  = [t \in Tokens |-> NoTok]
  /\ uses = [t \in Tokens |-> 0]
  /\ owed = [t \in Tokens |-> Const(0)]
  /\ out  = [t \in Tokens |-> NoSig]

(* A bug: a token that is prepared again keeps its old target. *)
Offline_KeepTarget(t) ==
  \E x1, x2 \in Samples :
    /\ tok'  = [tok EXCEPT ![t] =
                 [x1 |-> x1, x2 |-> x2,
                  tgt |-> IF tok[t] = NoTok THEN ComputeTarget(Key.h, x1, x2)
                          ELSE tok[t].tgt]]
    /\ uses' = [uses EXCEPT ![t] = 0]
    /\ owed' = [owed EXCEPT ![t] = Const(0)]
    /\ UNCHANGED out

(* sign_dyn_lazy_offline: a fresh blinding vector and its lattice target. *)
Offline(t) ==
  \E x1, x2 \in Samples :
    /\ tok'  = [tok EXCEPT ![t] = [x1 |-> x1, x2 |-> x2,
                                   tgt |-> ComputeTarget(Key.h, x1, x2)]]
    /\ uses' = [uses EXCEPT ![t] = 0]
    /\ owed' = [owed EXCEPT ![t] = Const(0)]
    /\ UNCHANGED out

(* sign_dyn_lazy_online: the target absorbs the message, the preimage is   *)
(* computed from the updated target, and s2 is written with the verdict.   *)
(* The callers only use a token they have prepared.                        *)
Online(t, hm) ==
  LET tgt == MqPolyAddTo(tok[t].tgt, hm)
      sig == OnlineSig(Key, tgt, tok[t].x1, tok[t].x2)
      sum == ModQ(Add(owed[t], hm))
  IN  /\ tok[t] # NoTok
      /\ uses[t] < MaxUse
      /\ tok'  = [tok EXCEPT ![t] = [x1 |-> tok[t].x1, x2 |-> tok[t].x2,
                                     tgt |-> tgt]]
      /\ uses' = [uses EXCEPT ![t] = @ + 1]
      /\ owed' = [owed EXCEPT ![t] = sum]
      /\ out'  = [out EXCEPT ![t] = [hm |-> hm, s2 |-> sig.s2, ok |-> sig.ok,
                                     owed |-> sum]]

Next == \E t \in Tokens : Offline(t) \/ \E hm \in Hashes : Online(t, hm)

Spec == Init /\ [][Next]_vars

-----------------------------------------------------------------------------
(* Every prepared token's target is its blinding target plus everything it *)
(* has been asked to sign, a reduced residue whatever the order of calls   *)
(* (sign_dyn_lazy_online's update of sample_target in place).              *)
TargetAccounting ==
  \A t \in Tokens :
    tok[t] # NoTok =>
      tok[t].tgt = ModQ(Add(ComputeTarget(Key.h, tok[t].x1, tok[t].x2), owed[t]))

(* A signature that the online phase accepts on the first use of a token   *)
(* verifies: what unittest.cpp's lazy_verify_realbound samples.            *)
FreshAcceptedVerifies ==
  \A t \in Tokens :
    uses[t] = 1 /\ out[t].ok => VerifyRaw(Key.h, out[t].hm, out[t].s2)

(* On any use, an accepted value is a signature of the SUM of the hashes   *)
(* the token has absorbed: what a reused token really signs.               *)
AcceptedVerifiesForSum ==
  \A t \in Tokens :
    out[t] # NoSig => (out[t].ok => VerifyRaw(Key.h, out[t].owed, out[t].s2))

(* "we must use the same bound as the verifier" (sign.c:1811-1814): what   *)
(* the online phase rejects on a fresh token, the verifier rejects too.    *)
SameBoundAsVerifier ==
  \A t \in Tokens :
    uses[t] = 1 /\ ~out[t].ok => ~VerifyRaw(Key.h, out[t].hm, out[t].s2)

-----------------------------------------------------------------------------
(* The one-time token promise: every behaviour of the token pool is one of *)
(* OneTimeSign's (the contract unittest.cpp:113-116 states to callers).    *)
Life ==
  [t \in Tokens |-> IF tok[t] = NoTok THEN "none"
                    ELSE IF uses[t] = 0 THEN "fresh" ELSE "spent"]

Good ==
  [t \in Tokens |-> IF uses[t] = 1 /\ out[t].ok THEN {<<out[t].hm, out[t].s2>>}
                                                ELSE {}]

OTS == INSTANCE OneTimeSign
         WITH Sigs <- Poly, life <- Life, good <- Good

ImplementsOneTimeSign == OTS!Spec
=============================================================================
