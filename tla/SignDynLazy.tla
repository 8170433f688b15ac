---------------------------- MODULE SignDynLazy -----------------------------
(***************************************************************************)
(* The combined signer Zf(sign_dyn_lazy) of falcon-lazy/sign.c: an offline *)
(* token, then at most MaxTry online attempts, with a new token after each *)
(* one that is over the bound.  It returns nothing: the value in sig[] is  *)
(* all its caller gets.                                                    *)
(*                                                                         *)
(* hm[] and sig[] are two buffers of the caller, or one: inner.h lets the  *)
(* other signers' callers overlap them and falcon_sign_dyn_lazy_finish     *)
(* does (sv = hm).  do_sign_dyn_lazy writes sig[] on every attempt.        *)
(***************************************************************************)
EXTENDS LazyOps

CONSTANTS
  MaxTry,   (* attempts of one call, 128 in the code                       *)
  Overlap,  (* do sig[] and hm[] overlap?                                  *)
  None      (* no message, no value                                        *)

DynToken == [x1 : Samples, x2 : Samples, tgt : Poly]

ASSUME TryAssumption  == MaxTry \in Nat \ {0} /\ Overlap \in BOOLEAN
ASSUME NoneAssumption == None \notin Poly /\ None \notin DynToken

VARIABLES
  pc,    (* "done" between calls, "offline" or "online" inside one         *)
  try,   (* oo_try                                                         *)
  token, (* the local arrays sample1, sample2, sample_target               *)
  hm,    (* the caller's hm[]                                              *)
  sig,   (* the caller's sig[]                                             *)
  msg,   (* history: hm[] when the call began                              *)
  short  (* history: the verdict of the last attempt                       *)

dynVars == <<pc, try, token, hm, sig, msg, short>>

DynTypeOK ==
  /\ pc \in {"done", "offline", "online"}
  /\ try \in 0..MaxTry
  /\ token \in DynToken \cup {None}
  /\ hm \in Poly \cup {None} /\ sig \in Poly \cup {None}
  /\ msg \in Hashes \cup {None}
  /\ short \in BOOLEAN
  /\ pc # "done" => hm # None /\ msg # None
  /\ pc = "online" => token # None

DynInit ==
  /\ pc = "done" /\ try = 0 /\ token = None
  /\ hm = None /\ sig = None /\ msg = None /\ short = FALSE

(* The caller hashes a message into hm[] and calls. *)
Call(m) ==
  /\ pc = "done"
  /\ pc' = "offline" /\ try' = 0
  /\ hm' = m /\ msg' = m /\ short' = FALSE
  /\ sig' = IF Overlap THEN m ELSE sig
  /\ UNCHANGED token

(* What each offline phase leaves in the local arrays. *)
NewToken ==
  \E x1, x2 \in Samples :
    token' = [x1 |-> x1, x2 |-> x2, tgt |-> ComputeTarget(Key.h, x1, x2)]

(* Bugs: the loop has no limit; it stops one attempt early; a failed       *)
(* attempt is retried with the token it has used.                          *)
DynOffline_NoLimit ==
  /\ pc = "offline" /\ NewToken /\ pc' = "online"
  /\ UNCHANGED <<try, hm, sig, msg, short>>

DynOffline_OneShort ==
  /\ pc = "offline" /\ NewToken
  /\ pc' = IF try + 1 < MaxTry THEN "online" ELSE "done"
  /\ UNCHANGED <<try, hm, sig, msg, short>>

DynOffline_SameToken ==
  /\ pc = "offline"
  /\ IF try = 0 THEN NewToken ELSE UNCHANGED token
  /\ pc' = IF try < MaxTry THEN "online" ELSE "done"
  /\ UNCHANGED <<try, hm, sig, msg, short>>

(* sign_dyn_lazy_offline, before the loop and after each failed attempt.   *)
(* The loop's condition is evaluated next.                                 *)
DynOffline ==
  /\ pc = "offline"
  /\ NewToken
  /\ pc' = IF try < MaxTry THEN "online" ELSE "done"
  /\ UNCHANGED <<try, hm, sig, msg, short>>

(* The int16_t coefficients of s2, read back as the uint16_t of hm[]. *)
AsHash(s2) == [u \in Coef |-> s2[u] % 65536]

(* A bug: failed attempts are not counted. *)
DynOnline_NoCount ==
  LET tgt == MqPolyAddTo(token.tgt, hm)
      res == OnlineSig(Key, tgt, token.x1, token.x2)
  IN  /\ pc = "online"
      /\ token' = [token EXCEPT !.tgt = tgt]
      /\ sig' = res.s2 /\ short' = res.ok
      /\ pc' = IF res.ok THEN "done" ELSE "offline"
      /\ UNCHANGED <<try, hm, msg>>

(* do_sign_dyn_lazy: one attempt. *)
DynOnline ==
  LET tgt == MqPolyAddTo(token.tgt, hm)
      res == OnlineSig(Key, tgt, token.x1, token.x2)
  IN  /\ pc = "online"
      /\ token' = [token EXCEPT !.tgt = tgt]
      /\ sig' = res.s2
      /\ hm'  = IF Overlap THEN AsHash(res.s2) ELSE hm
      /\ short' = res.ok
      /\ IF res.ok THEN pc' = "done"    /\ try' = try
                   ELSE pc' = "offline" /\ try' = try + 1
      /\ UNCHANGED msg

DynNext == DynOffline \/ DynOnline \/ \E m \in Hashes : Call(m)

(* One thread runs the call to its end; calls are the caller's choice. *)
DynSpec == DynInit /\ [][DynNext]_dynVars /\ WF_dynVars(DynOffline \/ DynOnline)

-----------------------------------------------------------------------------
(* A call that ends on an attempt within the bound leaves in sig[] a value *)
(* that verifies for the message the caller gave.  With overlapping        *)
(* buffers the second attempt hashes nothing again: it signs the first     *)
(* attempt's s2 instead of the message.                                    *)
ReturnedVerifies ==
  pc = "done" /\ short => VerifyRaw(Key.h, msg, sig)

(* No attempt uses a target another attempt has already moved: on each     *)
(* attempt the target is the blinding target of the current samples (the   *)
(* loop regenerates the token after a failure).                            *)
FreshTarget ==
  pc = "online" => token.tgt = ComputeTarget(Key.h, token.x1, token.x2)

(* The retry loop gives up only after MaxTry attempts, never earlier: a    *)
(* call that ends over the bound has used all its attempts.                *)
GivesUpLast ==
  pc = "done" /\ msg # None /\ ~short => try = MaxTry

-----------------------------------------------------------------------------
(* With buffers that do not overlap the call implements Signer: a value    *)
(* over the bound is the abstract "gave up", which the code cannot report. *)
Answer == IF pc = "done" /\ short THEN sig ELSE None

S == INSTANCE Signer
       WITH Sigs <- Poly, asked <- msg, busy <- (pc # "done"), answer <- Answer

ImplementsSigner == S!Spec
=============================================================================
