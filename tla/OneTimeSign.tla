---------------------------- MODULE OneTimeSign ----------------------------
(***************************************************************************)
(* What a pool of one-time offline tokens promises its user: a token is    *)
(* prepared without a message, it can sign one message, and whatever it    *)
(* signs successfully verifies.  A token that has been used promises       *)
(* nothing until it is prepared again.                                     *)
(***************************************************************************)
CONSTANTS
  Tokens,        (* the offline tokens                                     *)
  Hashes,        (* hashed messages                                        *)
  Sigs,          (* signature values                                       *)
  Verifies(_, _) (* the verifier's verdict on a hashed message and a value *)

VARIABLES
  life,   (* life[t] \in {"none", "fresh", "spent"}                        *)
  good    (* good[t]: what t has delivered as successful, if it still is    *)
          (* what the promise is about                                     *)

vars == <<life, good>>

Init == /\ life = [t \in Tokens |-> "none"]
        /\ good = [t \in Tokens |-> {}]

Prepare(t) ==
  /\ life' = [life EXCEPT ![t] = "fresh"]
  /\ good' = [good EXCEPT ![t] = {}]

(* A fresh token signs: it is spent, and whatever it delivers (nothing, if *)
(* it failed) verifies.                                                    *)
Sign(t) ==
  /\ life[t] = "fresh"
  /\ life' = [life EXCEPT ![t] = "spent"]
  /\ good' = [good EXCEPT ![t] = good'[t]]
  /\ good'[t] \subseteq Hashes \X Sigs
  /\ \A p \in good'[t] : Verifies(p[1], p[2])

(* A spent token is used again: its promise is withdrawn. *)
Reuse(t) ==
  /\ life[t] = "spent"
  /\ good' = [good EXCEPT ![t] = {}]
  /\ UNCHANGED life

Next == \E t \in Tokens : Prepare(t) \/ Sign(t) \/ Reuse(t)

Spec == Init /\ [][Next]_vars
=============================================================================
