------------------------------- MODULE Signer -------------------------------
(***************************************************************************)
(* What a signing call promises its caller: asked to sign a hashed message *)
(* it returns, and what it returns verifies for that message unless it has *)
(* given up.  How many attempts it makes, and where it keeps them, is its  *)
(* own business.                                                           *)
(***************************************************************************)
CONSTANTS
  Hashes,         (* hashed messages                                       *)
  Sigs,           (* signature values                                      *)
  Verifies(_, _), (* the verifier's verdict on a hashed message and a value *)
  None            (* no message, or no value                               *)

VARIABLES
  asked,   (* the hashed message of the current or of the last call        *)
  busy,    (* a call is in progress                                        *)
  answer   (* what the last call returned, None if it gave up              *)

vars == <<asked, busy, answer>>

Init == asked = None /\ busy = FALSE /\ answer = None

Call(m) ==
  /\ ~busy
  /\ asked' = m /\ busy' = TRUE /\ answer' = None

Return ==
  /\ busy
  /\ busy' = FALSE
  /\ answer' \in Sigs \cup {None}
  /\ answer' # None => Verifies(asked, answer')
  /\ UNCHANGED asked

Next == Return \/ \E m \in Hashes : Call(m)

(* Every call returns. *)
Returns == busy ~> ~busy

Safety == Init /\ [][Next]_vars
Spec   == Safety /\ Returns
=============================================================================
