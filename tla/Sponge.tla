------------------------------- MODULE Sponge -------------------------------
(***************************************************************************)
(* What a SHAKE256 context promises its users: a message absorbed in       *)
(* pieces, then a stream of bytes read in pieces, each a function of the   *)
(* whole message and of its place in the stream only.  The bytes of the    *)
(* message are told apart by their place, so a message is its length.      *)
(***************************************************************************)
EXTENDS Naturals

CONSTANT Byte(_, _)   (* Byte(len, k): byte k of the stream of a message   *)

VARIABLES
  len,   (* bytes absorbed                                                 *)
  mode,  (* "in" or "out"                                                  *)
  pos,   (* bytes read                                                     *)
  got    (* what the last read returned                                    *)

vars == <<len, mode, pos, got>>

Init == len = 0 /\ mode = "in" /\ pos = 0 /\ got = <<>>

Reset == len' = 0 /\ mode' = "in" /\ pos' = 0 /\ got' = <<>>

Absorb ==
  /\ mode = "in" /\ len' \in Nat /\ len' >= len
  /\ UNCHANGED <<mode, pos, got>>

Turn == mode = "in" /\ mode' = "out" /\ UNCHANGED <<len, pos, got>>

Squeeze ==
  /\ mode = "out" /\ pos' \in Nat /\ pos' >= pos
  /\ got' = [i \in 1..(pos' - pos) |-> Byte(len, pos + i - 1)]
  /\ UNCHANGED <<len, mode>>

Next == Reset \/ Absorb \/ Turn \/ Squeeze

Spec == Init /\ [][Next]_vars
=============================================================================
