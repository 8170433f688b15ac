-------------------------------- MODULE Seed --------------------------------
(***************************************************************************)
(* get_seed of falcon-lazy/rng.c, as shake256_init_prng_from_system calls  *)
(* it.  getentropy gives all of the seed or none of it; /dev/urandom is    *)
(* read in a loop, each read giving as many bytes as the system likes.  A  *)
(* read that is interrupted, or that gives no byte, changes nothing: the   *)
(* loop makes it again.                                                    *)
(***************************************************************************)
EXTENDS Integers, FiniteSetsExt

CONSTANT SeedLen   (* bytes of the seed, 48 in the code                     *)

ASSUME SeedAssumption == SeedLen \in Nat \ {0}

VARIABLES
  source,  (* "getentropy", "open", "read"; then "seeded" or "none"        *)
  at,      (* how far the pointer seed has moved                           *)
  len,     (* what is left to read                                         *)
  filled   (* history: the bytes of the seed that the system has written   *)

seedVars == <<source, at, len, filled>>

SeedInit == source = "getentropy" /\ at = 0 /\ len = SeedLen /\ filled = {}

Getentropy ==
  /\ source = "getentropy"
  /\ \/ source' = "seeded" /\ filled' = 0..(SeedLen - 1)
     \/ source' = "open" /\ UNCHANGED filled
  /\ UNCHANGED <<at, len>>

OpenUrandom ==
  /\ source = "open"
  /\ source' \in {"read", "none"}
  /\ UNCHANGED <<at, len, filled>>

(* A bug: every read is made at the start of the buffer. *)
ReadUrandom_SamePlace ==
  /\ source = "read"
  /\ \E rlen \in 1..len :
       /\ filled' = filled \cup 0..(rlen - 1)
       /\ at' = at + rlen /\ len' = len - rlen
       /\ source' = IF rlen = len THEN "seeded" ELSE "read"

ReadUrandom ==
  /\ source = "read"
  /\ \E rlen \in 1..len :
       /\ filled' = filled \cup at..(at + rlen - 1)
       /\ at' = at + rlen /\ len' = len - rlen
       /\ source' = IF rlen = len THEN "seeded" ELSE "read"

(* An error other than EINTR: what has been read is of no use. *)
ReadError ==
  /\ source = "read"
  /\ source' = "none"
  /\ UNCHANGED <<at, len, filled>>

SeedNext == Getentropy \/ OpenUrandom \/ ReadUrandom \/ ReadError

(* A generator is never made from a buffer that the system has not written *)
(* from end to end, whatever the reads that were short or interrupted      *)
(* (rng.c:60-95, falcon.c:76-88).                                          *)
SeedWritten == source = "seeded" => filled = 0..(SeedLen - 1)
=============================================================================
