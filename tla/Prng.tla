-------------------------------- MODULE Prng --------------------------------
(***************************************************************************)
(* The buffered generator of falcon-lazy/rng.c and inner.h: prng_refill    *)
(* fills buf, the readers take bytes from it at ptr.  The keystream is not *)
(* modelled, only which of its bytes a read returns: byte p of block b is  *)
(* byte b * BufLen + p of the stream.                                      *)
(***************************************************************************)
EXTENDS Integers

CONSTANTS
  BufLen,     (* sizeof buf.d, 512 in the code                             *)
  MaxRefill,  (* bound: refills after the one of prng_init                 *)
  ByteLens    (* lengths asked of prng_get_bytes                           *)

ASSUME BufAssumption == /\ BufLen \in Nat /\ BufLen > 9
                        /\ MaxRefill \in Nat /\ ByteLens \subseteq Nat \ {0}

VARIABLES
  ptr,    (* the next byte of buf                                          *)
  block,  (* history: the block buf holds                                  *)
  lo,     (* history: the first stream byte of the last read               *)
  hi      (* history: the last stream byte any read has returned           *)

prngVars == <<ptr, block, lo, hi>>

PrngTypeOK == ptr \in 0..BufLen /\ block \in 0..MaxRefill /\ lo \in Int /\ hi \in Int

(* prng_init, which ends with a refill. *)
PrngInit == ptr = 0 /\ block = 0 /\ lo = -1 /\ hi = -1

(* Where a 64-bit read starts, and in which block, when a refill is due    *)
(* once ptr has reached limit.                                             *)
Start(limit) == IF ptr >= limit THEN 0 ELSE ptr
Block(limit) == IF ptr >= limit THEN block + 1 ELSE block

Read64(limit) ==
  /\ Block(limit) <= MaxRefill
  /\ ptr' = Start(limit) + 8 /\ block' = Block(limit)
  /\ lo' = Block(limit) * BufLen + Start(limit)
  /\ hi' = Block(limit) * BufLen + Start(limit) + 7

(* Bugs: the refill comes only when the read would not fit, or long before *)
(* it is due; ptr is left at the start of the buffer after a refill.       *)
GetU64_Late  == Read64(BufLen - 7)
GetU64_Early == Read64(BufLen - 16)
GetU64_Stay  ==
  /\ Block(BufLen - 9) <= MaxRefill
  /\ ptr' = IF ptr >= BufLen - 9 THEN 0 ELSE ptr + 8
  /\ block' = Block(BufLen - 9)
  /\ lo' = Block(BufLen - 9) * BufLen + Start(BufLen - 9)
  /\ hi' = Block(BufLen - 9) * BufLen + Start(BufLen - 9) + 7

(* prng_get_u64: with nine bytes or fewer left, what is left is dropped. *)
GetU64 == Read64(BufLen - 9)

(* prng_get_u8: the refill comes after the read. *)
GetU8 ==
  LET refill == ptr + 1 = BufLen
  IN  /\ refill => block < MaxRefill
      /\ ptr' = IF refill THEN 0 ELSE ptr + 1
      /\ block' = IF refill THEN block + 1 ELSE block
      /\ lo' = block * BufLen + ptr /\ hi' = block * BufLen + ptr

(* prng_get_bytes: as many chunks as the length needs, each copied from the *)
(* start of buf whatever ptr is.  The last chunk ends where the read ends. *)
GetBytes(len) ==
  LET first == IF len < BufLen - ptr THEN len ELSE BufLen - ptr
      rest  == len - first
      end   == (ptr + len) \div BufLen
      last  == IF rest = 0 THEN block * BufLen + first - 1
               ELSE (block + 1) * BufLen + rest - 1
  IN  /\ block + end <= MaxRefill
      /\ ptr' = (ptr + len) % BufLen /\ block' = block + end
      /\ lo' = block * BufLen
      /\ hi' = IF last > hi THEN last ELSE hi

PrngNext == GetU64 \/ GetU8 \/ \E len \in ByteLens : GetBytes(len)

PrngSpec == PrngInit /\ [][PrngNext]_prngVars

-----------------------------------------------------------------------------
(* "we never leave an empty buffer" (inner.h:828-833): every reader finds  *)
(* a byte to read.                                                         *)
NeverEmpty == ptr < BufLen

(* The inline readers move forward, "values get generated in advance"       *)
(* (inner.h:784): neither returns a byte of the stream that any read has   *)
(* returned.  prng_get_bytes gives no such promise: it copies from the     *)
(* start of buf.                                                           *)
FreshReads == [][GetU64 \/ GetU8 => lo' > hi]_prngVars

(* "we may drop the last few bytes" (inner.h:828-833): an inline reader     *)
(* skips at most nine of the bytes ptr stands before, and what it returns  *)
(* lies in one filled buffer.                                              *)
FewDropped ==
  [][GetU64 \/ GetU8 =>
       /\ lo' - (block * BufLen + ptr) \in 0..9
       /\ lo' \div BufLen = hi' \div BufLen]_prngVars
=============================================================================
