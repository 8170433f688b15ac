-------------------------------- MODULE Shake -------------------------------
(***************************************************************************)
(* The SHAKE256 context of falcon-lazy/shake.c: shake256_inject XORs its   *)
(* input into the rate part of the state from dptr on and runs the         *)
(* permutation whenever the rate is full; shake256_flip pads;              *)
(* shake256_extract runs the permutation when it has no byte left.  Both   *)
(* loops take the largest piece that fits at each turn.                    *)
(*                                                                         *)
(* The permutation is not modelled.  A state is the sequence of blocks     *)
(* that have been permuted into it and, for each cell of the rate, the set *)
(* of the values XORed there since: message bytes by their place in the    *)
(* message, the padding bytes 0x1F and 0x80 by two other numbers.          *)
(***************************************************************************)
EXTENDS Integers, SequencesExt

CONSTANTS
  Rate,    (* bytes of a block, 136 in the code                            *)
  Pieces,  (* lengths of the pieces injected and extracted                 *)
  MaxIn,   (* bound: bytes injected into a context                         *)
  MaxOut   (* bound: bytes extracted from a context                        *)

ASSUME RateAssumption ==
  /\ Rate \in Nat \ {0} /\ Pieces \subseteq Nat /\ MaxIn \in Nat /\ MaxOut \in Nat

RateCells == 0..(Rate - 1)
X1F   == -1
X80   == -2
Clear == [p \in RateCells |-> {}]

VARIABLES
  pc,     (* "idle" between calls, "inject" or "extract" in a loop         *)
  dptr,   (* dptr                                                          *)
  chain,  (* the blocks permuted into the state                            *)
  block,  (* block[p]: the values XORed into cell p since                  *)
  left,   (* the len of the call in progress                               *)
  read,   (* bytes the call in progress has written to its out             *)
  mode,   (* history: "in" until the flip, then "out"                      *)
  total,  (* history: bytes injected                                       *)
  taken,  (* history: bytes extracted by the calls that have returned      *)
  out     (* history: what the last extraction returned                    *)

shakeVars == <<pc, dptr, chain, block, left, read, mode, total, taken, out>>

Xor(cell, val) == IF val \in cell THEN cell \ {val} ELSE cell \cup {val}

ShakeInit ==
  /\ pc = "idle" /\ dptr = 0 /\ chain = <<>> /\ block = Clear
  /\ left = 0 /\ read = <<>>
  /\ mode = "in" /\ total = 0 /\ taken = 0 /\ out = <<>>

(* A bug: the new message begins where the old one ended. *)
Reinit_KeepDptr ==
  /\ pc = "idle"
  /\ chain' = <<>> /\ block' = Clear
  /\ mode' = "in" /\ total' = 0 /\ taken' = 0 /\ out' = <<>>
  /\ UNCHANGED <<pc, dptr, left, read>>

(* shake256_init on a context that has been used. *)
Reinit ==
  /\ pc = "idle"
  /\ dptr' = 0 /\ chain' = <<>> /\ block' = Clear
  /\ mode' = "in" /\ total' = 0 /\ taken' = 0 /\ out' = <<>>
  /\ UNCHANGED <<pc, left, read>>

-----------------------------------------------------------------------------
Inject(len) ==
  /\ pc = "idle" /\ mode = "in" /\ total + len <= MaxIn
  /\ left' = len
  /\ pc' = IF len = 0 THEN "idle" ELSE "inject"
  /\ UNCHANGED <<dptr, chain, block, read, mode, total, taken, out>>

(* The bytes of one turn of either loop, when cell d is next. *)
Piece(d) == IF left < Rate - d THEN left ELSE Rate - d

Absorbed(clen) ==
  [p \in RateCells |-> IF p \in dptr..(dptr + clen - 1)
                   THEN Xor(block[p], total + p - dptr) ELSE block[p]]

(* A bug: a block that becomes full on the last turn of a call is not      *)
(* permuted.                                                               *)
InjectTurn_LastBlock ==
  LET clen == Piece(dptr)
      full == dptr + clen = Rate /\ clen < left
  IN  /\ pc = "inject"
      /\ total' = total + clen /\ left' = left - clen
      /\ chain' = IF full THEN Append(chain, Absorbed(clen)) ELSE chain
      /\ block' = IF full THEN Clear ELSE Absorbed(clen)
      /\ dptr'  = (dptr + clen) % Rate
      /\ pc' = IF clen = left THEN "idle" ELSE "inject"
      /\ UNCHANGED <<read, mode, taken, out>>

(* One turn of the loop of shake256_inject. *)
InjectTurn ==
  LET clen == Piece(dptr)
      full == dptr + clen = Rate
  IN  /\ pc = "inject"
      /\ total' = total + clen /\ left' = left - clen
      /\ chain' = IF full THEN Append(chain, Absorbed(clen)) ELSE chain
      /\ block' = IF full THEN Clear ELSE Absorbed(clen)
      /\ dptr'  = IF full THEN 0 ELSE dptr + clen
      /\ pc' = IF clen = left THEN "idle" ELSE "inject"
      /\ UNCHANGED <<read, mode, taken, out>>

(* A bug: dptr is not moved to the end of the block. *)
Flip_KeepDptr ==
  /\ pc = "idle" /\ mode = "in"
  /\ LET padded == [block EXCEPT ![dptr] = Xor(@, X1F)]
     IN  block' = [padded EXCEPT ![Rate - 1] = Xor(@, X80)]
  /\ mode' = "out"
  /\ UNCHANGED <<pc, dptr, chain, left, read, total, taken, out>>

(* shake256_flip: the padding, and no byte left to read. *)
Flip ==
  /\ pc = "idle" /\ mode = "in"
  /\ LET padded == [block EXCEPT ![dptr] = Xor(@, X1F)]
     IN  block' = [padded EXCEPT ![Rate - 1] = Xor(@, X80)]
  /\ dptr' = Rate /\ mode' = "out"
  /\ UNCHANGED <<pc, chain, left, read, total, taken, out>>

Extract(len) ==
  /\ pc = "idle" /\ mode = "out" /\ taken + len <= MaxOut
  /\ left' = len /\ read' = <<>>
  /\ IF len = 0 THEN out' = <<>> /\ UNCHANGED pc
     ELSE pc' = "extract" /\ UNCHANGED out
  /\ UNCHANGED <<dptr, chain, block, mode, total, taken>>

(* The byte in cell p of the state. *)
At(c, b, p) == [chain |-> c, xored |-> b[p], cell |-> p]

(* One turn of the loop of shake256_extract. *)
ExtractTurn ==
  LET spent == dptr = Rate
      d     == IF spent THEN 0 ELSE dptr
      c     == IF spent THEN Append(chain, block) ELSE chain
      b     == IF spent THEN Clear ELSE block
      clen  == Piece(d)
      bytes == read \o [i \in 1..clen |-> At(c, b, d + i - 1)]
  IN  /\ pc = "extract"
      /\ chain' = c /\ block' = b /\ dptr' = d + clen
      /\ left' = left - clen
      /\ IF clen = left
         THEN /\ pc' = "idle" /\ read' = <<>>
              /\ out' = bytes /\ taken' = taken + Len(bytes)
         ELSE /\ read' = bytes
              /\ UNCHANGED <<pc, out, taken>>
      /\ UNCHANGED <<mode, total>>

ShakeNext ==
  \/ Reinit \/ InjectTurn \/ Flip \/ ExtractTurn
  \/ \E len \in Pieces : Inject(len) \/ Extract(len)

-----------------------------------------------------------------------------
ShakeTypeOK ==
  /\ pc \in {"idle", "inject", "extract"} /\ mode \in {"in", "out"}
  /\ dptr \in 0..Rate /\ (mode = "in" => dptr < Rate)
  /\ left \in Nat /\ total \in 0..MaxIn /\ taken \in 0..MaxOut
  /\ \A p \in RateCells : block[p] \subseteq (-2)..(MaxIn - 1)

(* Block j of a message of this length, as far as the message goes. *)
MessageBlock(len, j) ==
  [p \in RateCells |-> IF j * Rate + p < len THEN {j * Rate + p} ELSE {}]

(* SHAKE's padding: 0x1F after the message, 0x80 at the end of the block,  *)
(* in a block of its own when the message fills its last one.              *)
Padded(len) ==
  LET last == len \div Rate
      tail == [p \in RateCells |->
                 MessageBlock(len, last)[p]
                   \cup (IF p = len % Rate THEN {X1F} ELSE {})
                   \cup (IF p = Rate - 1 THEN {X80} ELSE {})]
  IN  [j \in 1..(last + 1) |-> IF j = last + 1 THEN tail ELSE MessageBlock(len, j - 1)]

(* At every turn of every call the bytes injected so far lie one after the *)
(* other in the blocks of the message, each XORed once, in whatever pieces *)
(* they came: falcon_sign_start's nonce and the caller's data make one     *)
(* message.                                                                *)
InjectedInOrder ==
  mode = "in" =>
    /\ dptr = total % Rate
    /\ chain = [j \in 1..(total \div Rate) |-> MessageBlock(total, j - 1)]
    /\ block = MessageBlock(total, total \div Rate)

(* The stream of a message: byte k is in cell k % Rate after the padded    *)
(* message and k \div Rate more permutations.                              *)
StreamByte(len, k) ==
  At(Padded(len) \o [j \in 1..(k \div Rate) |-> Clear], Clear, k % Rate)

(* shake256_extract implements the stream: what a read returns depends on  *)
(* the message and on how much has been read, never on the sizes of the    *)
(* pieces (hash_to_point reads two bytes at a time, prng_init 56).         *)
S == INSTANCE Sponge
       WITH Byte <- StreamByte, len <- total, pos <- taken, got <- out

ImplementsSponge == S!Spec
=============================================================================
