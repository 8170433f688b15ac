---------------------------- MODULE HashToPoint -----------------------------
(***************************************************************************)
(* The two hash_to_point functions of falcon-lazy/common.c.  Both turn the *)
(* same stream of 16-bit words into n residues modulo 12289 by rejection:  *)
(*   - hash_to_point_vartime reads words until n have been kept;           *)
(*   - hash_to_point_ct reads n + over words whatever they are, marks the  *)
(*     rejected ones, and squeezes them out in passes of growing stride    *)
(*     p, each of which may move a kept value down by p cells.             *)
(* The signer and the verifier may use different ones, so they must agree. *)
(*                                                                         *)
(* The words come out of a SHAKE256 context, two bytes at a time.  What is *)
(* the value of two bytes of the stream is any of Words.  The two          *)
(* functions are on the same stream, so each word read is a turn of both   *)
(* loops, until hash_to_point_vartime has its n residues.                  *)
(***************************************************************************)
EXTENDS Shake

CONSTANTS
  n,      (* 2^logn, the length of the point                               *)
  over,   (* overtab[logn]                                                 *)
  Words,  (* 16-bit words of the stream                                    *)
  Hashed  (* bound: the lengths of the messages that are hashed            *)

ASSUME HashAssumption ==
  /\ n \in Nat \ {0} /\ over \in Nat \ {0}
  /\ Words \subseteq Nat /\ \A w \in Words : w < 65536
  /\ Hashed \subseteq 0..MaxIn

m     == n + over   (* words read by the constant-time variant             *)
Cells == 0..(m - 1)
Bad   == 65535      (* a rejected word                                     *)
CellValues == 0..12288 \cup {Bad}

VARIABLES
  loop,   (* "idle" before the call, then "read", "squeeze" and "done"     *)
  words,  (* history: the words read                                       *)
  cell,   (* x[], tt1[] and tt2[], one after the other                     *)
  p,      (* the stride of the current pass                                *)
  u, v,   (* the cell at hand and where its value should end               *)
  point   (* the x[] that hash_to_point_vartime has written                *)

pointVars == <<loop, words, cell, p, u, v, point>>
vars      == <<shakeVars, pointVars>>

(* One turn of the loop of hash_to_point_vartime: a word that is kept is   *)
(* reduced, and after n of them no more are read.                          *)
Kept(w)           == w < 61445
VartimeTurn(x, w) == IF Len(x) < n /\ Kept(w) THEN Append(x, w % 12289) ELSE x

(* A bug: the second subtraction of 2*12289 is missing. *)
Reduced_OneStep(w) ==
  LET sub(a, q) == IF a >= q THEN a - q ELSE a
  IN  IF w >= 61445 THEN Bad ELSE sub(sub(w, 24578), 12289)

(* The constant-time reduction: masked subtractions, then the rejection.   *)
Reduced(w) ==
  LET sub(a, q) == IF a >= q THEN a - q ELSE a
  IN  IF w >= 61445 THEN Bad ELSE sub(sub(sub(w, 24578), 24578), 12289)

(* mk: the top bit of a cell is clear. *)
Valid(c) == c < 32768

Init ==
  /\ ShakeInit
  /\ loop = "idle" /\ words = <<>> /\ cell = [i \in Cells |-> Bad]
  /\ p = 1 /\ u = 0 /\ v = 0 /\ point = <<>>

(* A call: its callers have injected all of the nonce and the message and  *)
(* have flipped the context.  It reads its first word.                     *)
Hash ==
  /\ loop = "idle" /\ total \in Hashed /\ taken = 0
  /\ Extract(2)
  /\ loop' = "read"
  /\ UNCHANGED <<words, cell, p, u, v, point>>

(* A word has come: it is reduced or marked, and the next one is read. *)
Read ==
  /\ loop = "read" /\ pc = "idle"
  /\ \E w \in Words :
       /\ words' = Append(words, w)
       /\ cell'  = [cell EXCEPT ![u] = Reduced(w)]
       /\ point' = VartimeTurn(point, w)
  /\ IF u + 1 < m THEN u' = u + 1 /\ loop' = "read" /\ Extract(2)
                  ELSE u' = 0     /\ loop' = "squeeze" /\ UNCHANGED shakeVars
  /\ UNCHANGED <<p, v>>

(* Bugs: the jump is measured after v has moved on; every jump that is     *)
(* long enough is made, bit p or not.                                      *)
Moves_Late(c, j)  == Valid(c) /\ ((j - 1) \div p) % 2 = 1
Moves_Long(c, j) == Valid(c) /\ j >= p

(* Is the value c, which should jump down by j cells, moved by this pass?  *)
(* p is a power of two: j has its bit p set.                               *)
Moves(c, j) == Valid(c) /\ (j \div p) % 2 = 1

Next_v(c) == IF Valid(c) THEN v + 1 ELSE v

(* One cell of a pass: the destination of its value, and the swap. *)
Squeeze ==
  /\ loop = "squeeze" /\ u < m
  /\ v' = Next_v(cell[u])
  /\ cell' = IF u >= p /\ Moves(cell[u], u - v)
             THEN [cell EXCEPT ![u] = cell[u - p], ![u - p] = cell[u]]
             ELSE cell
  /\ u' = u + 1
  /\ UNCHANGED <<shakeVars, loop, words, p, point>>

(* A bug: the passes stop one stride early. *)
NextPass_Early ==
  /\ loop = "squeeze" /\ u = m
  /\ u' = 0 /\ v' = 0 /\ p' = 2 * p
  /\ loop' = IF 4 * p <= over THEN "squeeze" ELSE "done"
  /\ UNCHANGED <<shakeVars, words, cell, point>>

(* The end of a pass. *)
NextPass ==
  /\ loop = "squeeze" /\ u = m
  /\ u' = 0 /\ v' = 0 /\ p' = 2 * p
  /\ loop' = IF 2 * p <= over THEN "squeeze" ELSE "done"
  /\ UNCHANGED <<shakeVars, words, cell, point>>

(* The context's own steps: any call before the hash, and the turns of the *)
(* reads the hash makes.                                                   *)
Context ==
  /\ \/ loop = "idle" /\ ShakeNext
     \/ loop = "read" /\ ExtractTurn
  /\ UNCHANGED pointVars

Next == Context \/ Hash \/ Read \/ Squeeze \/ NextPass

Spec == Init /\ [][Next]_vars

-----------------------------------------------------------------------------
TypeOK ==
  /\ ShakeTypeOK
  /\ loop \in {"idle", "read", "squeeze", "done"}
  /\ words \in Seq(Words) /\ Len(words) <= m
  /\ cell \in [Cells -> CellValues]
  /\ p \in 1..(2 * over) /\ u \in 0..m /\ v \in 0..u
  /\ point \in Seq(0..12288) /\ Len(point) <= n

(* When enough of the words read are kept for hash_to_point_vartime to     *)
(* end, its point is the one hash_to_point_ct leaves: the two functions    *)
(* are interchangeable between a signer and a verifier.                    *)
SamePoint ==
  loop = "done" /\ Len(point) = n => [i \in 1..n |-> cell[i - 1]] = point

(* No step of any pass loses, doubles or reorders a kept value: there are  *)
(* as many valid cells as kept words, and the value that has k valid cells *)
(* below it is that of the word that has k kept words before it.           *)
Below(A, k) == Cardinality({j \in A : j < k})

OrderKept ==
  LET kept  == {i \in 1..Len(words) : Kept(words[i])}
      valid == {c \in Cells : Valid(cell[c])}
  IN  loop \in {"squeeze", "done"} =>
        /\ Cardinality(valid) = Cardinality(kept)
        /\ \A c \in valid, i \in kept :
             Below(valid, c) = Below(kept, i) => cell[c] = words[i] % 12289

(* "It can be shown that in all cases where the loop decides that a value  *)
(* has to be moved down by p slots, the destination slot is 'free'"        *)
(* (common.c:155-157).                                                     *)
FreeDestination ==
  loop = "squeeze" /\ u < m /\ u >= p /\ Moves(cell[u], u - v) => ~Valid(cell[u - p])
=============================================================================
