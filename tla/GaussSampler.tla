---------------------------- MODULE GaussSampler ----------------------------
(***************************************************************************)
(* sample_gaussian_poly_bern of falcon-lazy/sign.c, the offline phase's    *)
(* sampler: it draws from the generator of Prng until two arrays of n      *)
(* coefficients are full.  Each attempt takes three 64-bit words and two   *)
(* bytes.                                                                  *)
(*                                                                         *)
(* The words only decide x (a table lookup, sample_berncdt) and whether an *)
(* attempt is rejected (against exp_scaled); both are choices here.  The   *)
(* bytes y and c keep their values.                                        *)
(***************************************************************************)
EXTENDS Prng

CONSTANTS
  n,       (* coefficients of a polynomial                                 *)
  Steps,   (* results of sample_berncdt, within 0..10                      *)
  Bytes,   (* values of the byte y, within 0..255                          *)
  Signs,   (* values of the byte c, within 0..255                          *)
  NoVal    (* a coefficient not yet written                                *)

ASSUME SamplerAssumption ==
  /\ n \in Nat \ {0} /\ Steps \subseteq 0..10
  /\ Bytes \subseteq 0..255 /\ Signs \subseteq 0..255
  /\ NoVal \notin Int

VARIABLES
  at,               (* the next draw: "utop", "ubot", "w", "y", "c", "done"  *)
  i,                (* coefficients written                                *)
  x, y,             (* the code's x, and its y before it is scaled         *)
  sample1, sample2, (* the output arrays                                   *)
  z                 (* history: the signed value the last write stood for  *)

vars == <<ptr, block, lo, hi, at, i, x, y, sample1, sample2, z>>

(* A bug: the last shift is one too long. *)
Div16404853_Shift24(a) == a \div (2 * 16404853)

(* div16404853: what its multiplication and shifts compute. *)
Div16404853(a) == a \div 16404853

(* y*(y + 2*x) << 8, then the quotient k and the remainder t that split    *)
(* the exponential.                                                        *)
Scaled(a, b)  == (b * (b + 2 * a)) * 256
Quotient(a, b)  == Div16404853(Scaled(a, b))
Remainder(a, b) == Scaled(a, b) - 16404853 * Quotient(a, b)

(* A bug: the coefficient keeps its low byte as an unsigned number. *)
ToInt8_Unsigned(v) == v % 256

(* Storing an int in an int8_t. *)
ToInt8(v) == ((v + 128) % 256) - 128

(* CFLIP(z, c): the value if c is odd, its opposite otherwise. *)
Flip(v, c) == IF c % 2 = 1 THEN v ELSE -v

(* A bug: one coefficient too many for the first array. *)
InFirst_OneMore(j) == j <= n

(* Does coefficient j go to sample1? *)
InFirst(j) == j < n

Init ==
  /\ PrngInit
  /\ at = "utop" /\ i = 0 /\ x = 0 /\ y = 0 /\ z = 0
  /\ sample1 = [j \in 0..(n - 1) |-> NoVal]
  /\ sample2 = [j \in 0..(n - 1) |-> NoVal]

(* The three 64-bit draws; the table lookup comes before y is drawn. *)
DrawWord ==
  /\ at \in {"utop", "ubot", "w"}
  /\ GetU64
  /\ IF at = "w" THEN x' \in {256 * b : b \in Steps} ELSE x' = x
  /\ at' = CASE at = "utop" -> "ubot" [] at = "ubot" -> "w" [] at = "w" -> "y"
  /\ UNCHANGED <<i, y, sample1, sample2, z>>

DrawY ==
  /\ at = "y"
  /\ GetU8
  /\ y' \in Bytes
  /\ at' = "c"
  /\ UNCHANGED <<i, x, sample1, sample2, z>>

(* c & (z == 0): zero has no sign, so half of its draws are dropped. *)
RejectZero(c) == c % 2 = 1 /\ x + y = 0

(* The last draw and the decision.  w > v is possible unless y = 0, where  *)
(* v is 2^63 and w is a 63-bit word.                                       *)
DrawSign ==
  /\ at = "c"
  /\ GetU8
  /\ \E c \in Signs, over \in BOOLEAN :
       LET val == Flip(x + y, c \div 2)
       IN  /\ over => y # 0
           /\ IF over \/ RejectZero(c)
              THEN /\ at' = "utop"
                   /\ UNCHANGED <<i, sample1, sample2, z>>
              ELSE /\ IF InFirst(i)
                      THEN /\ sample1' = [sample1 EXCEPT ![i] = ToInt8(val)]
                           /\ UNCHANGED sample2
                      ELSE /\ sample2' = [sample2 EXCEPT ![i - n] = ToInt8(val)]
                           /\ UNCHANGED sample1
                   /\ i' = i + 1
                   /\ z' = val
                   /\ at' = IF i + 1 < 2 * n THEN "utop" ELSE "done"
  /\ UNCHANGED <<x, y>>

Next == DrawWord \/ DrawY \/ DrawSign

Spec == Init /\ [][Next]_vars

-----------------------------------------------------------------------------
TypeOK ==
  /\ PrngTypeOK
  /\ at \in {"utop", "ubot", "w", "y", "c", "done"}
  /\ i \in 0..(2 * n)
  /\ x \in {256 * b : b \in Steps} \cup {0} /\ y \in Bytes \cup {0}
  /\ sample1 \in [0..(n - 1) -> (-128)..127 \cup {NoVal}]
  /\ sample2 \in [0..(n - 1) -> (-128)..127 \cup {NoVal}]
  /\ z \in Int

(* exp_scaled's assertion x <= 64082*256 (sign.c:77) and a shift 22 - k    *)
(* that stays positive.                                                    *)
ExpArguments ==
  at = "c" => /\ Remainder(x, y) >= 0 /\ Remainder(x, y) <= 64082 * 256
              /\ 22 - Quotient(x, y) > 0

(* "Writes n coefficients into sample1[] and n into sample2[]": the arrays *)
(* fill in order, and are full when the sampler returns.                   *)
Filled ==
  /\ at = "done" <=> i = 2 * n
  /\ \A j \in 0..(n - 1) : /\ sample1[j] # NoVal <=> j < i
                           /\ sample2[j] # NoVal <=> n + j < i

(* "Gaussian sampler for the offline blinding vector" (sign.c:156): what   *)
(* is stored is what was sampled.  The rejection step makes z a Gaussian   *)
(* of deviation about 215, the store keeps z modulo 256.                   *)
StoresSample ==
  [][i' > i => (IF InFirst(i) THEN sample1'[i] ELSE sample2'[i - n]) = z']_vars
=============================================================================
