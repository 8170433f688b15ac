----------------------------- MODULE NormBound ------------------------------
(***************************************************************************)
(* The two tests of a signature's squared norm, in unsigned arithmetic     *)
(* modulo 2*Half with a sticky top bit:                                    *)
(*   - the signer's: do_sign_dyn_lazy (do_sign_tree, do_sign_dyn) sums s1, *)
(*     saturates, and hands the sum to is_short_half, which goes on with   *)
(*     s2;                                                                 *)
(*   - the verifier's: is_short sums both vectors in one loop.             *)
(* Coefficients are chosen as the loops read them, so a behaviour is a run *)
(* of a test on some pair of vectors.                                      *)
(***************************************************************************)
EXTENDS Naturals

CONSTANTS
  Half,     (* 2^31 in the code: the weight of the top bit                 *)
  N,        (* coefficients of a vector, 2^logn                            *)
  Squares,  (* squares of coefficients                                     *)
  L2Bound,  (* l2bound[logn]                                               *)
  Slack     (* the verifier's factor on l2bound, 3                         *)

(* A square of a 16-bit coefficient is at most 2^30; the loops need no     *)
(* more than this.                                                         *)
ASSUME HalfAssumption   == Half \in Nat \ {0} /\ N \in Nat
ASSUME SquareAssumption == Squares \subseteq 0..Half
ASSUME BoundAssumption  == /\ L2Bound \in Nat /\ Slack \in Nat \ {0}
                           /\ Slack * L2Bound < Half

VARIABLES
  test,   (* "signer" or "verifier"                                        *)
  loop,   (* "s1", "s2" (one loop, "s1", for the verifier), or "done"      *)
  u,      (* coefficients read by the current loop                         *)
  s,      (* sqn, s: the running sum                                       *)
  ng,     (* the top bit of the code's ng                                  *)
  exact,  (* history: the sum without overflow                             *)
  verdict (* what the test returned                                        *)

normVars == <<test, loop, u, s, ng, exact, verdict>>

NormTypeOK ==
  /\ test \in {"signer", "verifier"}
  /\ loop \in {"s1", "s2", "done"}
  /\ u \in 0..(2 * N)
  /\ s \in 0..(2 * Half - 1)
  /\ ng \in BOOLEAN /\ verdict \in BOOLEAN
  /\ exact \in Nat

NormInit ==
  /\ test \in {"signer", "verifier"}
  /\ loop = "s1" /\ u = 0 /\ s = 0 /\ ng = FALSE
  /\ exact = 0 /\ verdict = FALSE

(* s |= -(ng >> 31): all ones once the top bit has been seen. *)
Saturate(sum, seen) == IF seen THEN 2 * Half - 1 ELSE sum

(* How many coefficients the loop at hand reads: is_short's reads a pair   *)
(* at a time.                                                              *)
Length == IF test = "verifier" THEN 2 * N ELSE N

(* Bugs: ng follows the sum instead of remembering; the sum is kept in a   *)
(* wider word.                                                             *)
Accumulate_NotSticky ==
  /\ loop # "done" /\ u < Length
  /\ \E q \in Squares : s' = (s + q) % (2 * Half) /\ exact' = exact + q
  /\ ng' = (s' >= Half) /\ u' = u + 1
  /\ UNCHANGED <<test, loop, verdict>>

Accumulate_Wide ==
  /\ loop # "done" /\ u < Length
  /\ \E q \in Squares : s' = s + q /\ exact' = exact + q
  /\ ng' = (ng \/ s' >= Half) /\ u' = u + 1
  /\ UNCHANGED <<test, loop, verdict>>

(* One iteration: the sum wraps, and ng keeps its top bit. *)
Accumulate ==
  /\ loop # "done" /\ u < Length
  /\ \E q \in Squares :
       /\ s' = (s + q) % (2 * Half)
       /\ exact' = exact + q
  /\ ng' = (ng \/ s' >= Half)
  /\ u' = u + 1
  /\ UNCHANGED <<test, loop, verdict>>

(* A bug: is_short_half starts from ng = 0. *)
HandOver_ForgetTop ==
  /\ test = "signer" /\ loop = "s1" /\ u = Length
  /\ s' = Saturate(s, ng) /\ ng' = FALSE
  /\ loop' = "s2" /\ u' = 0
  /\ UNCHANGED <<test, exact, verdict>>

(* The end of the signer's s1 loop and the entry of is_short_half, whose   *)
(* ng starts from the top bit of the sum it is given.                      *)
HandOver ==
  /\ test = "signer" /\ loop = "s1" /\ u = Length
  /\ s' = Saturate(s, ng)
  /\ ng' = (s' >= Half)
  /\ loop' = "s2" /\ u' = 0
  /\ UNCHANGED <<test, exact, verdict>>

(* The end of is_short_half. *)
SignerVerdict ==
  /\ test = "signer" /\ loop = "s2" /\ u = Length
  /\ s' = Saturate(s, ng)
  /\ verdict' = (s' <= L2Bound)
  /\ loop' = "done"
  /\ UNCHANGED <<test, u, ng, exact>>

(* The end of is_short. *)
VerifierVerdict ==
  /\ test = "verifier" /\ loop = "s1" /\ u = Length
  /\ s' = Saturate(s, ng)
  /\ verdict' = (s' <= Slack * L2Bound)
  /\ loop' = "done"
  /\ UNCHANGED <<test, u, ng, exact>>

NormNext == Accumulate \/ HandOver \/ SignerVerdict \/ VerifierVerdict

NormSpec == NormInit /\ [][NormNext]_normVars

-----------------------------------------------------------------------------
(* A test answers as if the sum had been computed without overflow, however *)
(* large the vectors: the claim of is_short's comment, "saturation [...] if *)
(* the value exceeds 2^31-1" (common.c:261-263), and the hand-over of a     *)
(* saturated half sum to is_short_half keeps it.                            *)
VerdictExact ==
  loop = "done" =>
    (verdict <=> exact <= IF test = "signer" THEN L2Bound ELSE Slack * L2Bound)

(* The running sum is exact until the top bit has been seen, and once it   *)
(* has been, the exact sum is out of reach of any bound.                   *)
SumOrSaturated ==
  loop # "done" => IF ng THEN exact >= Half ELSE s = exact /\ s < Half
=============================================================================
