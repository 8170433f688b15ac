-------------------------- MODULE LazySign_proofs --------------------------
(***************************************************************************)
(* For every set of tokens, messages and blinding vectors, every key and   *)
(* every odd modulus below 2^16: the token pool keeps its account, what a  *)
(* fresh token accepts verifies, and the pool implements OneTimeSign; the  *)
(* combined signer, further down, implements Signer's safety part.         *)
(***************************************************************************)
EXTENDS LazySign, SignDynLazy, LazyOps_proofs

(* What the history variables say about the output buffer.                 *)
Bookkeeping ==
  \A t \in Tokens :
    /\ tok[t] = NoTok => uses[t] = 0
    /\ uses[t] = 0 => owed[t] = Const(0)
    /\ uses[t] # 0 => out[t] # NoSig
    /\ uses[t] = 1 => out[t].owed = out[t].hm

(* The inductive invariant: FreshAcceptedVerifies is the case of one use,  *)
(* where the account holds exactly the message.                            *)
IInv == TypeOK /\ TargetAccounting /\ Bookkeeping /\ AcceptedVerifiesForSum

(***************************************************************************)
(* One online call, under the account.                                     *)
(***************************************************************************)
LEMMA OnlineFacts ==
  ASSUME TypeOK, TargetAccounting, NEW t \in Tokens, tok[t] # NoTok,
         NEW m \in Hashes
  PROVE  LET ct  == ComputeTarget(Key.h, tok[t].x1, tok[t].x2)
             tgt == MqPolyAddTo(tok[t].tgt, m)
             sg == OnlineSig(Key, tgt, tok[t].x1, tok[t].x2)
             sum == ModQ(Add(owed[t], m))
         IN  /\ sum \in QPoly /\ tgt \in QPoly
             /\ tgt = ModQ(Add(ct, sum))
             /\ sg.s2 \in Poly /\ sg.ok \in BOOLEAN
             /\ sg.ok => VerifyRaw(Key.h, sum, sg.s2)
<1> DEFINE x1  == tok[t].x1
           x2  == tok[t].x2
           z   == Sub(x1, Mul(Key.h, x2))
           ct  == ComputeTarget(Key.h, x1, x2)
           tgt == MqPolyAddTo(tok[t].tgt, m)
           sum == ModQ(Add(owed[t], m))
<1>1. tok[t] \in Token /\ owed[t] \in QPoly  BY DEF TypeOK
<1>2. x1 \in Poly /\ x2 \in Poly /\ m \in QPoly
  BY <1>1, DataAssumption DEF Token
<1>3. Key.h \in QPoly /\ Key.h \in Poly
  BY KeyAssumption, QPolyIsPoly DEF IsKey
<1>4. z \in Poly
  <2>1. Mul(Key.h, x2) \in Poly  BY <1>2, <1>3, MulVal
  <2> QED BY <1>2, <2>1, AddSub
<1>5. ct = ModQ(z)  BY DEF ComputeTarget
<1>6. ct \in Poly  BY <1>4, <1>5, ModQType, QPolyIsPoly
<1>7. sum \in QPoly /\ sum \in Poly
  <2>1. Add(owed[t], m) \in Poly  BY <1>1, <1>2, QPolyIsPoly, AddSub
  <2> QED BY <2>1, ModQType, QPolyIsPoly
<1>8. tgt = ModQ(Add(ct, sum))
  <2>1. tok[t].tgt = ModQ(Add(ct, owed[t]))  BY DEF TargetAccounting
  <2> HIDE DEF ct
  <2> QED BY <1>1, <1>2, <1>6, <2>1, TargetUpdate
<1>9. tgt \in QPoly /\ tgt \in Poly
  <2>1. Add(ct, sum) \in Poly  BY <1>6, <1>7, AddSub
  <2> QED BY <1>8, <2>1, ModQType, QPolyIsPoly
<1>10. CongPoly(tgt, Add(sum, z))
  <2> HIDE DEF z, ct, sum, tgt
  <2> QED BY <1>4, <1>5, <1>7, <1>8, AccountCong
<1>11. LET sg == OnlineSig(Key, tgt, x1, x2)
       IN  /\ sg.s2 \in Poly /\ sg.ok \in BOOLEAN
           /\ sg.ok => VerifyRaw(Key.h, sum, sg.s2)
  <2> HIDE DEF tgt, sum, x1, x2
  <2> QED BY <1>2, <1>7, <1>9, <1>10, KeyAssumption, OnlineSigVerifies DEF z
<1> QED BY <1>7, <1>8, <1>9, <1>11

(***************************************************************************)
(* The invariant is inductive.                                             *)
(***************************************************************************)
LEMMA InitInv == Init => IInv
<1> SUFFICES ASSUME Init PROVE IInv  OBVIOUS
<1>1. TypeOK  BY ZeroPoly, UseAssumption, SMT DEF Init, TypeOK
<1>2. TargetAccounting  BY DEF Init, TargetAccounting
<1>3. Bookkeeping  BY SMT DEF Init, Bookkeeping
<1>4. AcceptedVerifiesForSum  BY DEF Init, AcceptedVerifiesForSum
<1> QED BY <1>1, <1>2, <1>3, <1>4 DEF IInv

LEMMA OfflineInv ==
  ASSUME IInv, NEW t \in Tokens, Offline(t)
  PROVE  IInv'
<1> USE DEF IInv
<1>1. PICK x1 \in Samples, x2 \in Samples :
        /\ tok'  = [tok EXCEPT ![t] = [x1 |-> x1, x2 |-> x2,
                                       tgt |-> ComputeTarget(Key.h, x1, x2)]]
        /\ uses' = [uses EXCEPT ![t] = 0]
        /\ owed' = [owed EXCEPT ![t] = Const(0)]
        /\ out'  = out
  BY DEF Offline
<1>2. ComputeTarget(Key.h, x1, x2) \in QPoly
  <2>1. x1 \in Poly /\ x2 \in Poly /\ Key.h \in Poly
    BY DataAssumption, KeyAssumption, QPolyIsPoly DEF IsKey
  <2>2. Mul(Key.h, x2) \in Poly  BY <2>1, MulVal
  <2>3. Sub(x1, Mul(Key.h, x2)) \in Poly  BY <2>1, <2>2, AddSub
  <2> QED BY <2>3, ModQType DEF ComputeTarget
<1> DEFINE new == [x1 |-> x1, x2 |-> x2, tgt |-> ComputeTarget(Key.h, x1, x2)]
<1>3. new \in Token /\ new # NoTok  BY <1>2, NullAssumption DEF Token
<1>4. TypeOK'
  BY <1>1, <1>3, ZeroPoly, UseAssumption, SMT DEF TypeOK
<1>5. /\ tok'[t] = new /\ uses'[t] = 0 /\ owed'[t] = Const(0) /\ out'[t] = out[t]
      /\ \A s \in Tokens \ {t} : /\ tok'[s] = tok[s] /\ uses'[s] = uses[s]
                                 /\ owed'[s] = owed[s] /\ out'[s] = out[s]
  BY <1>1 DEF TypeOK
<1>6. TargetAccounting'
  <2> SUFFICES ASSUME NEW s \in Tokens, tok'[s] # NoTok
               PROVE  tok'[s].tgt =
                      ModQ(Add(ComputeTarget(Key.h, tok'[s].x1, tok'[s].x2), owed'[s]))
    BY DEF TargetAccounting
  <2>1. CASE s = t
    <3>1. /\ tok'[s].x1 = x1 /\ tok'[s].x2 = x2
          /\ tok'[s].tgt = ComputeTarget(Key.h, x1, x2)
      BY <1>5, <2>1
    <3> QED BY <1>2, <1>5, <2>1, <3>1, ModQZero
  <2>2. CASE s # t  BY <1>5, <2>2 DEF TargetAccounting
  <2> QED BY <2>1, <2>2
<1>7. Bookkeeping'
  <2> SUFFICES ASSUME NEW s \in Tokens
               PROVE  /\ tok'[s] = NoTok => uses'[s] = 0
                      /\ uses'[s] = 0 => owed'[s] = Const(0)
                      /\ uses'[s] # 0 => out'[s] # NoSig
                      /\ uses'[s] = 1 => out'[s].owed = out'[s].hm
    BY DEF Bookkeeping
  <2> HIDE DEF new
  <2>1. CASE s = t  BY <1>3, <1>5, <2>1, SMT
  <2>2. CASE s # t  BY <1>5, <2>2 DEF Bookkeeping
  <2> QED BY <2>1, <2>2
<1>8. AcceptedVerifiesForSum'
  BY <1>1 DEF AcceptedVerifiesForSum
<1> QED BY <1>4, <1>6, <1>7, <1>8

(* What one online call leaves in the state. *)
LEMMA OnlineStep ==
  ASSUME IInv, NEW t \in Tokens, NEW m \in Hashes, Online(t, m)
  PROVE  /\ tok[t] # NoTok /\ uses[t] < MaxUse /\ tok'[t] # NoTok
         /\ tok'[t] \in Token /\ owed'[t] \in QPoly /\ out'[t] \in Signature
         /\ tok'[t].tgt = ModQ(Add(ComputeTarget(Key.h, tok'[t].x1, tok'[t].x2),
                                  owed'[t]))
         /\ owed'[t] = ModQ(Add(owed[t], m)) /\ uses'[t] = uses[t] + 1
         /\ out'[t].hm = m /\ out'[t].owed = owed'[t]
         /\ out'[t].ok => VerifyRaw(Key.h, owed'[t], out'[t].s2)
         /\ tok'  = [tok EXCEPT ![t] = tok'[t]]
         /\ uses' = [uses EXCEPT ![t] = uses'[t]]
         /\ owed' = [owed EXCEPT ![t] = owed'[t]]
         /\ out'  = [out EXCEPT ![t] = out'[t]]
<1> DEFINE tgt == MqPolyAddTo(tok[t].tgt, m)
           sg == OnlineSig(Key, tgt, tok[t].x1, tok[t].x2)
           sum == ModQ(Add(owed[t], m))
           new == [x1 |-> tok[t].x1, x2 |-> tok[t].x2, tgt |-> tgt]
           res == [hm |-> m, s2 |-> sg.s2, ok |-> sg.ok, owed |-> sum]
<1>1. /\ tok[t] # NoTok /\ uses[t] < MaxUse
      /\ tok'  = [tok EXCEPT ![t] = new]
      /\ uses' = [uses EXCEPT ![t] = @ + 1]
      /\ owed' = [owed EXCEPT ![t] = sum]
      /\ out'  = [out EXCEPT ![t] = res]
  BY DEF Online
<1>2. TypeOK /\ TargetAccounting  BY DEF IInv
<1>3. /\ sum \in QPoly /\ tgt \in QPoly
      /\ tgt = ModQ(Add(ComputeTarget(Key.h, tok[t].x1, tok[t].x2), sum))
      /\ sg.s2 \in Poly /\ sg.ok \in BOOLEAN
      /\ sg.ok => VerifyRaw(Key.h, sum, sg.s2)
  BY <1>1, <1>2, OnlineFacts
<1>4. tok[t] \in Token  BY <1>1, <1>2 DEF TypeOK
<1> HIDE DEF tgt, sg, sum
<1>5. /\ new \in Token /\ res \in Signature
      /\ new.x1 = tok[t].x1 /\ new.x2 = tok[t].x2 /\ new.tgt = tgt
      /\ res.hm = m /\ res.s2 = sg.s2 /\ res.ok = sg.ok /\ res.owed = sum
  BY <1>3, <1>4 DEF Token, Signature
<1>6. new # NoTok  BY <1>5, NullAssumption
<1> HIDE DEF new, res
<1>7. /\ tok'[t] = new /\ uses'[t] = uses[t] + 1
      /\ owed'[t] = sum /\ out'[t] = res
  BY <1>1, <1>2 DEF TypeOK
<1> QED BY <1>1, <1>3, <1>5, <1>6, <1>7 DEF sum

LEMMA OnlineInv ==
  ASSUME IInv, NEW t \in Tokens, NEW m \in Hashes, Online(t, m)
  PROVE  IInv'
<1> USE DEF IInv
<1>1. /\ tok[t] # NoTok /\ uses[t] < MaxUse /\ tok'[t] # NoTok
      /\ tok'[t] \in Token /\ owed'[t] \in QPoly /\ out'[t] \in Signature
      /\ owed'[t] = ModQ(Add(owed[t], m)) /\ uses'[t] = uses[t] + 1
      /\ out'[t].hm = m /\ out'[t].owed = owed'[t]
      /\ tok'  = [tok EXCEPT ![t] = tok'[t]]
      /\ uses' = [uses EXCEPT ![t] = uses'[t]]
      /\ owed' = [owed EXCEPT ![t] = owed'[t]]
      /\ out'  = [out EXCEPT ![t] = out'[t]]
  BY OnlineStep
<1>2. TypeOK'
  <2>1. uses'[t] \in 0..MaxUse  BY <1>1, UseAssumption, SMT DEF TypeOK
  <2> QED BY <1>1, <2>1 DEF TypeOK
<1>3. \A s \in Tokens \ {t} : /\ tok'[s] = tok[s] /\ uses'[s] = uses[s]
                             /\ owed'[s] = owed[s] /\ out'[s] = out[s]
  BY <1>1 DEF TypeOK
<1>4. TargetAccounting'
  <2> SUFFICES ASSUME NEW s \in Tokens, tok'[s] # NoTok
               PROVE  tok'[s].tgt =
                      ModQ(Add(ComputeTarget(Key.h, tok'[s].x1, tok'[s].x2), owed'[s]))
    BY DEF TargetAccounting
  <2>1. CASE s = t  BY <2>1, OnlineStep
  <2>2. CASE s # t  BY <1>3, <2>2 DEF TargetAccounting
  <2> QED BY <2>1, <2>2
<1>5. Bookkeeping'
  <2> SUFFICES ASSUME NEW s \in Tokens
               PROVE  /\ tok'[s] = NoTok => uses'[s] = 0
                      /\ uses'[s] = 0 => owed'[s] = Const(0)
                      /\ uses'[s] # 0 => out'[s] # NoSig
                      /\ uses'[s] = 1 => out'[s].owed = out'[s].hm
    BY DEF Bookkeeping
  <2>1. CASE s = t
    <3>1. uses[t] \in 0..MaxUse  BY DEF TypeOK
    <3>2. uses'[t] # 0 /\ (uses'[t] = 1 => uses[t] = 0)
      BY <1>1, <3>1, UseAssumption, SMT
    <3>3. uses[t] = 0 => owed'[t] = m
      <4>1. m \in QPoly  BY DataAssumption
      <4>2. uses[t] = 0 => owed[t] = Const(0)  BY DEF Bookkeeping
      <4> QED BY <1>1, <4>1, <4>2, ModQZero
    <3>4. out'[t] # NoSig  BY <1>1, NullAssumption
    <3> QED BY <1>1, <2>1, <3>2, <3>3, <3>4
  <2>2. CASE s # t  BY <1>3, <2>2 DEF Bookkeeping
  <2> QED BY <2>1, <2>2
<1>6. AcceptedVerifiesForSum'
  <2> SUFFICES ASSUME NEW s \in Tokens, out'[s] # NoSig, out'[s].ok
               PROVE  VerifyRaw(Key.h, out'[s].owed, out'[s].s2)
    BY DEF AcceptedVerifiesForSum
  <2>1. CASE s = t  BY <1>1, <2>1, OnlineStep
  <2>2. CASE s # t  BY <1>3, <2>2 DEF AcceptedVerifiesForSum
  <2> QED BY <2>1, <2>2
<1> QED BY <1>2, <1>4, <1>5, <1>6

LEMMA NextInv == IInv /\ [Next]_vars => IInv'
<1> SUFFICES ASSUME IInv, [Next]_vars PROVE IInv'  OBVIOUS
<1>1. CASE Next  BY <1>1, OfflineInv, OnlineInv DEF Next
<1>2. CASE UNCHANGED vars
  BY <1>2 DEF vars, IInv, TypeOK, TargetAccounting, Bookkeeping,
              AcceptedVerifiesForSum
<1> QED BY <1>1, <1>2

LEMMA Invariance == Spec => []IInv
<1>1. Init => IInv  BY InitInv
<1>2. IInv /\ [Next]_vars => IInv'  BY NextInv
<1> QED BY <1>1, <1>2, PTL DEF Spec

(* Type correctness of the token pool. *)
THEOREM TypeCorrect == Spec => []TypeOK
<1>1. IInv => TypeOK  BY DEF IInv
<1> QED BY <1>1, Invariance, PTL

(* sample_target holds the blinding target plus every message the token    *)
(* absorbed, reduced: the in-place update never loses the account.         *)
THEOREM TargetsAccounted == Spec => []TargetAccounting
<1>1. IInv => TargetAccounting  BY DEF IInv
<1> QED BY <1>1, Invariance, PTL

(* Whatever the online phase accepts, on any use of a token, verifies for  *)
(* the sum of what the token has absorbed.                                 *)
THEOREM AcceptedSound == Spec => []AcceptedVerifiesForSum
<1>1. IInv => AcceptedVerifiesForSum  BY DEF IInv
<1> QED BY <1>1, Invariance, PTL

(* What the online phase accepts on a token's first use verifies.          *)
THEOREM FreshAcceptedSound == Spec => []FreshAcceptedVerifies
<1>1. IInv => FreshAcceptedVerifies
  <2> SUFFICES ASSUME IInv, NEW t \in Tokens, uses[t] = 1, out[t].ok
               PROVE  VerifyRaw(Key.h, out[t].hm, out[t].s2)
    BY DEF FreshAcceptedVerifies
  <2>1. out[t] # NoSig /\ out[t].owed = out[t].hm
    BY SMT DEF IInv, Bookkeeping
  <2>2. VerifyRaw(Key.h, out[t].owed, out[t].s2)
    BY <2>1 DEF IInv, AcceptedVerifiesForSum
  <2> QED BY <2>1, <2>2
<1> QED BY <1>1, Invariance, PTL

(***************************************************************************)
(* Refinement: every step of the pool is a step of OneTimeSign.            *)
(***************************************************************************)
LEMMA RefineInit == Init => OTS!Init
BY DEF Init, OTS!Init, Life, Good

LEMMA RefineOffline ==
  ASSUME IInv, NEW t \in Tokens, Offline(t)
  PROVE  OTS!Prepare(t)
<1>1. PICK x1 \in Samples, x2 \in Samples :
        /\ tok'  = [tok EXCEPT ![t] = [x1 |-> x1, x2 |-> x2,
                                       tgt |-> ComputeTarget(Key.h, x1, x2)]]
        /\ uses' = [uses EXCEPT ![t] = 0]
        /\ out'  = out
  BY DEF Offline
<1>2. IInv'  BY OfflineInv
<1>3. TypeOK /\ TypeOK'  BY <1>2 DEF IInv
<1>4. /\ tok'[t] # NoTok /\ uses'[t] = 0
      /\ \A s \in Tokens \ {t} : tok'[s] = tok[s] /\ uses'[s] = uses[s]
  <2> DEFINE new == [x1 |-> x1, x2 |-> x2, tgt |-> ComputeTarget(Key.h, x1, x2)]
  <2>1. tok'[t] = new  BY <1>1, <1>3 DEF TypeOK
  <2>2. tok'[t] \in Token \cup {NoTok}  BY <1>3 DEF TypeOK
  <2>3. ComputeTarget(Key.h, x1, x2) \in QPoly
    <3>1. x1 \in Poly /\ x2 \in Poly /\ Key.h \in Poly
      BY DataAssumption, KeyAssumption, QPolyIsPoly DEF IsKey
    <3>2. Mul(Key.h, x2) \in Poly  BY <3>1, MulVal
    <3>3. Sub(x1, Mul(Key.h, x2)) \in Poly  BY <3>1, <3>2, AddSub
    <3> QED BY <3>3, ModQType DEF ComputeTarget
  <2>4. new \in Token  BY <2>3 DEF Token
  <2>5. tok'[t] # NoTok  BY <2>1, <2>4, NullAssumption
  <2> QED BY <1>1, <1>3, <2>5 DEF TypeOK
<1>5. Life' = [Life EXCEPT ![t] = "fresh"]
  BY <1>4 DEF Life
<1>6. Good' = [Good EXCEPT ![t] = {}]
  <2>1. uses'[t] # 1  BY <1>4, SMT
  <2> QED BY <1>1, <1>4, <2>1 DEF Good
<1> QED BY <1>5, <1>6 DEF OTS!Prepare

LEMMA RefineOnline ==
  ASSUME IInv, NEW t \in Tokens, NEW m \in Hashes, Online(t, m)
  PROVE  OTS!Sign(t) \/ OTS!Reuse(t)
<1>1. /\ tok[t] # NoTok /\ tok'[t] # NoTok
      /\ out'[t] \in Signature /\ uses'[t] = uses[t] + 1
      /\ tok'  = [tok EXCEPT ![t] = tok'[t]]
      /\ uses' = [uses EXCEPT ![t] = uses'[t]]
      /\ out'  = [out EXCEPT ![t] = out'[t]]
  BY OnlineStep
<1>2. IInv'  BY OnlineInv
<1>3. TypeOK /\ Bookkeeping' /\ AcceptedVerifiesForSum'  BY <1>2 DEF IInv
<1>4. \A s \in Tokens \ {t} : /\ tok'[s] = tok[s] /\ uses'[s] = uses[s]
                             /\ out'[s] = out[s]
  BY <1>1, <1>3 DEF TypeOK
<1>5. uses[t] \in Nat /\ uses'[t] # 0 /\ (uses'[t] = 1 <=> uses[t] = 0)
  <2>1. uses[t] \in 0..MaxUse  BY <1>3 DEF TypeOK
  <2> QED BY <1>1, <2>1, UseAssumption, SMT
<1>6. Life' = [Life EXCEPT ![t] = "spent"]
  BY <1>1, <1>4, <1>5 DEF Life
<1>7. Good' = [Good EXCEPT ![t] = Good'[t]]
  BY <1>4 DEF Good
<1>8. CASE uses[t] = 0
  <2>1. Life[t] = "fresh"  BY <1>1, <1>8 DEF Life
  <2>2. Good'[t] = IF out'[t].ok THEN {<<out'[t].hm, out'[t].s2>>} ELSE {}
    BY <1>5, <1>8 DEF Good
  <2>3. out'[t].hm \in Hashes /\ out'[t].s2 \in Poly
    BY <1>1 DEF Signature
  <2>4. Good'[t] \subseteq Hashes \X Poly  BY <2>2, <2>3
  <2>5. out'[t].ok => Verifies(out'[t].hm, out'[t].s2)
    <3>1. out'[t] # NoSig /\ out'[t].owed = out'[t].hm
      BY <1>3, <1>5, <1>8 DEF Bookkeeping
    <3> QED BY <1>3, <3>1 DEF AcceptedVerifiesForSum, Verifies
  <2>6. \A p \in Good'[t] : Verifies(p[1], p[2])
    BY <2>2, <2>5
  <2> QED BY <1>6, <1>7, <2>1, <2>4, <2>6 DEF OTS!Sign
<1>9. CASE uses[t] # 0
  <2>1. Life[t] = "spent"  BY <1>1, <1>9 DEF Life
  <2>2. Good'[t] = {}  BY <1>5, <1>9 DEF Good
  <2>3. Life' = Life
    BY <1>1, <1>4, <1>5, <1>9 DEF Life
  <2> QED BY <1>7, <2>1, <2>2, <2>3 DEF OTS!Reuse
<1> QED BY <1>8, <1>9

(* The token pool keeps the one-time promise of OneTimeSign: a step of the *)
(* pool is a step of the promise, whatever the interleaving of tokens.     *)
THEOREM Refinement == Spec => ImplementsOneTimeSign
<1>1. Init => OTS!Init  BY RefineInit
<1>2. IInv /\ [Next]_vars => [OTS!Next]_OTS!vars
  <2> SUFFICES ASSUME IInv, [Next]_vars PROVE [OTS!Next]_OTS!vars  OBVIOUS
  <2>1. CASE Next  BY <2>1, RefineOffline, RefineOnline DEF Next, OTS!Next
  <2>2. CASE UNCHANGED vars
    BY <2>2 DEF vars, OTS!vars, Life, Good
  <2> QED BY <2>1, <2>2
<1> QED BY <1>1, <1>2, Invariance, PTL DEF Spec, OTS!Spec, ImplementsOneTimeSign

-----------------------------------------------------------------------------
(***************************************************************************)
(* SignDynLazy.  For every key, message set, blinding set and number of    *)
(* attempts, the combined signer with buffers that do not overlap returns, *)
(* on an attempt within the bound, a value that verifies, and gives up     *)
(* only after its last attempt: the safety part of Signer.                 *)
(***************************************************************************)

(* What holds inside a call.                                               *)
Attempting ==
  /\ pc # "done" => hm = msg
  /\ pc = "offline" => ~short
  /\ pc = "online" => try < MaxTry

(* The message is intact until the call ends, and every attempt starts     *)
(* from a target no attempt has moved.                                     *)
DynIInv ==
  /\ DynTypeOK /\ FreshTarget /\ ReturnedVerifies /\ GivesUpLast
  /\ Attempting

LEMMA FreshTargetType ==
  ASSUME NEW x1 \in Samples, NEW x2 \in Samples
  PROVE  /\ x1 \in Poly /\ x2 \in Poly /\ Sub(x1, Mul(Key.h, x2)) \in Poly
         /\ ComputeTarget(Key.h, x1, x2) \in QPoly
<1>1. x1 \in Poly /\ x2 \in Poly /\ Key.h \in Poly
  BY DataAssumption, KeyAssumption, QPolyIsPoly DEF IsKey
<1>2. Mul(Key.h, x2) \in Poly  BY <1>1, MulVal
<1>3. Sub(x1, Mul(Key.h, x2)) \in Poly  BY <1>1, <1>2, AddSub
<1> QED BY <1>1, <1>3, ModQType DEF ComputeTarget

(* An attempt on a target that nothing has moved: what it accepts          *)
(* verifies.                                                               *)
LEMMA AttemptVerifies ==
  ASSUME NEW m \in QPoly, NEW x1 \in Samples, NEW x2 \in Samples
  PROVE  LET tgt == MqPolyAddTo(ComputeTarget(Key.h, x1, x2), m)
             res == OnlineSig(Key, tgt, x1, x2)
         IN  /\ tgt \in Poly /\ res.s2 \in Poly /\ res.ok \in BOOLEAN
             /\ res.ok => VerifyRaw(Key.h, m, res.s2)
<1> DEFINE z   == Sub(x1, Mul(Key.h, x2))
           tgt == MqPolyAddTo(ModQ(z), m)
<1>1. x1 \in Poly /\ x2 \in Poly /\ z \in Poly  BY FreshTargetType
<1>2. m \in Poly  BY QPolyIsPoly
<1>3. ModQ(z) \in QPoly /\ ModQ(z) \in Poly  BY <1>1, ModQType, QPolyIsPoly
<1> HIDE DEF z
<1>4. tgt = ModQ(Add(ModQ(z), m))
  <2>1. Const(0) \in QPoly /\ Const(0) \in Poly /\ Const(0)[0] = 0 /\ Const(0)[1] = 0
    BY ZeroPoly
  <2>2. MqPolyAddTo(ModQ(Add(ModQ(z), Const(0))), m)
          = ModQ(Add(ModQ(z), ModQ(Add(Const(0), m))))
    BY <1>3, <2>1, TargetUpdate
  <2>3. ModQ(Add(ModQ(z), Const(0))) = ModQ(z) /\ ModQ(Add(Const(0), m)) = m
    BY <1>3, ModQZero
  <2> QED BY <2>2, <2>3
<1>5. tgt \in Poly
  <2>1. Add(ModQ(z), m) \in Poly  BY <1>2, <1>3, AddSub
  <2> QED BY <1>4, <2>1, ModQType, QPolyIsPoly
<1>6. CongPoly(tgt, Add(m, z))  BY <1>1, <1>2, <1>4, AccountCong
<1> HIDE DEF tgt
<1>7. LET res == OnlineSig(Key, tgt, x1, x2)
      IN  /\ res.s2 \in Poly /\ res.ok \in BOOLEAN
          /\ res.ok => VerifyRaw(Key.h, m, res.s2)
  BY <1>1, <1>2, <1>5, <1>6, KeyAssumption, OnlineSigVerifies DEF z
<1> QED BY <1>5, <1>7 DEF tgt, z, ComputeTarget

(***************************************************************************)
(* The invariant is inductive.                                             *)
(***************************************************************************)
LEMMA DynInitInv == DynInit => DynIInv
<1> SUFFICES ASSUME DynInit PROVE DynIInv  OBVIOUS
<1>1. 0 \in 0..MaxTry  BY TryAssumption, SMT
<1>2. DynTypeOK  BY <1>1 DEF DynInit, DynTypeOK
<1>3. FreshTarget /\ ReturnedVerifies /\ GivesUpLast /\ Attempting
  BY DEF DynInit, FreshTarget, ReturnedVerifies, GivesUpLast, Attempting
<1> QED BY <1>2, <1>3 DEF DynIInv

LEMMA CallInv ==
  ASSUME DynIInv, NEW m \in Hashes, Call(m)
  PROVE  DynIInv'
<1>1. /\ pc' = "offline" /\ try' = 0 /\ hm' = m /\ msg' = m /\ short' = FALSE
      /\ token' = token /\ (sig' = m \/ sig' = sig)
  BY DEF Call
<1>2. m \in Poly  BY DataAssumption, QPolyIsPoly
<1>3. m # None  BY <1>2, NoneAssumption
<1>4. try' \in 0..MaxTry  BY <1>1, TryAssumption, SMT
<1>5. DynTypeOK'  BY <1>1, <1>2, <1>3, <1>4 DEF DynIInv, DynTypeOK
<1>6. FreshTarget' /\ ReturnedVerifies' /\ GivesUpLast'
  BY <1>1 DEF FreshTarget, ReturnedVerifies, GivesUpLast
<1>7. Attempting'  BY <1>1 DEF Attempting
<1> QED BY <1>5, <1>6, <1>7 DEF DynIInv

LEMMA DynOfflineInv ==
  ASSUME DynIInv, DynOffline
  PROVE  DynIInv'
<1>1. PICK x1 \in Samples, x2 \in Samples :
        token' = [x1 |-> x1, x2 |-> x2, tgt |-> ComputeTarget(Key.h, x1, x2)]
  BY DEF DynOffline, NewToken
<1>2. /\ pc = "offline"
      /\ pc' = IF try < MaxTry THEN "online" ELSE "done"
      /\ try' = try /\ hm' = hm /\ sig' = sig /\ msg' = msg /\ short' = short
  BY DEF DynOffline
<1>3. token' \in DynToken /\ token' # None
  <2>1. ComputeTarget(Key.h, x1, x2) \in Poly  BY FreshTargetType, QPolyIsPoly
  <2> QED BY <1>1, <2>1, NoneAssumption DEF DynToken
<1>4. DynTypeOK'  BY <1>2, <1>3 DEF DynIInv, DynTypeOK
<1>5. FreshTarget'
  <2>1. token'.x1 = x1 /\ token'.x2 = x2 /\ token'.tgt = ComputeTarget(Key.h, x1, x2)
    BY <1>1
  <2> QED BY <2>1 DEF FreshTarget
<1>6. ~short  BY <1>2 DEF DynIInv, Attempting
<1>7. ReturnedVerifies'  BY <1>2, <1>6 DEF ReturnedVerifies
<1>8. GivesUpLast'
  <2>1. try \in 0..MaxTry  BY DEF DynIInv, DynTypeOK
  <2>2. pc' = "done" => try' = MaxTry  BY <1>2, <2>1, TryAssumption, SMT
  <2> QED BY <2>2 DEF GivesUpLast
<1>9. Attempting'  BY <1>2, <1>6 DEF DynIInv, Attempting
<1> QED BY <1>4, <1>5, <1>7, <1>8, <1>9 DEF DynIInv

LEMMA DynOnlineInv ==
  ASSUME DynIInv, DynOnline, ~Overlap
  PROVE  DynIInv'
<1> DEFINE tgt == MqPolyAddTo(token.tgt, hm)
           res == OnlineSig(Key, tgt, token.x1, token.x2)
<1>1. /\ pc = "online" /\ token' = [token EXCEPT !.tgt = tgt] /\ sig' = res.s2
      /\ hm' = hm /\ short' = res.ok /\ msg' = msg
      /\ \/ res.ok /\ pc' = "done" /\ try' = try
         \/ ~res.ok /\ pc' = "offline" /\ try' = try + 1
  BY DEF DynOnline
<1>2. /\ token \in DynToken /\ hm = msg /\ msg \in Hashes /\ try \in 0..MaxTry
      /\ try < MaxTry /\ hm # None /\ msg # None
      /\ token.tgt = ComputeTarget(Key.h, token.x1, token.x2)
  BY <1>1 DEF DynIInv, DynTypeOK, FreshTarget, Attempting
<1>3. hm \in QPoly /\ token.x1 \in Samples /\ token.x2 \in Samples
  BY <1>2, DataAssumption DEF DynToken
<1>4. /\ tgt \in Poly /\ res.s2 \in Poly /\ res.ok \in BOOLEAN
      /\ res.ok => VerifyRaw(Key.h, hm, res.s2)
  BY <1>2, <1>3, AttemptVerifies
<1> HIDE DEF tgt, res
<1>5. token' \in DynToken  BY <1>1, <1>2, <1>4 DEF DynToken
<1>6. token' # None  BY <1>5, NoneAssumption
<1>7. try' \in 0..MaxTry  BY <1>1, <1>2, TryAssumption, SMT
<1>8. DynTypeOK'
  BY <1>1, <1>2, <1>4, <1>5, <1>6, <1>7 DEF DynIInv, DynTypeOK
<1>9. FreshTarget'  BY <1>1 DEF FreshTarget
<1>10. ReturnedVerifies'
  BY <1>1, <1>2, <1>4 DEF ReturnedVerifies
<1>11. GivesUpLast'  BY <1>1 DEF GivesUpLast
<1>12. Attempting'
  BY <1>1, <1>2 DEF Attempting
<1> QED BY <1>8, <1>9, <1>10, <1>11, <1>12 DEF DynIInv

LEMMA DynNextInv ==
  ASSUME ~Overlap
  PROVE  DynIInv /\ [DynNext]_dynVars => DynIInv'
<1> SUFFICES ASSUME DynIInv, [DynNext]_dynVars PROVE DynIInv'  OBVIOUS
<1>1. CASE DynNext  BY <1>1, CallInv, DynOfflineInv, DynOnlineInv DEF DynNext
<1>2. CASE UNCHANGED dynVars
  BY <1>2 DEF dynVars, DynIInv, DynTypeOK, FreshTarget, ReturnedVerifies, GivesUpLast,
              Attempting
<1> QED BY <1>1, <1>2

LEMMA DynInvariance ==
  ASSUME ~Overlap
  PROVE  DynSpec => []DynIInv
<1>1. DynInit => DynIInv  BY DynInitInv
<1>2. DynIInv /\ [DynNext]_dynVars => DynIInv'  BY DynNextInv
<1> QED BY <1>1, <1>2, PTL DEF DynSpec

(* A call whose buffers do not overlap, ending within the bound, leaves a  *)
(* value that verifies for the caller's message.                           *)
THEOREM ReturnedSound ==
  ASSUME ~Overlap
  PROVE  DynSpec => []ReturnedVerifies
<1>1. DynIInv => ReturnedVerifies  BY DEF DynIInv
<1> QED BY <1>1, DynInvariance, PTL

(* The retry loop never gives up before its last attempt. *)
THEOREM GivesUpLastHolds ==
  ASSUME ~Overlap
  PROVE  DynSpec => []GivesUpLast
<1>1. DynIInv => GivesUpLast  BY DEF DynIInv
<1> QED BY <1>1, DynInvariance, PTL

(***************************************************************************)
(* Refinement of Signer's safety part.                                     *)
(***************************************************************************)
LEMMA StepRefines ==
  ASSUME ~Overlap, DynIInv, [DynNext]_dynVars
  PROVE  [S!Next]_S!vars
<1>1. ASSUME NEW m \in Hashes, Call(m)
      PROVE  S!Call(m)
  BY <1>1 DEF Call, S!Call, Answer
<1>2. CASE DynOffline
  <2>1. /\ pc = "offline" /\ msg' = msg /\ ~short /\ ~short'
        /\ pc' = "online" \/ pc' = "done"
    BY <1>2 DEF DynOffline, DynIInv, Attempting
  <2>2. Answer = None /\ Answer' = None  BY <2>1 DEF Answer
  <2>3. CASE pc' = "online"  BY <2>1, <2>2, <2>3 DEF S!vars
  <2>4. CASE pc' = "done"
    <3>1. S!Return  BY <2>1, <2>2, <2>4 DEF S!Return
    <3> QED BY <3>1 DEF S!Next
  <2> QED BY <2>1, <2>3, <2>4
<1>3. CASE DynOnline
  <2>1. DynIInv'  BY <1>3, DynOnlineInv
  <2>2. /\ pc = "online" /\ msg' = msg
        /\ \/ short' /\ pc' = "done"
           \/ ~short' /\ pc' = "offline"
    BY <1>3 DEF DynOnline
  <2>3. Answer = None  BY <2>2 DEF Answer
  <2>4. CASE pc' = "offline"
    <3>1. Answer' = None  BY <2>4 DEF Answer
    <3> QED BY <2>2, <2>3, <2>4, <3>1 DEF S!vars
  <2>5. CASE pc' = "done"
    <3>1. short' /\ Answer' = sig'  BY <2>2, <2>5 DEF Answer
    <3>2. sig' \in Poly \cup {None}  BY <2>1 DEF DynIInv, DynTypeOK
    <3>3. VerifyRaw(Key.h, msg', sig')
      BY <2>1, <2>5, <3>1 DEF DynIInv, ReturnedVerifies
    <3>4. S!Return
      BY <2>2, <2>5, <3>1, <3>2, <3>3 DEF S!Return, Verifies
    <3> QED BY <3>4 DEF S!Next
  <2> QED BY <2>2, <2>4, <2>5
<1>4. CASE UNCHANGED dynVars  BY <1>4 DEF dynVars, S!vars, Answer
<1>5. CASE DynNext  BY <1>1, <1>2, <1>3, <1>5 DEF DynNext, S!Next
<1> QED BY <1>4, <1>5

(* The combined signer with separate buffers is a Signer, as far as safety *)
(* goes; that every call returns is checked by TLC.                        *)
THEOREM SafetyRefinement ==
  ASSUME ~Overlap
  PROVE  DynSpec => S!Safety
<1>1. DynInit => S!Init  BY DEF DynInit, S!Init, Answer
<1>2. DynIInv /\ [DynNext]_dynVars => [S!Next]_S!vars  BY StepRefines
<1> QED BY <1>1, <1>2, DynInvariance, PTL DEF DynSpec, S!Safety

(* Every reachable state of the loop is well typed, its counter within the *)
(* limit, when the buffers do not overlap.                                 *)
THEOREM DynTypeCorrect ==
  ASSUME ~Overlap
  PROVE  DynSpec => []DynTypeOK
<1>1. DynIInv => DynTypeOK  BY DEF DynIInv
<1> QED BY <1>1, DynInvariance, PTL
=============================================================================
