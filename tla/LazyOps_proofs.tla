--------------------------- MODULE LazyOps_proofs ---------------------------
(***************************************************************************)
(* Facts about the arithmetic of LazyOps, for every odd modulus and every  *)
(* key.  They lead to OnlineSigVerifies: what the online phase accepts for *)
(* a target congruent to c + x1 - h*x2 verifies as a signature of c.       *)
(***************************************************************************)
EXTENDS LazyOps, TLAPS

(* The modulus is positive, odd and greater than 2. *)
LEMMA QFacts ==
  /\ Q \in Nat /\ Q > 2 /\ Q < 65536
  /\ \E k \in Nat : Q = 2 * k + 1 /\ (Q - 1) \div 2 = k
BY QAssumption, SMTT(30)

(* Only zero is a multiple of Q strictly between -Q and Q. *)
LEMMA SmallMultiple ==
  ASSUME NEW m \in Int, -Q < m * Q, m * Q < Q
  PROVE  m = 0
<1>1. CASE m >= 1
  <2>1. m * Q >= Q  BY <1>1, QFacts, SMTT(30)
  <2> QED BY <2>1, QFacts, SMT
<1>2. CASE m <= -1
  <2>1. m * Q <= -Q  BY <1>2, QFacts, SMTT(30)
  <2> QED BY <2>1, QFacts, SMT
<1> QED BY <1>1, <1>2, SMT

(* Division with remainder. *)
LEMMA ModSplit ==
  ASSUME NEW x \in Int
  PROVE  /\ x % Q \in 0..(Q - 1)
         /\ \E k \in Int : x = k * Q + (x % Q)
<1>1. x % Q \in 0..(Q - 1)  BY QFacts, SMT
<1>2. x \div Q \in Int  BY QFacts, SMT
<1>3. x = (x \div Q) * Q + (x % Q)  BY QFacts, SMTT(30)
<1> QED BY <1>1, <1>2, <1>3

(* The remainder is the only representative in 0..Q-1. *)
LEMMA ModUnique ==
  ASSUME NEW x \in Int, NEW k \in Int, NEW r \in 0..(Q - 1), x = k * Q + r
  PROVE  x % Q = r
<1>1. PICK j \in Int : x = j * Q + (x % Q)  BY ModSplit
<1>2. x % Q \in 0..(Q - 1)  BY ModSplit
<1>3. (k - j) * Q = (x % Q) - r  BY <1>1, <1>2, QFacts, SMTT(30)
<1>4. k - j = 0  BY <1>2, <1>3, SmallMultiple, QFacts, SMT
<1> QED BY <1>2, <1>3, <1>4, QFacts, SMT

(* Rounding to a multiple of 1/Q is exact on multiples of Q. *)
LEMMA RintExact ==
  ASSUME NEW x \in Int
  PROVE  RintDivQ(x * Q) = x
<1>1. PICK k \in Nat : Q = 2 * k + 1 /\ (Q - 1) \div 2 = k  BY QFacts
<1>2. (x * Q + k) % Q = k
  BY <1>1, ModUnique, QFacts, SMT
<1>3. PICK j \in Int : /\ x * Q + k = j * Q + ((x * Q + k) % Q)
                       /\ j = (x * Q + k) \div Q
  BY <1>1, QFacts, SMTT(30)
<1>4. (x - j) * Q = 0  BY <1>2, <1>3, <1>1, QFacts, SMTT(30)
<1>5. x = j  BY <1>4, SmallMultiple, QFacts, SMT
<1> QED BY <1>1, <1>3, <1>5 DEF RintDivQ

LEMMA RintType ==
  ASSUME NEW x \in Int
  PROVE  RintDivQ(x) \in Int
BY QFacts, SMT DEF RintDivQ

(***************************************************************************)
(* Congruence modulo Q, as the existence of a quotient.                    *)
(***************************************************************************)
Cong(x, y) == \E k \in Int : x - y = k * Q

LEMMA CongOfMod ==
  ASSUME NEW x \in Int
  PROVE  Cong(x % Q, x)
<1>1. PICK k \in Int : x = k * Q + (x % Q)  BY ModSplit
<1>2. x % Q \in Int  BY ModSplit, QFacts, SMT
<1>3. (x % Q) - x = (-k) * Q  BY <1>1, <1>2, QFacts, SMTT(30)
<1> QED BY <1>3 DEF Cong

LEMMA ModOfCong ==
  ASSUME NEW x \in Int, NEW y \in Int, Cong(x, y)
  PROVE  x % Q = y % Q
<1>1. PICK k \in Int : x - y = k * Q  BY DEF Cong
<1>2. PICK j \in Int : y = j * Q + (y % Q)  BY ModSplit
<1>3. y % Q \in 0..(Q - 1)  BY ModSplit
<1>4. x = (k + j) * Q + (y % Q)  BY <1>1, <1>2, <1>3, QFacts, SMTT(30)
<1> QED BY <1>3, <1>4, ModUnique, SMT

LEMMA CongZero ==
  ASSUME NEW x \in Int, NEW y \in Int, (x - y) % Q = 0
  PROVE  Cong(x, y)
<1>1. PICK k \in Int : x - y = k * Q + ((x - y) % Q)  BY ModSplit
<1>2. x - y = k * Q  BY <1>1, QFacts, SMT
<1> QED BY <1>2 DEF Cong

(* The centred representative is the smallest one. *)
LEMMA CenterSmallest ==
  ASSUME NEW y \in Int, NEW s \in Int, Cong(y, -s)
  PROVE  LET w == y % Q
             c == IF w > (Q - 1) \div 2 THEN w - Q ELSE w
         IN  c \in Int /\ c * c <= s * s
<1> DEFINE w == y % Q
           c == IF w > (Q - 1) \div 2 THEN w - Q ELSE w
<1>1. PICK q \in Nat : Q = 2 * q + 1 /\ (Q - 1) \div 2 = q  BY QFacts
<1>2. w \in 0..(Q - 1)  BY ModSplit
<1>3. c \in (-q)..q  BY <1>1, <1>2, SMT
<1>4. PICK j \in Int : y = j * Q + w  BY ModSplit
<1>5. PICK k \in Int : y - (-s) = k * Q  BY DEF Cong
<1>6. \E m \in Int : c + s = m * Q
  <2> HIDE DEF w, c
  <2>1. w + s = (k - j) * Q
    <3>1. w \in Int  BY <1>2, QFacts, SMT
    <3>2. y + s = k * Q  BY <1>5, QFacts, SMT
    <3>3. (k - j) * Q = k * Q - j * Q  BY QFacts, SMTT(30)
    <3> QED BY <3>1, <3>2, <3>3, <1>4, QFacts, SMT
  <2>2. w - Q + s = (k - j - 1) * Q  BY <2>1, <1>2, QFacts, SMTT(30)
  <2>3. c = w \/ c = w - Q  BY DEF c
  <2>4. CASE c = w  BY <2>1, <2>4
  <2>5. CASE c = w - Q  BY <2>2, <2>5
  <2> QED BY <2>3, <2>4, <2>5
<1>7. PICK m \in Int : c + s = m * Q  BY <1>6
<1>8. c * c <= s * s
  <2>1. CASE m = 0
    <3>1. c = -s  BY <2>1, <1>3, <1>7, <1>1, SMT
    <3> QED BY <3>1, <1>3, SMTT(30)
  <2>2. CASE m >= 1
    <3>1. m * Q >= Q  BY <2>2, QFacts, SMTT(30)
    <3>2. s > q  BY <3>1, <1>7, <1>3, <1>1, SMT
    <3> HIDE DEF c
    <3> QED BY <3>2, <1>3, <1>1, SMTT(30)
  <2>3. CASE m <= -1
    <3>1. m * Q <= -Q  BY <2>3, QFacts, SMTT(30)
    <3>2. s < -q  BY <3>1, <1>7, <1>3, <1>1, SMT
    <3> HIDE DEF c
    <3> QED BY <3>2, <1>3, <1>1, SMTT(30)
  <2> QED BY <2>1, <2>2, <2>3, SMT
<1> QED BY <1>3, <1>8, <1>1, SMT

(***************************************************************************)
(* The ring Z[X]/(X^2+1).                                                  *)
(***************************************************************************)
LEMMA CoefTwo == Coef = {0, 1}
BY SMT DEF Coef

LEMMA PolyEq ==
  ASSUME NEW a \in Poly, NEW b \in Poly, a[0] = b[0], a[1] = b[1]
  PROVE  a = b
BY CoefTwo, SMT DEF Poly

LEMMA PolyValues ==
  ASSUME NEW a \in Poly
  PROVE  a[0] \in Int /\ a[1] \in Int
BY CoefTwo, SMT DEF Poly

LEMMA QPolyIsPoly == QPoly \subseteq Poly
BY QFacts, SMT DEF QPoly, Poly

LEMMA AddSub ==
  ASSUME NEW a \in Poly, NEW b \in Poly
  PROVE  /\ Add(a, b) \in Poly /\ Sub(a, b) \in Poly /\ Neg(a) \in Poly
         /\ Add(a, b)[0] = a[0] + b[0] /\ Add(a, b)[1] = a[1] + b[1]
         /\ Sub(a, b)[0] = a[0] - b[0] /\ Sub(a, b)[1] = a[1] - b[1]
         /\ Neg(a)[0] = -a[0] /\ Neg(a)[1] = -a[1]
BY CoefTwo, SMT DEF Add, Sub, Neg, Poly

LEMMA MulVal ==
  ASSUME NEW a \in Poly, NEW b \in Poly
  PROVE  /\ Mul(a, b) \in Poly
         /\ Mul(a, b)[0] = a[0] * b[0] - a[1] * b[1]
         /\ Mul(a, b)[1] = a[0] * b[1] + a[1] * b[0]
<1>1. a[0] \in Int /\ a[1] \in Int /\ b[0] \in Int /\ b[1] \in Int
  BY PolyValues
<1>2. /\ a[0] * b[0] - a[1] * b[1] \in Int
      /\ a[0] * b[1] + a[1] * b[0] \in Int
  BY <1>1, SMT
<1> QED BY <1>2, CoefTwo, SMT DEF Mul, Poly

LEMMA MulComm ==
  ASSUME NEW a \in Poly, NEW b \in Poly
  PROVE  Mul(a, b) = Mul(b, a)
<1>1. a[0] \in Int /\ a[1] \in Int /\ b[0] \in Int /\ b[1] \in Int
  BY PolyValues
<1>2. /\ Mul(a, b)[0] = Mul(b, a)[0]
      /\ Mul(a, b)[1] = Mul(b, a)[1]
  BY <1>1, MulVal, SMTT(30)
<1> QED BY <1>2, MulVal, PolyEq

LEMMA MulAssoc ==
  ASSUME NEW a \in Poly, NEW b \in Poly, NEW c \in Poly
  PROVE  Mul(Mul(a, b), c) = Mul(a, Mul(b, c))
<1>1. /\ a[0] \in Int /\ a[1] \in Int /\ b[0] \in Int /\ b[1] \in Int
      /\ c[0] \in Int /\ c[1] \in Int
  BY PolyValues
<1>2. Mul(a, b) \in Poly /\ Mul(b, c) \in Poly  BY MulVal
<1>3. /\ Mul(Mul(a, b), c)[0] = Mul(a, Mul(b, c))[0]
      /\ Mul(Mul(a, b), c)[1] = Mul(a, Mul(b, c))[1]
  BY <1>1, <1>2, MulVal, SMTT(60)
<1> QED BY <1>2, <1>3, MulVal, PolyEq

LEMMA MulDistrib ==
  ASSUME NEW a \in Poly, NEW b \in Poly, NEW c \in Poly
  PROVE  Mul(Add(a, b), c) = Add(Mul(a, c), Mul(b, c))
<1>1. /\ a[0] \in Int /\ a[1] \in Int /\ b[0] \in Int /\ b[1] \in Int
      /\ c[0] \in Int /\ c[1] \in Int
  BY PolyValues
<1>2. Add(a, b) \in Poly /\ Mul(a, c) \in Poly /\ Mul(b, c) \in Poly
  BY MulVal, AddSub
<1>3. /\ Mul(Add(a, b), c)[0] = Add(Mul(a, c), Mul(b, c))[0]
      /\ Mul(Add(a, b), c)[1] = Add(Mul(a, c), Mul(b, c))[1]
  BY <1>1, <1>2, MulVal, AddSub, SMTT(60)
<1> QED BY <1>2, <1>3, MulVal, AddSub, PolyEq

(* Two polynomials that are congruent coefficient by coefficient. *)
CongPoly(a, b) == Cong(a[0], b[0]) /\ Cong(a[1], b[1])

LEMMA CongPolyOfCongruent ==
  ASSUME NEW a \in Poly, NEW b \in Poly, Congruent(a, b)
  PROVE  CongPoly(a, b)
BY CongZero, PolyValues, CoefTwo DEF Congruent, CongPoly

LEMMA CongPolyMul ==
  ASSUME NEW a \in Poly, NEW p \in Poly, NEW q \in Poly, CongPoly(p, q)
  PROVE  CongPoly(Mul(a, p), Mul(a, q))
<1>1. PICK j \in Int : p[0] - q[0] = j * Q  BY DEF CongPoly, Cong
<1>2. PICK k \in Int : p[1] - q[1] = k * Q  BY DEF CongPoly, Cong
<1>3. /\ a[0] \in Int /\ a[1] \in Int /\ p[0] \in Int /\ p[1] \in Int
      /\ q[0] \in Int /\ q[1] \in Int
  BY PolyValues
<1>4. p[0] = q[0] + j * Q /\ p[1] = q[1] + k * Q
  BY <1>1, <1>2, <1>3, QFacts, SMT
<1>5. Mul(a, p)[0] - Mul(a, q)[0] = (a[0] * j - a[1] * k) * Q
  <2>1. Mul(a, p)[0] - Mul(a, q)[0]
          = a[0] * (j * Q) - a[1] * (k * Q)
    BY <1>1, <1>2, <1>3, MulVal, QFacts, SMTT(60)
  <2> QED BY <2>1, <1>3, QFacts, SMTT(30)
<1>6. Mul(a, p)[1] - Mul(a, q)[1] = (a[0] * k + a[1] * j) * Q
  <2>1. Mul(a, p)[1] - Mul(a, q)[1]
          = a[0] * (k * Q) + a[1] * (j * Q)
    BY <1>1, <1>2, <1>3, MulVal, QFacts, SMTT(60)
  <2> QED BY <2>1, <1>3, QFacts, SMTT(30)
<1>7. a[0] * j - a[1] * k \in Int /\ a[0] * k + a[1] * j \in Int
  BY <1>3, SMT
<1> QED BY <1>5, <1>6, <1>7 DEF CongPoly, Cong

-----------------------------------------------------------------------------
(***************************************************************************)
(* The preimage in the basis of a key: whatever the two roundings return,  *)
(* it is t minus a lattice vector.                                         *)
(***************************************************************************)
LEMMA PreimageOnKey ==
  ASSUME NEW b, IsKey(b), NEW t \in Poly
  PROVE  \E a1, a2 \in Poly :
           /\ ShortPreimage(b, t).r1 = Sub(t, Add(Mul(b.g, a1), Mul(b.G, a2)))
           /\ ShortPreimage(b, t).r2 = Neg(Add(Mul(b.f, a1), Mul(b.F, a2)))
<1> DEFINE a1 == RintDivQPoly(Neg(Mul(t, b.F)))
           a2 == RintDivQPoly(Mul(t, b.f))
           t1 == RintDivQPoly(Mul(t, Sub(Mul(b.f, b.G), Mul(b.g, b.F))))
<1>1. b.f \in Poly /\ b.g \in Poly /\ b.F \in Poly /\ b.G \in Poly
  BY DEF IsKey
<1>2. ASSUME NEW p \in Poly PROVE RintDivQPoly(p) \in Poly
  BY RintType, PolyValues, CoefTwo, SMT DEF RintDivQPoly, Poly
<1>3. a1 \in Poly /\ a2 \in Poly
  BY <1>1, <1>2, MulVal, AddSub
<1>4. t1 = t
  <2>1. Sub(Mul(b.f, b.G), Mul(b.g, b.F)) = Const(Q)  BY DEF IsKey
  <2>2. Const(Q) \in Poly /\ Const(Q)[0] = Q /\ Const(Q)[1] = 0
    BY QFacts, CoefTwo, SMT DEF Const, Poly
  <2>3. t[0] \in Int /\ t[1] \in Int  BY PolyValues
  <2>4. Mul(t, Const(Q))[0] = t[0] * Q /\ Mul(t, Const(Q))[1] = t[1] * Q
    BY <2>2, <2>3, MulVal, QFacts, SMTT(30)
  <2>5. t1[0] = RintDivQ(t[0] * Q) /\ t1[1] = RintDivQ(t[1] * Q)
    BY <2>1, <2>4, CoefTwo DEF RintDivQPoly
  <2>6. t1 \in Poly  BY <1>1, <1>2, MulVal, AddSub
  <2> HIDE DEF t1
  <2> QED BY <2>3, <2>5, <2>6, RintExact, PolyEq
<1>5. /\ ShortPreimage(b, t).r1 = Sub(t1, Add(Mul(b.g, a1), Mul(b.G, a2)))
      /\ ShortPreimage(b, t).r2 = Neg(Add(Mul(b.f, a1), Mul(b.F, a2)))
  BY Zenon DEF ShortPreimage
<1> HIDE DEF a1, a2, t1
<1> QED BY <1>3, <1>4, <1>5

(***************************************************************************)
(* The verifier's first component is congruent to the signer's.            *)
(***************************************************************************)
LEMMA SigCongruence ==
  ASSUME NEW b, IsKey(b), NEW t \in Poly, NEW c \in Poly,
         NEW x1 \in Poly, NEW x2 \in Poly,
         CongPoly(t, Add(c, Sub(x1, Mul(b.h, x2))))
  PROVE  LET p  == ShortPreimage(b, t)
             s1 == Sub(p.r1, x1)
             s2 == Sub(x2, p.r2)
         IN  /\ s1 \in Poly /\ s2 \in Poly
             /\ CongPoly(Sub(Mul(s2, b.h), c), Neg(s1))
<1> DEFINE p  == ShortPreimage(b, t)
           s1 == Sub(p.r1, x1)
           s2 == Sub(x2, p.r2)
<1>1. /\ b.f \in Poly /\ b.g \in Poly /\ b.F \in Poly /\ b.G \in Poly
      /\ b.h \in Poly
  BY QPolyIsPoly DEF IsKey
<1>2. PICK a1 \in Poly, a2 \in Poly :
        /\ p.r1 = Sub(t, Add(Mul(b.g, a1), Mul(b.G, a2)))
        /\ p.r2 = Neg(Add(Mul(b.f, a1), Mul(b.F, a2)))
  BY PreimageOnKey
<1> DEFINE ga == Mul(a1, b.g)
           Ga == Mul(a2, b.G)
           fh == Mul(a1, Mul(b.f, b.h))
           Fh == Mul(a2, Mul(b.F, b.h))
           xh == Mul(x2, b.h)
<1>3. /\ ga \in Poly /\ Ga \in Poly /\ fh \in Poly /\ Fh \in Poly /\ xh \in Poly
  BY <1>1, MulVal
<1>4. p.r1 = Sub(t, Add(ga, Ga))
  BY <1>1, <1>2, MulComm
<1>5. s1 \in Poly /\ s2 \in Poly
  <2>1. Add(ga, Ga) \in Poly  BY <1>3, AddSub
  <2>2. Sub(t, Add(ga, Ga)) \in Poly  BY <2>1, AddSub
  <2>3. Mul(b.f, a1) \in Poly /\ Mul(b.F, a2) \in Poly  BY <1>1, MulVal
  <2>4. Add(Mul(b.f, a1), Mul(b.F, a2)) \in Poly  BY <2>3, AddSub
  <2>5. Neg(Add(Mul(b.f, a1), Mul(b.F, a2))) \in Poly  BY <2>4, AddSub
  <2> HIDE DEF p
  <2>6. p.r1 \in Poly /\ p.r2 \in Poly  BY <1>2, <1>4, <2>2, <2>5
  <2> QED BY <2>6, AddSub
<1>6. Mul(s2, b.h) = Add(xh, Add(fh, Fh))
  <2>1. Mul(b.f, a1) \in Poly /\ Mul(b.F, a2) \in Poly  BY <1>1, MulVal
  <2>2. Add(Mul(b.f, a1), Mul(b.F, a2)) \in Poly  BY <2>1, AddSub
  <2>3. s2 = Add(x2, Add(Mul(b.f, a1), Mul(b.F, a2)))
    <3> DEFINE w == Add(Mul(b.f, a1), Mul(b.F, a2))
    <3>1. w \in Poly /\ Neg(w) \in Poly  BY <2>2, AddSub
    <3>2. s2 = Sub(x2, Neg(w))  BY <1>2
    <3> HIDE DEF w, s2
    <3>3. /\ Sub(x2, Neg(w))[0] = x2[0] - (-w[0])
          /\ Sub(x2, Neg(w))[1] = x2[1] - (-w[1])
          /\ Add(x2, w)[0] = x2[0] + w[0] /\ Add(x2, w)[1] = x2[1] + w[1]
          /\ Sub(x2, Neg(w)) \in Poly /\ Add(x2, w) \in Poly
      BY <3>1, AddSub
    <3>4. x2[0] - (-w[0]) = x2[0] + w[0] /\ x2[1] - (-w[1]) = x2[1] + w[1]
      BY <3>1, PolyValues, SMT
    <3>5. Sub(x2, Neg(w)) = Add(x2, w)  BY <3>3, <3>4, PolyEq
    <3> QED BY <3>2, <3>5 DEF w
  <2>4. Mul(s2, b.h) = Add(xh, Mul(Add(Mul(b.f, a1), Mul(b.F, a2)), b.h))
    BY <1>1, <2>2, <2>3, MulDistrib
  <2>5. Mul(Add(Mul(b.f, a1), Mul(b.F, a2)), b.h)
          = Add(Mul(Mul(b.f, a1), b.h), Mul(Mul(b.F, a2), b.h))
    BY <1>1, <2>1, MulDistrib
  <2>6. Mul(Mul(b.f, a1), b.h) = fh /\ Mul(Mul(b.F, a2), b.h) = Fh
    BY <1>1, MulComm, MulAssoc
  <2> QED BY <2>4, <2>5, <2>6
<1>7. CongPoly(fh, ga) /\ CongPoly(Fh, Ga)
  <2>1. CongPoly(Mul(b.f, b.h), b.g) /\ CongPoly(Mul(b.F, b.h), b.G)
    BY <1>1, MulVal, CongPolyOfCongruent DEF IsKey
  <2>2. Mul(b.f, b.h) \in Poly /\ Mul(b.F, b.h) \in Poly  BY <1>1, MulVal
  <2> QED BY <1>1, <2>1, <2>2, CongPolyMul
<1>8. Mul(b.h, x2) = xh  BY <1>1, MulComm
<1>9. CongPoly(t, Add(c, Sub(x1, xh)))  BY <1>8
<1> HIDE DEF p, ga, Ga, fh, Fh, xh
<1>10. ASSUME NEW u \in {0, 1}
       PROVE  Cong(Sub(Mul(s2, b.h), c)[u], Neg(s1)[u])
  <2>1. /\ Sub(Mul(s2, b.h), c)[u] = (xh[u] + (fh[u] + Fh[u])) - c[u]
        /\ Neg(s1)[u] = -((t[u] - (ga[u] + Ga[u])) - x1[u])
        /\ Add(c, Sub(x1, xh))[u] = c[u] + (x1[u] - xh[u])
    <3>1. /\ Add(fh, Fh) \in Poly /\ Add(ga, Ga) \in Poly /\ Sub(x1, xh) \in Poly
          /\ Add(xh, Add(fh, Fh)) \in Poly /\ Sub(t, Add(ga, Ga)) \in Poly
      BY <1>3, AddSub
    <3> HIDE DEF s2
    <3>2. /\ Add(fh, Fh)[u] = fh[u] + Fh[u]
          /\ Add(ga, Ga)[u] = ga[u] + Ga[u]
          /\ Sub(x1, xh)[u] = x1[u] - xh[u]
      BY <1>3, AddSub
    <3>3. /\ Add(xh, Add(fh, Fh))[u] = xh[u] + Add(fh, Fh)[u]
          /\ Sub(t, Add(ga, Ga))[u] = t[u] - Add(ga, Ga)[u]
          /\ Add(c, Sub(x1, xh))[u] = c[u] + Sub(x1, xh)[u]
      BY <1>3, <3>1, AddSub
    <3>4. Sub(Mul(s2, b.h), c)[u] = Add(xh, Add(fh, Fh))[u] - c[u]
      BY <1>6, <3>1, AddSub
    <3>5. Neg(s1)[u] = -(Sub(t, Add(ga, Ga))[u] - x1[u])
      <4>1. s1 = Sub(Sub(t, Add(ga, Ga)), x1)  BY <1>4
      <4>2. s1[u] = Sub(t, Add(ga, Ga))[u] - x1[u]  BY <4>1, <3>1, AddSub
      <4>3. Neg(s1)[u] = -s1[u]  BY <1>5, AddSub
      <4> QED BY <4>2, <4>3
    <3> QED BY <3>2, <3>3, <3>4, <3>5
  <2>2. /\ xh[u] \in Int /\ fh[u] \in Int /\ Fh[u] \in Int /\ ga[u] \in Int
        /\ Ga[u] \in Int /\ c[u] \in Int /\ t[u] \in Int /\ x1[u] \in Int
    BY <1>3, PolyValues
  <2>3. /\ Cong(t[u], c[u] + (x1[u] - xh[u]))
        /\ Cong(fh[u], ga[u]) /\ Cong(Fh[u], Ga[u])
    BY <1>7, <1>9, <2>1 DEF CongPoly
  <2>4. PICK i \in Int : t[u] - (c[u] + (x1[u] - xh[u])) = i * Q
    BY <2>3 DEF Cong
  <2>5. PICK j \in Int : fh[u] - ga[u] = j * Q  BY <2>3 DEF Cong
  <2>6. PICK k \in Int : Fh[u] - Ga[u] = k * Q  BY <2>3 DEF Cong
  <2>7. ((xh[u] + (fh[u] + Fh[u])) - c[u]) - (-((t[u] - (ga[u] + Ga[u])) - x1[u]))
          = (i + j + k) * Q
    <3>1. (i + j + k) * Q = i * Q + j * Q + k * Q  BY QFacts, SMTT(30)
    <3>2. i * Q \in Int /\ j * Q \in Int /\ k * Q \in Int  BY QFacts, SMT
    <3>3. ASSUME NEW xx \in Int, NEW ff \in Int, NEW FF \in Int, NEW gg \in Int,
                 NEW GG \in Int, NEW cc \in Int, NEW tt \in Int, NEW yy \in Int
          PROVE  ((xx + (ff + FF)) - cc) - (-((tt - (gg + GG)) - yy))
                   = (tt - (cc + (yy - xx))) + (ff - gg) + (FF - GG)
      BY SMT
    <3>4. ((xh[u] + (fh[u] + Fh[u])) - c[u]) - (-((t[u] - (ga[u] + Ga[u])) - x1[u]))
            = (t[u] - (c[u] + (x1[u] - xh[u]))) + (fh[u] - ga[u]) + (Fh[u] - Ga[u])
      BY <2>2, <3>3
    <3> QED BY <2>4, <2>5, <2>6, <3>1, <3>4
  <2> QED BY <2>1, <2>7 DEF Cong
<1>11. CongPoly(Sub(Mul(s2, b.h), c), Neg(s1))  BY <1>10 DEF CongPoly
<1> QED BY <1>5, <1>11 DEF p

LEMMA BoundFacts == L2Bound \in Nat /\ Slack * L2Bound \in Nat /\ L2Bound <= Slack * L2Bound
<1>1. L2Bound \in Nat /\ Slack \in Nat /\ Slack >= 1  BY BoundAssumption, SMT
<1> QED BY <1>1, SMTT(30)

(* Centring a polynomial does not make its norm larger than that of any    *)
(* polynomial congruent to its opposite.                                   *)
LEMMA CenterNorm ==
  ASSUME NEW y \in Poly, NEW s \in Poly, CongPoly(y, Neg(s))
  PROVE  NormSq(CenterModQ(y)) \in Int /\ NormSq(CenterModQ(y)) <= NormSq(s)
<1>1. /\ y[0] \in Int /\ y[1] \in Int /\ s[0] \in Int /\ s[1] \in Int
  BY PolyValues
<1>2. Cong(y[0], -s[0]) /\ Cong(y[1], -s[1])
  BY AddSub DEF CongPoly
<1> DEFINE C(v) == LET w == v % Q IN IF w > (Q - 1) \div 2 THEN w - Q ELSE w
<1>3. CenterModQ(y)[0] = C(y[0]) /\ CenterModQ(y)[1] = C(y[1])
  BY CoefTwo DEF CenterModQ
<1>4. C(y[0]) \in Int /\ C(y[0]) * C(y[0]) <= s[0] * s[0]
  BY <1>1, <1>2, CenterSmallest
<1>5. C(y[1]) \in Int /\ C(y[1]) * C(y[1]) <= s[1] * s[1]
  BY <1>1, <1>2, CenterSmallest
<1> HIDE DEF C
<1>6. /\ C(y[0]) * C(y[0]) \in Int /\ C(y[1]) * C(y[1]) \in Int
      /\ s[0] * s[0] \in Int /\ s[1] * s[1] \in Int
  BY <1>1, <1>4, <1>5, SMT
<1> QED BY <1>3, <1>4, <1>5, <1>6, SMT DEF NormSq

(***************************************************************************)
(* A value the online phase accepts, for a target congruent to             *)
(* c + x1 - h*x2, verifies as a signature of c.                            *)
(***************************************************************************)
LEMMA OnlineSigVerifies ==
  ASSUME NEW b, IsKey(b), NEW t \in Poly, NEW c \in Poly,
         NEW x1 \in Poly, NEW x2 \in Poly,
         CongPoly(t, Add(c, Sub(x1, Mul(b.h, x2))))
  PROVE  LET sig == OnlineSig(b, t, x1, x2)
         IN  /\ sig.s2 \in Poly
             /\ sig.ok \in BOOLEAN
             /\ sig.ok => VerifyRaw(b.h, c, sig.s2)
<1> DEFINE p   == ShortPreimage(b, t)
           s1  == Sub(p.r1, x1)
           s2  == Sub(x2, p.r2)
           sig == OnlineSig(b, t, x1, x2)
           y   == Sub(Mul(s2, b.h), c)
<1>1. /\ s1 \in Poly /\ s2 \in Poly /\ CongPoly(y, Neg(s1))
  BY SigCongruence
<1>2. sig.s2 = s2 /\ sig.ok = (NormSq(s1) + NormSq(s2) <= L2Bound)
  BY Zenon DEF OnlineSig
<1>3. y \in Poly
  <2>1. b.h \in Poly  BY QPolyIsPoly DEF IsKey
  <2>2. Mul(s2, b.h) \in Poly  BY <1>1, <2>1, MulVal
  <2> HIDE DEF s2
  <2> QED BY <2>2, AddSub
<1> HIDE DEF p, s1, s2, y, sig
<1>4. NormSq(CenterModQ(y)) \in Int /\ NormSq(CenterModQ(y)) <= NormSq(s1)
  BY <1>1, <1>3, CenterNorm
<1>5. NormSq(s1) \in Int /\ NormSq(s2) \in Int
  <2>1. /\ s1[0] \in Int /\ s1[1] \in Int /\ s2[0] \in Int /\ s2[1] \in Int
    BY <1>1, PolyValues
  <2> QED BY <2>1, SMT DEF NormSq
<1>6. ASSUME sig.ok
      PROVE  NormSq(CenterModQ(y)) + NormSq(s2) <= Slack * L2Bound
  <2>1. NormSq(s1) + NormSq(s2) <= L2Bound  BY <1>2, <1>6, Zenon
  <2> QED BY <2>1, <1>4, <1>5, BoundFacts, SMT
<1>7. sig.ok => VerifyRaw(b.h, c, sig.s2)
  BY <1>2, <1>6, Zenon DEF VerifyRaw, y
<1>8. sig.ok \in BOOLEAN
  <2>1. (NormSq(s1) + NormSq(s2) <= L2Bound) \in BOOLEAN
    BY <1>5, BoundFacts, SMT
  <2> QED BY <1>2, <2>1, Zenon
<1>9. sig.s2 \in Poly  BY <1>1, <1>2
<1> QED BY <1>7, <1>8, <1>9 DEF sig

-----------------------------------------------------------------------------
(***************************************************************************)
(* The in-place update of a target.                                        *)
(***************************************************************************)

(* On reduced operands, mq_add is addition modulo Q. *)
LEMMA MqAddIsAdd ==
  ASSUME NEW x \in 0..(Q - 1), NEW y \in 0..(Q - 1)
  PROVE  MqAdd(x, y) = (x + y) % Q
<1>1. CASE x + y < Q
  <2>1. MqAdd(x, y) = x + y  BY <1>1, SMT DEF MqAdd
  <2>2. x + y = 0 * Q + (x + y) /\ x + y \in 0..(Q - 1) /\ x + y \in Int
    BY <1>1, QFacts, SMT
  <2>3. (x + y) % Q = x + y  BY <2>2, ModUnique
  <2> QED BY <2>1, <2>3
<1>2. CASE ~(x + y < Q)
  <2>1. x + y - Q \in 0..(Q - 1) /\ x + y \in Int  BY <1>2, QFacts, SMT
  <2>2. MqAdd(x, y) = x + y - Q
    <3>1. (x + y - Q) % 65536 = x + y - Q  BY <2>1, QFacts, SMT
    <3> QED BY <1>2, <3>1 DEF MqAdd
  <2>3. x + y = 1 * Q + (x + y - Q)  BY <2>1, QFacts, SMT
  <2>4. (x + y) % Q = x + y - Q  BY <2>1, <2>3, ModUnique
  <2> QED BY <2>2, <2>4
<1> QED BY <1>1, <1>2

LEMMA ModQType ==
  ASSUME NEW a \in Poly
  PROVE  /\ ModQ(a) \in QPoly
         /\ ModQ(a)[0] = a[0] % Q /\ ModQ(a)[1] = a[1] % Q
<1>1. a[0] % Q \in 0..(Q - 1) /\ a[1] % Q \in 0..(Q - 1)
  BY PolyValues, ModSplit
<1>2. ModQ(a)[0] = a[0] % Q /\ ModQ(a)[1] = a[1] % Q
  BY CoefTwo DEF ModQ
<1>3. ModQ(a) = [u \in Coef |-> a[u] % Q]  BY DEF ModQ
<1>4. \A u \in Coef : a[u] % Q \in 0..(Q - 1)  BY <1>1, CoefTwo
<1> QED BY <1>2, <1>3, <1>4 DEF QPoly

LEMMA QPolyValues ==
  ASSUME NEW a \in QPoly
  PROVE  a[0] \in 0..(Q - 1) /\ a[1] \in 0..(Q - 1)
BY CoefTwo DEF QPoly

(* Reducing a summand first does not change a residue. *)
LEMMA ModAdd ==
  ASSUME NEW x \in Int, NEW y \in Int, NEW z \in Int
  PROVE  (((x + y) % Q) + z) % Q = (x + ((y + z) % Q)) % Q
<1>1. /\ (x + y) % Q \in Int /\ (y + z) % Q \in Int
  BY ModSplit, QFacts, SMT
<1>2. PICK i \in Int : x + y = i * Q + ((x + y) % Q)  BY ModSplit
<1>3. PICK j \in Int : y + z = j * Q + ((y + z) % Q)  BY ModSplit
<1>4. (((x + y) % Q) + z) - (x + ((y + z) % Q)) = (j - i) * Q
  <2>1. (j - i) * Q = j * Q - i * Q /\ j * Q \in Int /\ i * Q \in Int
    BY QFacts, SMTT(30)
  <2> QED BY <1>1, <1>2, <1>3, <2>1, SMT
<1>5. Cong(((x + y) % Q) + z, x + ((y + z) % Q))  BY <1>4 DEF Cong
<1>6. ((x + y) % Q) + z \in Int /\ x + ((y + z) % Q) \in Int  BY <1>1, SMT
<1> QED BY <1>5, <1>6, ModOfCong

(* Adding a reduced message to a reduced target keeps the account: the new *)
(* target is the blinding part plus the new sum.                           *)
LEMMA TargetUpdate ==
  ASSUME NEW x \in Poly, NEW s \in QPoly, NEW m \in QPoly
  PROVE  MqPolyAddTo(ModQ(Add(x, s)), m) = ModQ(Add(x, ModQ(Add(s, m))))
<1>1. s \in Poly /\ m \in Poly  BY QPolyIsPoly
<1>2. Add(x, s) \in Poly /\ Add(s, m) \in Poly  BY <1>1, AddSub
<1>3. ModQ(Add(x, s)) \in QPoly /\ ModQ(Add(s, m)) \in QPoly
  BY <1>2, ModQType
<1>4. ModQ(Add(s, m)) \in Poly  BY <1>3, QPolyIsPoly
<1>5. Add(x, ModQ(Add(s, m))) \in Poly  BY <1>4, AddSub
<1> DEFINE l == MqPolyAddTo(ModQ(Add(x, s)), m)
           r == ModQ(Add(x, ModQ(Add(s, m))))
<1>6. r \in QPoly  BY <1>5, ModQType
<1>7. ASSUME NEW u \in {0, 1} PROVE l[u] = r[u] /\ l[u] \in Int
  <2>1. /\ x[u] \in Int /\ s[u] \in Int /\ m[u] \in Int
    BY <1>1, PolyValues
  <2>2. ModQ(Add(x, s))[u] = (x[u] + s[u]) % Q
    BY <1>1, <1>2, ModQType, AddSub
  <2>3. l[u] = MqAdd(ModQ(Add(x, s))[u], m[u])
    BY CoefTwo DEF MqPolyAddTo
  <2>4. ModQ(Add(x, s))[u] \in 0..(Q - 1) /\ m[u] \in 0..(Q - 1)
    BY <1>3, QPolyValues
  <2>5. l[u] = (((x[u] + s[u]) % Q) + m[u]) % Q
    BY <2>2, <2>3, <2>4, MqAddIsAdd
  <2>6. ModQ(Add(s, m))[u] = (s[u] + m[u]) % Q
    BY <1>1, <1>2, ModQType, AddSub
  <2>7. r[u] = (x[u] + ((s[u] + m[u]) % Q)) % Q
    BY <1>4, <1>5, <2>6, ModQType, AddSub
  <2>8. l[u] = r[u]  BY <2>1, <2>5, <2>7, ModAdd
  <2>9. r[u] \in Int  BY <1>6, QPolyValues, QFacts, SMT
  <2> QED BY <2>8, <2>9
<1>8. l = [u \in Coef |-> l[u]]  BY DEF MqPolyAddTo
<1>9. l \in Poly  BY <1>7, <1>8, CoefTwo DEF Poly
<1>10. r \in Poly  BY <1>6, QPolyIsPoly
<1> HIDE DEF l, r
<1>11. l = r  BY <1>7, <1>9, <1>10, PolyEq
<1> QED BY <1>11 DEF l, r

LEMMA ZeroPoly ==
  /\ Const(0) \in QPoly /\ Const(0) \in Poly
  /\ Const(0)[0] = 0 /\ Const(0)[1] = 0
BY QFacts, CoefTwo, SMT DEF Const, QPoly, Poly

(* A reduced polynomial is its own residue, with zero on either side.      *)
LEMMA ModQZero ==
  ASSUME NEW a \in QPoly
  PROVE  ModQ(Add(a, Const(0))) = a /\ ModQ(Add(Const(0), a)) = a
<1>1. a \in Poly  BY QPolyIsPoly
<1>2. /\ Add(a, Const(0)) \in Poly /\ Add(Const(0), a) \in Poly
      /\ Add(a, Const(0))[0] = a[0] + 0 /\ Add(a, Const(0))[1] = a[1] + 0
      /\ Add(Const(0), a)[0] = 0 + a[0] /\ Add(Const(0), a)[1] = 0 + a[1]
  BY <1>1, ZeroPoly, AddSub
<1>3. a[0] \in 0..(Q - 1) /\ a[1] \in 0..(Q - 1)  BY QPolyValues
<1>4. /\ a[0] + 0 = a[0] /\ a[1] + 0 = a[1] /\ 0 + a[0] = a[0] /\ 0 + a[1] = a[1]
      /\ a[0] = 0 * Q + a[0] /\ a[1] = 0 * Q + a[1]
      /\ a[0] \in Int /\ a[1] \in Int
  BY <1>3, QFacts, SMT
<1>5. a[0] % Q = a[0] /\ a[1] % Q = a[1]
  BY <1>3, <1>4, ModUnique
<1> DEFINE l == ModQ(Add(a, Const(0)))
           r == ModQ(Add(Const(0), a))
<1>6. l[0] = a[0] /\ l[1] = a[1] /\ r[0] = a[0] /\ r[1] = a[1]
  BY <1>2, <1>4, <1>5, ModQType
<1>7. l \in Poly /\ r \in Poly  BY <1>2, ModQType, QPolyIsPoly
<1> HIDE DEF l, r
<1>8. l = a /\ r = a  BY <1>1, <1>6, <1>7, PolyEq
<1> QED BY <1>8 DEF l, r

(* The target that the account describes is congruent to message sum plus  *)
(* blinding part.                                                          *)
LEMMA AccountCong ==
  ASSUME NEW z \in Poly, NEW c \in Poly
  PROVE  CongPoly(ModQ(Add(ModQ(z), c)), Add(c, z))
<1>1. ModQ(z) \in Poly  BY ModQType, QPolyIsPoly
<1>2. Add(ModQ(z), c) \in Poly /\ Add(c, z) \in Poly  BY <1>1, AddSub
<1>3. ASSUME NEW u \in {0, 1}
      PROVE  Cong(ModQ(Add(ModQ(z), c))[u], Add(c, z)[u])
  <2>1. z[u] \in Int /\ c[u] \in Int  BY PolyValues
  <2>2. z[u] % Q \in Int
    <3>1. z[u] % Q \in 0..(Q - 1)  BY <2>1, ModSplit
    <3> QED BY <3>1, QFacts, SMT
  <2>3. ModQ(Add(ModQ(z), c))[u] = ((z[u] % Q) + c[u]) % Q
    BY <1>1, <1>2, ModQType, AddSub
  <2>4. Add(c, z)[u] = c[u] + z[u]  BY AddSub
  <2>5. (z[u] % Q) + c[u] \in Int  BY <2>1, <2>2, SMT
  <2>6. PICK i \in Int : (((z[u] % Q) + c[u]) % Q) - ((z[u] % Q) + c[u]) = i * Q
    BY <2>5, CongOfMod DEF Cong
  <2>7. PICK j \in Int : (z[u] % Q) - z[u] = j * Q
    BY <2>1, CongOfMod DEF Cong
  <2>8. (((z[u] % Q) + c[u]) % Q) - (c[u] + z[u]) = (i + j) * Q
    <3>1. (i + j) * Q = i * Q + j * Q /\ i * Q \in Int /\ j * Q \in Int
      BY QFacts, SMTT(30)
    <3>2. ((z[u] % Q) + c[u]) % Q \in 0..(Q - 1)  BY <2>5, ModSplit
    <3> QED BY <2>1, <2>2, <2>6, <2>7, <3>1, <3>2, SMT
  <2> QED BY <2>3, <2>4, <2>8 DEF Cong
<1> QED BY <1>3 DEF CongPoly
=============================================================================
