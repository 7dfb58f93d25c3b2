---------------------------- MODULE RuntimeProofs ----------------------------
(* Secure aggregation, from modular arithmetic to what is published,       *)
(* and the composition: the parts of the rApp run side by side, so a step  *)
(* of the whole is a step of each part or leaves it alone, and what is     *)
(* proved of a part alone holds of the whole, whichever part moves.        *)
EXTENDS MCRuntime, InterfaceProofs, ServiceProofs

-----------------------------------------------------------------------------
(* Secure aggregation.                                                     *)

\* Numbers that differ by a multiple of p.
Cong(a, b, p) == \E k \in Int : a = b + k * p

\* A residue.
LEMMA ModRange ==
  ASSUME NEW p \in Nat, p > 0, NEW a \in Int
  PROVE  a % p \in 0..(p - 1) /\ Cong(a % p, a, p) /\ Cong(a, a % p, p)
<1>1. a % p \in 0..(p - 1) /\ a = (a % p) + (a \div p) * p /\ a \div p \in Int
  OBVIOUS
<1>2. a % p = a + (-(a \div p)) * p /\ -(a \div p) \in Int
  BY <1>1
<1> QED BY <1>1, <1>2 DEF Cong

\* Congruence is an equivalence,
LEMMA CongRefl ==
  ASSUME NEW p \in Nat, NEW a \in Int
  PROVE  Cong(a, a, p)
<1>1. a = a + 0 * p
  OBVIOUS
<1> QED BY <1>1 DEF Cong

\* in both directions,
LEMMA CongSym ==
  ASSUME NEW p \in Nat, NEW a \in Int, NEW b \in Int, Cong(a, b, p)
  PROVE  Cong(b, a, p)
<1>1. PICK k \in Int : a = b + k * p
  BY DEF Cong
<1>2. b = a + (-k) * p /\ -k \in Int
  BY <1>1
<1> QED BY <1>2 DEF Cong

\* from one to the next,
LEMMA CongTrans ==
  ASSUME NEW p \in Nat, NEW a \in Int, NEW b \in Int, NEW c \in Int,
         Cong(a, b, p), Cong(b, c, p)
  PROVE  Cong(a, c, p)
<1>1. PICK j \in Int : a = b + j * p
  BY DEF Cong
<1>2. PICK k \in Int : b = c + k * p
  BY DEF Cong
<1>3. a = c + (j + k) * p /\ j + k \in Int
  BY <1>1, <1>2
<1> QED BY <1>3 DEF Cong

\* that sums,
LEMMA CongAdd ==
  ASSUME NEW p \in Nat, NEW a \in Int, NEW b \in Int, NEW c \in Int, NEW d \in Int,
         Cong(a, b, p), Cong(c, d, p)
  PROVE  Cong(a + c, b + d, p)
<1>1. PICK j \in Int : a = b + j * p
  BY DEF Cong
<1>2. PICK k \in Int : c = d + k * p
  BY DEF Cong
<1>3. a + c = (b + d) + (j + k) * p
  BY <1>1, <1>2
<1>4. j + k \in Int
  OBVIOUS
<1> QED BY <1>3, <1>4 DEF Cong

\* products
LEMMA CongMul ==
  ASSUME NEW p \in Nat, NEW a \in Int, NEW b \in Int, NEW c \in Int, NEW d \in Int,
         Cong(a, b, p), Cong(c, d, p)
  PROVE  Cong(a * c, b * d, p)
<1>1. PICK j \in Int : a = b + j * p
  BY DEF Cong
<1>2. PICK k \in Int : c = d + k * p
  BY DEF Cong
<1>3. a * c = b * d + (b * k + j * d + j * k * p) * p
  BY <1>1, <1>2
<1>4. b * k + j * d + j * k * p \in Int
  OBVIOUS
<1> QED BY <1>3, <1>4 DEF Cong

\* and negatives respect;
LEMMA CongNeg ==
  ASSUME NEW p \in Nat, NEW a \in Int, NEW b \in Int, Cong(a, b, p)
  PROVE  Cong(-a, -b, p)
<1>1. PICK k \in Int : a = b + k * p
  BY DEF Cong
<1>2. -a = -b + (-k) * p /\ -k \in Int
  BY <1>1
<1> QED BY <1>2 DEF Cong

\* two residues that are congruent are one;
LEMMA CongSame ==
  ASSUME NEW p \in Nat, NEW a \in 0..(p - 1), NEW b \in 0..(p - 1), Cong(a, b, p)
  PROVE  a = b
<1>1. PICK k \in Int : a = b + k * p
  BY DEF Cong
<1>2. a - b < p /\ -p < a - b /\ a - b = k * p /\ p > 0
  BY <1>1
<1>3. CASE k >= 1
  <2>1. k * p >= p
    BY <1>2, <1>3
  <2> QED BY <1>2, <2>1
<1>4. CASE k <= -1
  <2> DEFINE m == -k
  <2>1. m \in Int /\ m >= 1 /\ k * p = -(m * p)
    BY <1>4
  <2> HIDE DEF m
  <2>2. m * p >= p
    BY <1>2, <2>1
  <2> QED BY <1>2, <2>1, <2>2
<1>5. CASE k = 0
  BY <1>1, <1>5
<1> QED BY <1>3, <1>4, <1>5

\* and numbers are congruent when their residues are one.
LEMMA CongMod ==
  ASSUME NEW p \in Nat, p > 0, NEW a \in Int, NEW b \in Int
  PROVE  a % p = b % p <=> Cong(a, b, p)
<1>1. /\ a % p \in 0..(p - 1) /\ Cong(a % p, a, p) /\ Cong(a, a % p, p)
      /\ b % p \in 0..(p - 1) /\ Cong(b % p, b, p) /\ a % p \in Int /\ b % p \in Int
      /\ Cong(b, b % p, p)
  BY ModRange
<1>2. a % p = b % p => Cong(a, b, p)
  BY <1>1, CongTrans
<1>3. Cong(a, b, p) => a % p = b % p
  <2> SUFFICES ASSUME Cong(a, b, p) PROVE a % p = b % p
    OBVIOUS
  <2>1. Cong(a % p, b, p)
    BY <1>1, CongTrans
  <2>2. Cong(a % p, b % p, p)
    BY <1>1, <2>1, CongTrans
  <2> QED BY <1>1, <2>2, CongSame
<1> QED BY <1>2, <1>3

-----------------------------------------------------------------------------
\* Powers, factor by factor.
Times(a, b, p) == (a * b) % p
Residues(q) == 0..(q - 1)
Exponents(e) == [i \in 1..e |-> i]

\* A power is a product of as many factors as its exponent.
LEMMA ExponentsCount ==
  ASSUME NEW e \in Nat
  PROVE  Exponents(e) \in Seq(Int) /\ Len(Exponents(e)) = e
<1>1. \A i \in 1..e : i \in Int
  OBVIOUS
<1> QED BY <1>1, IsASeq, LenProperties DEF Exponents

\* A power, factor by factor.
LEMMA PowerSteps ==
  ASSUME NEW b \in Int, NEW q \in Nat, q > 1, NEW e \in Nat
  PROVE  \E h \in [0..Len(Exponents(e)) -> Residues(q)] :
           /\ h[0] = 1
           /\ \A n \in 1..Len(Exponents(e)) : h[n] = Times(h[n - 1], b, q)
           /\ PowMod(b, e, q) = h[Len(Exponents(e))]
<1> DEFINE op == [p \in (Residues(q)) \X (Int) |-> Times(p[1], b, q)]
           base == 1
           body(it) == [t \in SUBSET (1..Len(Exponents(e))) |->
                          IF t = {} THEN base
                          ELSE Times(it[t \ {Max(t)}], b, q)]
           iter == CHOOSE it : it = body(it)
<1>0. Len(Exponents(e)) \in Nat /\ DOMAIN Exponents(e) = 1..Len(Exponents(e)) /\ Exponents(e) \in Seq(Int)
  BY LenProperties, ExponentsCount
<1>1. base \in Residues(q) /\ op \in [(Residues(q)) \X (Int) -> Residues(q)]
  <2>1. base \in Residues(q)
    BY DEF Residues
  <2>2. ASSUME NEW x \in Residues(q), NEW y \in Int PROVE Times(x, b, q) \in Residues(q)
    <3>1. x * b \in Int
      BY <2>2 DEF Residues
    <3> QED BY <3>1, ModRange DEF Times, Residues
  <2> QED BY <2>1, <2>2
<1>2. \A x \in Residues(q), y \in Int : op[<<x, y>>] = Times(x, b, q)
  OBVIOUS
<1> HIDE DEF op, base
<1>3. PICK g \in [SUBSET (1..Len(Exponents(e))) -> Residues(q)] : FoldsTo(g, Exponents(e), base, op)
  BY <1>0, <1>1, FoldExists
<1>4. g = body(g)
  <2>1. \A t \in SUBSET (1..Len(Exponents(e))) :
          g[t] = IF t = {} THEN base ELSE Times(g[t \ {Max(t)}], b, q)
    BY <1>0, <1>2, <1>3, FoldPlaces DEF FoldsTo
  <2> QED BY <2>1
<1>5. iter = body(iter)
  BY <1>4
<1>6. PowMod(b, e, q) = iter[1..Len(Exponents(e))]
  BY <1>0 DEF PowMod, Exponents, Times, FoldLeft, MapThenFoldSet, base
<1> HIDE DEF iter
<1>7. FoldsWithin(iter, Exponents(e), Residues(q), base, op)
  <2>1. \A t \in SUBSET (1..Len(Exponents(e))) :
          iter[t] = IF t = {} THEN base ELSE Times(iter[t \ {Max(t)}], b, q)
    BY <1>5
  <2> HIDE DEF body
  <2> QED BY <1>0, <1>2, <2>1, FoldPlaces DEF FoldsWithin
<1> HIDE DEF body
<1>8. FoldValue(iter[1..Len(Exponents(e))], Exponents(e), Residues(q), base, op)
  BY <1>0, <1>1, <1>7, FoldSteps
<1>9. PICK h \in [0..Len(Exponents(e)) -> Residues(q)] :
        /\ h[0] = base
        /\ \A n \in 1..Len(Exponents(e)) : h[n] = op[<<h[n - 1], Exponents(e)[n]>>]
        /\ PowMod(b, e, q) = h[Len(Exponents(e))]
  BY <1>6, <1>8 DEF FoldValue
<1>10. \A n \in 1..Len(Exponents(e)) : h[n] = Times(h[n - 1], b, q)
  <2> TAKE n \in 1..Len(Exponents(e))
  <2>0. n - 1 \in 0..Len(Exponents(e)) /\ n \in 1..Len(Exponents(e))
    BY <1>0
  <2>1. h[n - 1] \in Residues(q)
    BY <2>0
  <2>2. Exponents(e)[n] \in Int
    BY <1>0, <2>0
  <2> QED BY <1>2, <1>9, <2>1, <2>2
<1> QED BY <1>9, <1>10 DEF base

\* A power more is a factor more.
LEMMA PowerNext ==
  ASSUME NEW b \in Int, NEW p \in Nat, p > 1, NEW e \in Nat
  PROVE  /\ PowMod(b, 0, p) = 1
         /\ PowMod(b, e, p) \in 0..(p - 1)
         /\ PowMod(b, e + 1, p) = (PowMod(b, e, p) * b) % p
<1>1. \A n \in Nat : \E h \in [0..n -> Residues(p)] :
        /\ h[0] = 1
        /\ \A i \in 1..n : h[i] = Times(h[i - 1], b, p)
        /\ PowMod(b, n, p) = h[n]
  <2> TAKE n \in Nat
  <2>1. Len(Exponents(n)) = n
    BY ExponentsCount
  <2>2. PICK h \in [0..Len(Exponents(n)) -> Residues(p)] :
          /\ h[0] = 1
          /\ \A i \in 1..Len(Exponents(n)) : h[i] = Times(h[i - 1], b, p)
          /\ PowMod(b, n, p) = h[Len(Exponents(n))]
    BY PowerSteps
  <2> QED BY <2>1, <2>2
<1>2. PICK g \in [0..e -> Residues(p)] :
        /\ g[0] = 1
        /\ \A i \in 1..e : g[i] = Times(g[i - 1], b, p)
        /\ PowMod(b, e, p) = g[e]
  BY <1>1
<1>3. PICK h \in [0..(e + 1) -> Residues(p)] :
        /\ h[0] = 1
        /\ \A i \in 1..(e + 1) : h[i] = Times(h[i - 1], b, p)
        /\ PowMod(b, e + 1, p) = h[e + 1]
  <2>1. e + 1 \in Nat
    OBVIOUS
  <2> QED BY <1>1, <2>1
<1>4. PICK z \in [0..0 -> Residues(p)] : z[0] = 1 /\ PowMod(b, 0, p) = z[0]
  BY <1>1
<1> DEFINE Same(n) == n <= e => g[n] = h[n]
           P == {n \in Nat : Same(n)}
<1>5. Same(0)
  BY <1>2, <1>3
<1>6. \A n \in Nat : Same(n) => Same(n + 1)
  <2> SUFFICES ASSUME NEW n \in Nat, Same(n), n + 1 <= e PROVE g[n + 1] = h[n + 1]
    OBVIOUS
  <2>1. n + 1 \in 1..e /\ n + 1 \in 1..(e + 1) /\ n + 1 - 1 = n /\ n <= e
    OBVIOUS
  <2>2. g[n + 1] = Times(g[n], b, p)
    BY <1>2, <2>1
  <2>3. h[n + 1] = Times(h[n], b, p)
    BY <1>3, <2>1
  <2> QED BY <2>1, <2>2, <2>3
<1> HIDE DEF Same
<1>7. 0 \in P /\ \A n \in Nat : n \in P => n + 1 \in P
  BY <1>5, <1>6
<1>8. \A n \in Nat : n \in P
  <2> HIDE DEF P
  <2> QED BY <1>7, NatSets
<1>9. g[e] = h[e]
  <2>1. Same(e)
    BY <1>8
  <2> QED BY <2>1 DEF Same
<1>10. h[e + 1] = Times(h[e], b, p)
  <2>1. e + 1 \in 1..(e + 1) /\ e + 1 - 1 = e
    OBVIOUS
  <2> QED BY <1>3, <2>1
<1>11. g[e] \in Residues(p)
  <2>1. e \in 0..e
    OBVIOUS
  <2> QED BY <1>2, <2>1
<1> QED BY <1>2, <1>3, <1>4, <1>9, <1>10, <1>11 DEF Times, Residues

\* Exponents add.
LEMMA PowerAdd ==
  ASSUME NEW b \in Int, NEW p \in Nat, p > 1, NEW m \in Nat, NEW n \in Nat
  PROVE  (PowMod(b, m, p) * PowMod(b, n, p)) % p = PowMod(b, m + n, p)
<1> DEFINE Pw(k) == PowMod(b, k, p)
           Adds(k) == (Pw(m) * Pw(k)) % p = Pw(m + k)
           P == {k \in Nat : Adds(k)}
<1>1. /\ Pw(0) = 1
      /\ \A k \in Nat : Pw(k) \in 0..(p - 1) /\ Pw(k + 1) = (Pw(k) * b) % p
  BY PowerNext
<1> HIDE DEF Pw
<1>2. Adds(0)
  <2>1. Pw(m) * Pw(0) = Pw(m) /\ m + 0 = m
    BY <1>1
  <2>2. Pw(m) \in 0..(p - 1) /\ Pw(m) \in Int
    BY <1>1
  <2>3. Pw(m) % p = Pw(m)
    BY <2>2
  <2> QED BY <2>1, <2>3
<1>3. \A k \in Nat : Adds(k) => Adds(k + 1)
  <2> SUFFICES ASSUME NEW k \in Nat, Adds(k) PROVE Adds(k + 1)
    OBVIOUS
  <2> DEFINE x == Pw(m)
             y == Pw(k)
             z == Pw(m + k)
  <2>1. x \in Int /\ y \in Int /\ z \in Int /\ x * y \in Int /\ y * b \in Int /\ m + k \in Nat
    <3>1. x \in Int /\ y \in Int /\ z \in Int
      BY <1>1
    <3> HIDE DEF x, y, z
    <3> QED BY <3>1
  <2>2. Pw(k + 1) = (y * b) % p /\ Pw(m + k + 1) = (z * b) % p
    BY <1>1, <2>1
  <2>3. z = (x * y) % p
    OBVIOUS
  <2>4. m + (k + 1) = m + k + 1
    OBVIOUS
  <2> HIDE DEF x, y, z
  <2>5. Cong((y * b) % p, y * b, p) /\ (y * b) % p \in Int
    BY <2>1, ModRange
  <2>6. Cong(x * ((y * b) % p), x * (y * b), p)
    BY <2>1, <2>5, CongRefl, CongMul
  <2>7. Cong(z, x * y, p)
    BY <2>1, <2>3, ModRange
  <2>8. Cong(z * b, (x * y) * b, p)
    BY <2>1, <2>7, CongRefl, CongMul
  <2>9. x * (y * b) = (x * y) * b /\ x * (y * b) \in Int /\ z * b \in Int /\ x * ((y * b) % p) \in Int
    BY <2>1, <2>5
  <2>10. Cong(x * ((y * b) % p), z * b, p)
    <3>1. Cong(x * (y * b), z * b, p)
      BY <2>8, <2>9, CongSym
    <3> QED BY <2>6, <2>9, <3>1, CongTrans
  <2>11. (x * ((y * b) % p)) % p = (z * b) % p
    <3> DEFINE v == x * ((y * b) % p)
               w == z * b
    <3>1. v \in Int /\ w \in Int /\ Cong(v, w, p)
      BY <2>9, <2>10
    <3> HIDE DEF v, w
    <3>2. v % p = w % p
      BY <3>1, CongMod
    <3> QED BY <3>2 DEF v, w
  <2>12. (x * Pw(k + 1)) % p = Pw(m + (k + 1))
    BY <2>2, <2>4, <2>11
  <2> QED BY <2>12 DEF x
<1> HIDE DEF Adds
<1>4. 0 \in P /\ \A k \in Nat : k \in P => k + 1 \in P
  BY <1>2, <1>3
<1>5. \A k \in Nat : k \in P
  <2> HIDE DEF P
  <2> QED BY <1>4, NatSets
<1>6. Adds(n)
  BY <1>5
<1> QED BY <1>6 DEF Adds, Pw

\* The powers of G.
Pw(n) == PowMod(GroupG, n, GroupP)

\* The powers of the generator: their order is FieldQ, and exponents add up.
LEMMA PowerFacts ==
  /\ FieldQ \in Nat /\ FieldQ > 1 /\ GroupP \in Nat /\ GroupP > 1 /\ GroupG \in Int
  /\ Pw(0) = 1 /\ Pw(FieldQ) = 1
  /\ \A k \in 1..(FieldQ - 1) : Pw(k) # 1
  /\ \A n \in Nat : Pw(n) \in 0..(GroupP - 1)
  /\ \A m, n \in Nat : (Pw(m) * Pw(n)) % GroupP = Pw(m + n)
<1>1. FieldQ \in Nat /\ FieldQ > 1 /\ GroupP \in Nat /\ GroupP > 1 /\ GroupG \in Int
  BY SharesAssumption
<1>2. Pw(FieldQ) = 1 /\ \A k \in 1..(FieldQ - 1) : Pw(k) # 1
  BY GroupAssumption DEF Pw
<1>3. Pw(0) = 1 /\ \A n \in Nat : Pw(n) \in 0..(GroupP - 1)
  BY <1>1, PowerNext DEF Pw
<1>4. \A m, n \in Nat : (Pw(m) * Pw(n)) % GroupP = Pw(m + n)
  BY <1>1, PowerAdd DEF Pw
<1> QED BY <1>1, <1>2, <1>3, <1>4

\* They repeat after Q of them.
LEMMA PowerPeriod ==
  ASSUME NEW n \in Nat, NEW k \in Nat
  PROVE  Pw(n + k * FieldQ) = Pw(n)
<1> DEFINE Back(i) == Pw(n + i * FieldQ) = Pw(n)
           P == {i \in Nat : Back(i)}
<1>1. Back(0)
  <2>1. n + 0 * FieldQ = n
    BY PowerFacts
  <2> QED BY <2>1
<1>2. \A i \in Nat : Back(i) => Back(i + 1)
  <2> SUFFICES ASSUME NEW i \in Nat, Back(i) PROVE Back(i + 1)
    OBVIOUS
  <2> DEFINE m == n + i * FieldQ
  <2>1. m \in Nat /\ n + (i + 1) * FieldQ = m + FieldQ
    <3>1. FieldQ \in Nat
      BY PowerFacts
    <3>2. i * FieldQ \in Nat /\ (i + 1) * FieldQ = i * FieldQ + FieldQ
      BY <3>1
    <3> QED BY <3>1, <3>2
  <2>2. Pw(m) = Pw(n)
    OBVIOUS
  <2> HIDE DEF m
  <2>3. (Pw(m) * Pw(FieldQ)) % GroupP = Pw(m + FieldQ)
    BY <2>1, PowerFacts
  <2> DEFINE v == Pw(m)
  <2>4. v \in 0..(GroupP - 1) /\ GroupP \in Nat
    BY <2>1, PowerFacts
  <2> HIDE DEF v
  <2>5. v * 1 = v /\ v % GroupP = v
    BY <2>4
  <2>6. Pw(m + FieldQ) = Pw(m)
    BY <2>3, <2>5, PowerFacts DEF v
  <2> QED BY <2>1, <2>2, <2>6
<1> HIDE DEF Back
<1>3. 0 \in P /\ \A i \in Nat : i \in P => i + 1 \in P
  BY <1>1, <1>2
<1>4. \A i \in Nat : i \in P
  <2> HIDE DEF P
  <2> QED BY <1>3, NatSets
<1>5. Back(k)
  BY <1>4
<1> QED BY <1>5 DEF Back

\* Below Q they differ.
LEMMA PowerDiffers ==
  ASSUME NEW a \in 0..(FieldQ - 1), NEW b \in 0..(FieldQ - 1), a < b
  PROVE  Pw(a) # Pw(b)
<1> SUFFICES ASSUME Pw(a) = Pw(b) PROVE FALSE
  OBVIOUS
<1>0. /\ FieldQ \in Nat /\ a \in Nat /\ b \in Nat /\ FieldQ - a \in Nat
      /\ b - a \in 1..(FieldQ - 1) /\ b + (FieldQ - a) = (b - a) + 1 * FieldQ
      /\ a + (FieldQ - a) = FieldQ /\ b - a \in Nat
  BY PowerFacts
<1>1. (Pw(a) * Pw(FieldQ - a)) % GroupP = 1
  BY <1>0, PowerFacts
<1>2. (Pw(b) * Pw(FieldQ - a)) % GroupP = Pw((b - a) + 1 * FieldQ)
  BY <1>0, PowerFacts
<1>3. Pw((b - a) + 1 * FieldQ) = Pw(b - a)
  BY <1>0, PowerPeriod
<1>4. Pw(b - a) = 1
  BY <1>1, <1>2, <1>3
<1> QED BY <1>0, <1>4, PowerFacts

\* So equal powers are those of exponents that differ by a multiple of Q.
LEMMA PowerMod ==
  ASSUME NEW n \in Nat
  PROVE  Pw(n % FieldQ) = Pw(n)
<1> DEFINE r == n % FieldQ
           d == n \div FieldQ
<1>1. r \in Nat /\ d \in Nat /\ n = r + d * FieldQ
  <2>1. FieldQ \in Nat /\ FieldQ > 0
    BY PowerFacts
  <2>2. n % FieldQ \in Nat /\ n \div FieldQ \in Int /\ n = (n % FieldQ) + (n \div FieldQ) * FieldQ
    BY <2>1
  <2>3. n \div FieldQ >= 0
    BY <2>1
  <2> QED BY <2>2, <2>3
<1> HIDE DEF r, d
<1>2. Pw(r + d * FieldQ) = Pw(r)
  BY <1>1, PowerPeriod
<1> QED BY <1>1, <1>2 DEF r

\* Two powers are one when the exponents agree modulo the order.
LEMMA PowerSame ==
  ASSUME NEW m \in Nat, NEW n \in Nat
  PROVE  Pw(m) = Pw(n) <=> Cong(m, n, FieldQ)
<1>0. FieldQ \in Nat /\ FieldQ > 0
  BY PowerFacts
<1>1. m % FieldQ \in 0..(FieldQ - 1) /\ n % FieldQ \in 0..(FieldQ - 1)
  BY <1>0, ModRange
<1>2. Pw(m % FieldQ) = Pw(m) /\ Pw(n % FieldQ) = Pw(n)
  BY PowerMod
<1>3. m % FieldQ = n % FieldQ <=> Cong(m, n, FieldQ)
  <2>1. m \in Int /\ n \in Int
    OBVIOUS
  <2>2. \A p \in Nat : p > 0 => \A a, b \in Int : (a % p = b % p <=> Cong(a, b, p))
    BY CongMod
  <2> QED BY <1>0, <2>1, <2>2
<1> DEFINE x == m % FieldQ
           y == n % FieldQ
<1> HIDE DEF x, y
<1>4. x \in 0..(FieldQ - 1) /\ y \in 0..(FieldQ - 1)
  BY <1>1 DEF x, y
<1>5. Pw(x) = Pw(y) => x = y
  <2>1. x < y \/ y < x \/ x = y
    BY <1>0, <1>4
  <2> QED BY <1>4, <2>1, PowerDiffers
<1> QED BY <1>2, <1>3, <1>5 DEF x, y

\* None is zero.
LEMMA PowerNonzero ==
  ASSUME NEW n \in Nat
  PROVE  Pw(n) \in 1..(GroupP - 1)
<1>1. Pw(n) \in 0..(GroupP - 1)
  BY PowerFacts
<1>2. Pw(n) # 0
  <2> SUFFICES ASSUME Pw(n) = 0 PROVE FALSE
    OBVIOUS
  <2> DEFINE r == n % FieldQ
  <2>1. r \in 0..(FieldQ - 1) /\ FieldQ \in Nat
    BY PowerFacts, ModRange
  <2>2. Pw(r) = 0
    BY PowerMod
  <2> HIDE DEF r
  <2>3. FieldQ - r \in Nat /\ r \in Nat /\ r + (FieldQ - r) = FieldQ
    BY <2>1
  <2>4. (Pw(r) * Pw(FieldQ - r)) % GroupP = Pw(FieldQ)
    BY <2>3, PowerFacts
  <2>5. Pw(FieldQ - r) \in Int /\ Pw(FieldQ) = 1 /\ GroupP \in Nat /\ GroupP > 1
    BY <2>3, PowerFacts
  <2>6. 0 * Pw(FieldQ - r) = 0 /\ 0 % GroupP = 0
    BY <2>5
  <2> QED BY <2>2, <2>4, <2>5, <2>6
<1> QED BY <1>1, <1>2, PowerFacts

\* A sum along a sequence: of nothing, of one number more, of one number changed.
LEMMA TotalNothing == TotalOf(<<>>) = 0
<1>1. <<>> \in Seq(Int) /\ Len(<<>>) = 0
  BY EmptySeq
<1>2. PICK h \in [0..Len(<<>>) -> Int] : h[0] = 0 /\ TotalOf(<<>>) = h[Len(<<>>)]
  BY <1>1, TotalSteps
<1> QED BY <1>1, <1>2

\* A sum of numbers is a number.
LEMMA TotalNumber ==
  ASSUME NEW s \in Seq(Int)
  PROVE  TotalOf(s) \in Int
<1>1. PICK h \in [0..Len(s) -> Int] : TotalOf(s) = h[Len(s)]
  BY TotalSteps
<1>2. Len(s) \in 0..Len(s)
  BY LenProperties
<1> QED BY <1>1, <1>2

\* Numbers near tenths of others have a sum near a tenth of theirs.
LEMMA TotalNear ==
  ASSUME NEW s \in Seq(Int), NEW t \in Seq(Int), Len(s) = Len(t),
         \A i \in 1..Len(s) : -5 <= 10 * s[i] - t[i] /\ 10 * s[i] - t[i] <= 5
  PROVE  -(5 * Len(s)) <= 10 * TotalOf(s) - TotalOf(t) /\ 10 * TotalOf(s) - TotalOf(t) <= 5 * Len(s)
<1>0. Len(s) \in Nat /\ \A i \in 1..Len(s) : s[i] \in Int /\ t[i] \in Int
  BY LenProperties
<1>1. PICK g \in [0..Len(s) -> Int] :
        /\ g[0] = 0
        /\ \A n \in 1..Len(s) : g[n] = (g[n - 1] + s[n])
        /\ TotalOf(s) = g[Len(s)]
  BY TotalSteps
<1>2. PICK h \in [0..Len(t) -> Int] :
        /\ h[0] = 0
        /\ \A n \in 1..Len(t) : h[n] = (h[n - 1] + t[n])
        /\ TotalOf(t) = h[Len(t)]
  BY TotalSteps
<1> DEFINE Near(n) == n <= Len(s) => -(5 * n) <= 10 * g[n] - h[n] /\ 10 * g[n] - h[n] <= 5 * n
           P == {n \in Nat : Near(n)}
<1>3. Near(0)
  BY <1>1, <1>2
<1>4. \A n \in Nat : Near(n) => Near(n + 1)
  <2> SUFFICES ASSUME NEW n \in Nat, Near(n), n + 1 <= Len(s) PROVE Near(n + 1)
    OBVIOUS
  <2>1. /\ n + 1 \in 1..Len(s) /\ n \in 0..Len(s) /\ n + 1 \in 0..Len(s)
        /\ n + 1 - 1 = n /\ n <= Len(s)
    BY <1>0
  <2>2. g[n + 1] = g[n] + s[n + 1] /\ g[n] \in Int /\ s[n + 1] \in Int
    <3>1. g[n + 1] = g[n + 1 - 1] + s[n + 1]
      BY <1>1, <2>1
    <3>2. g[n] \in Int
      BY <2>1
    <3>3. s[n + 1] \in Int
      BY <1>0, <2>1
    <3> QED BY <2>1, <3>1, <3>2, <3>3
  <2>3. h[n + 1] = h[n] + t[n + 1] /\ h[n] \in Int /\ t[n + 1] \in Int
    <3>1. h[n + 1] = h[n + 1 - 1] + t[n + 1]
      BY <1>2, <2>1
    <3>2. h[n] \in Int
      BY <2>1
    <3>3. t[n + 1] \in Int
      BY <1>0, <2>1
    <3> QED BY <2>1, <3>1, <3>2, <3>3
  <2>4. -(5 * n) <= 10 * g[n] - h[n] /\ 10 * g[n] - h[n] <= 5 * n
    BY <2>1
  <2>5. -5 <= 10 * s[n + 1] - t[n + 1] /\ 10 * s[n + 1] - t[n + 1] <= 5
    BY <2>1
  <2>6. \A a, b, c, d \in Int :
          -(5 * n) <= 10 * a - b /\ 10 * a - b <= 5 * n /\ -5 <= 10 * c - d /\ 10 * c - d <= 5 =>
            /\ -(5 * (n + 1)) <= 10 * (a + c) - (b + d)
            /\ 10 * (a + c) - (b + d) <= 5 * (n + 1)
    OBVIOUS
  <2> QED BY <2>2, <2>3, <2>4, <2>5, <2>6
<1> HIDE DEF Near
<1>5. 0 \in P /\ \A n \in Nat : n \in P => n + 1 \in P
  BY <1>3, <1>4
<1>6. \A n \in Nat : n \in P
  <2> HIDE DEF P
  <2> QED BY <1>5, NatSets
<1>7. Near(Len(s))
  BY <1>0, <1>6
<1> QED BY <1>0, <1>1, <1>2, <1>7 DEF Near

\* Numbers that differ by multiples have sums that do.
LEMMA TotalCong ==
  ASSUME NEW s \in Seq(Int), NEW t \in Seq(Int), Len(s) = Len(t), NEW q \in Nat,
         \A i \in 1..Len(s) : Cong(s[i], t[i], q)
  PROVE  Cong(TotalOf(s), TotalOf(t), q)
<1>0. Len(s) \in Nat /\ \A i \in 1..Len(s) : s[i] \in Int /\ t[i] \in Int
  BY LenProperties
<1>1. PICK g \in [0..Len(s) -> Int] :
        /\ g[0] = 0
        /\ \A n \in 1..Len(s) : g[n] = (g[n - 1] + s[n])
        /\ TotalOf(s) = g[Len(s)]
  BY TotalSteps
<1>2. PICK h \in [0..Len(t) -> Int] :
        /\ h[0] = 0
        /\ \A n \in 1..Len(t) : h[n] = (h[n - 1] + t[n])
        /\ TotalOf(t) = h[Len(t)]
  BY TotalSteps
<1> DEFINE Near(n) == n <= Len(s) => Cong(g[n], h[n], q)
           P == {n \in Nat : Near(n)}
<1>3. Near(0)
  <2>1. 0 \in Int
    OBVIOUS
  <2> QED BY <1>1, <1>2, <2>1, CongRefl
<1>4. \A n \in Nat : Near(n) => Near(n + 1)
  <2> SUFFICES ASSUME NEW n \in Nat, Near(n), n + 1 <= Len(s) PROVE Near(n + 1)
    OBVIOUS
  <2>1. /\ n + 1 \in 1..Len(s) /\ n \in 0..Len(s) /\ n + 1 \in 0..Len(s)
        /\ n + 1 - 1 = n /\ n <= Len(s)
    BY <1>0
  <2>2. g[n + 1] = g[n] + s[n + 1] /\ g[n] \in Int /\ s[n + 1] \in Int
    <3>1. g[n + 1] = g[n + 1 - 1] + s[n + 1]
      BY <1>1, <2>1
    <3>2. g[n] \in Int
      BY <2>1
    <3>3. s[n + 1] \in Int
      BY <1>0, <2>1
    <3> QED BY <2>1, <3>1, <3>2, <3>3
  <2>3. h[n + 1] = h[n] + t[n + 1] /\ h[n] \in Int /\ t[n + 1] \in Int
    <3>1. h[n + 1] = h[n + 1 - 1] + t[n + 1]
      BY <1>2, <2>1
    <3>2. h[n] \in Int
      BY <2>1
    <3>3. t[n + 1] \in Int
      BY <1>0, <2>1
    <3> QED BY <2>1, <3>1, <3>2, <3>3
  <2>4. Cong(g[n], h[n], q) /\ Cong(s[n + 1], t[n + 1], q)
    BY <2>1
  <2>5. Cong(g[n] + s[n + 1], h[n] + t[n + 1], q)
    BY <2>2, <2>3, <2>4, CongAdd
  <2> QED BY <2>2, <2>3, <2>5
<1> HIDE DEF Near
<1>5. 0 \in P /\ \A n \in Nat : n \in P => n + 1 \in P
  BY <1>3, <1>4
<1>6. \A n \in Nat : n \in P
  <2> HIDE DEF P
  <2> QED BY <1>5, NatSets
<1>7. Near(Len(s))
  BY <1>0, <1>6
<1> QED BY <1>0, <1>1, <1>2, <1>7 DEF Near

\* The sum of the numbers before the n-th is that of any sequence that begins alike.
LEMMA TotalAppend ==
  ASSUME NEW s \in Seq(Int), NEW x \in Int
  PROVE  TotalOf(Append(s, x)) = TotalOf(s) + x
<1> DEFINE t == Append(s, x)
<1>0. Len(s) \in Nat /\ \A i \in 1..Len(s) : s[i] \in Int
  BY LenProperties
<1>1. t \in Seq(Int) /\ Len(t) = Len(s) + 1 /\ t[Len(s) + 1] = x
      /\ \A i \in 1..Len(s) : t[i] = s[i]
  BY <1>0, AppendProperties
<1> HIDE DEF t
<1>2. PICK g \in [0..Len(s) -> Int] :
        /\ g[0] = 0
        /\ \A n \in 1..Len(s) : g[n] = (g[n - 1] + s[n])
        /\ TotalOf(s) = g[Len(s)]
  BY TotalSteps
<1>3. PICK h \in [0..Len(t) -> Int] :
        /\ h[0] = 0
        /\ \A n \in 1..Len(t) : h[n] = (h[n - 1] + t[n])
        /\ TotalOf(t) = h[Len(t)]
  BY <1>1, TotalSteps
<1> DEFINE Same(n) == n <= Len(s) => g[n] = h[n]
           P == {n \in Nat : Same(n)}
<1>4. Same(0)
  BY <1>2, <1>3
<1>5. \A n \in Nat : Same(n) => Same(n + 1)
  <2> SUFFICES ASSUME NEW n \in Nat, Same(n), n + 1 <= Len(s) PROVE g[n + 1] = h[n + 1]
    OBVIOUS
  <2>1. n + 1 \in 1..Len(s) /\ n + 1 \in 1..Len(t) /\ n + 1 - 1 = n /\ n <= Len(s)
    BY <1>0, <1>1
  <2>2. g[n + 1] = g[n] + s[n + 1]
    BY <1>2, <2>1
  <2>3. h[n + 1] = h[n] + t[n + 1]
    BY <1>3, <2>1
  <2> QED BY <1>1, <2>1, <2>2, <2>3
<1> HIDE DEF Same
<1>6. 0 \in P /\ \A n \in Nat : n \in P => n + 1 \in P
  BY <1>4, <1>5
<1>7. \A n \in Nat : n \in P
  <2> HIDE DEF P
  <2> QED BY <1>6, NatSets
<1>8. g[Len(s)] = h[Len(s)]
  <2>1. Same(Len(s))
    BY <1>0, <1>7
  <2> QED BY <1>0, <2>1 DEF Same
<1>9. h[Len(s) + 1] = h[Len(s)] + x
  <2>1. Len(s) + 1 \in 1..Len(t) /\ Len(s) + 1 - 1 = Len(s)
    BY <1>0, <1>1
  <2>2. h[Len(s) + 1] = h[Len(s) + 1 - 1] + t[Len(s) + 1]
    BY <1>3, <2>1
  <2> QED BY <1>1, <2>1, <2>2
<1> QED BY <1>1, <1>2, <1>3, <1>8, <1>9 DEF t

\* Replacing one of the summands changes the sum by the difference.
LEMMA TotalExcept ==
  ASSUME NEW s \in Seq(Int), NEW i \in 1..Len(s), NEW v \in Int
  PROVE  TotalOf([s EXCEPT ![i] = v]) = TotalOf(s) + v - s[i]
<1> DEFINE t == [s EXCEPT ![i] = v]
<1>0. Len(s) \in Nat /\ (\A j \in 1..Len(s) : s[j] \in Int) /\ s[i] \in Int
  BY LenProperties
<1>1. t \in Seq(Int) /\ Len(t) = Len(s)
      /\ \A j \in 1..Len(s) : t[j] = IF j = i THEN v ELSE s[j]
  BY ExceptSeq
<1> HIDE DEF t
<1>2. PICK g \in [0..Len(s) -> Int] :
        /\ g[0] = 0
        /\ \A n \in 1..Len(s) : g[n] = (g[n - 1] + s[n])
        /\ TotalOf(s) = g[Len(s)]
  BY TotalSteps
<1>3. PICK h \in [0..Len(t) -> Int] :
        /\ h[0] = 0
        /\ \A n \in 1..Len(t) : h[n] = (h[n - 1] + t[n])
        /\ TotalOf(t) = h[Len(t)]
  BY <1>1, TotalSteps
<1> DEFINE Off(n) == n <= Len(s) => h[n] = IF n < i THEN g[n] ELSE g[n] + v - s[i]
           P == {n \in Nat : Off(n)}
<1>4. Off(0)
  BY <1>2, <1>3
<1>5. \A n \in Nat : Off(n) => Off(n + 1)
  <2> SUFFICES ASSUME NEW n \in Nat, Off(n), n + 1 <= Len(s)
               PROVE  h[n + 1] = IF n + 1 < i THEN g[n + 1] ELSE g[n + 1] + v - s[i]
    OBVIOUS
  <2>1. n + 1 \in 1..Len(s) /\ n + 1 \in 1..Len(t) /\ n + 1 - 1 = n /\ n <= Len(s) /\ n \in 0..Len(s)
    BY <1>0, <1>1
  <2>2. g[n + 1] = g[n] + s[n + 1] /\ g[n] \in Int /\ s[n + 1] \in Int
    <3>1. g[n + 1] = g[n + 1 - 1] + s[n + 1]
      BY <1>2, <2>1
    <3>2. g[n] \in Int
      BY <2>1
    <3>3. s[n + 1] \in Int
      BY <1>0, <2>1
    <3> QED BY <2>1, <3>1, <3>2, <3>3
  <2>3. h[n + 1] = h[n] + t[n + 1]
    BY <1>3, <2>1
  <2>4. t[n + 1] = IF n + 1 = i THEN v ELSE s[n + 1]
    BY <1>1, <2>1
  <2>5. h[n] = IF n < i THEN g[n] ELSE g[n] + v - s[i]
    BY <2>1
  <2> HIDE DEF Off
  <2>6. CASE n + 1 < i
    BY <2>2, <2>3, <2>4, <2>5, <2>6
  <2>7. CASE n + 1 = i
    BY <1>0, <2>2, <2>3, <2>4, <2>5, <2>7
  <2>8. CASE n + 1 > i
    BY <1>0, <2>2, <2>3, <2>4, <2>5, <2>8
  <2> QED BY <1>0, <2>6, <2>7, <2>8
<1> HIDE DEF Off
<1>6. 0 \in P /\ \A n \in Nat : n \in P => n + 1 \in P
  BY <1>4, <1>5
<1>7. \A n \in Nat : n \in P
  <2> HIDE DEF P
  <2> QED BY <1>6, NatSets
<1>8. Off(Len(s))
  BY <1>0, <1>7
<1>9. h[Len(s)] = g[Len(s)] + v - s[i]
  BY <1>0, <1>8 DEF Off
<1> QED BY <1>1, <1>2, <1>3, <1>9 DEF t

\* What servers hold of a client.
ClientShares == [a : 0..(FieldQ - 1), b : 0..(FieldQ - 1), commitment : 1..(GroupP - 1)]
SidesOf(side) == [i \in 1..Len(contribs) |-> contribs[i][side]]
Plus(a, b, q) == (a + b) % q

\* A server's sum, share by share.
LEMMA ServerSteps ==
  ASSUME contribs \in Seq(ClientShares), NEW side \in {"a", "b"}
  PROVE  \E h \in [0..Len(contribs) -> Int] :
           /\ h[0] = 0
           /\ \A n \in 1..Len(contribs) : h[n] = Plus(h[n - 1], contribs[n][side], FieldQ)
           /\ ServerSum(side) = h[Len(contribs)]
<1> DEFINE op == [p \in (Int) \X (ClientShares) |-> Plus(p[1], p[2][side], FieldQ)]
           base == 0
           body(it) == [t \in SUBSET (1..Len(contribs)) |->
                          IF t = {} THEN base
                          ELSE Plus(it[t \ {Max(t)}], contribs[Max(t)][side], FieldQ)]
           iter == CHOOSE it : it = body(it)
<1>0. Len(contribs) \in Nat /\ DOMAIN contribs = 1..Len(contribs) /\ contribs \in Seq(ClientShares)
  BY LenProperties
<1>1. base \in Int /\ op \in [(Int) \X (ClientShares) -> Int]
  <2>1. base \in Int
    OBVIOUS
  <2>2. ASSUME NEW x \in Int, NEW y \in ClientShares PROVE Plus(x, y[side], FieldQ) \in Int
    <3>1. y[side] \in Int
      BY <2>2, SharesAssumption DEF ClientShares
    <3>2. x + y[side] \in Int /\ FieldQ \in Nat /\ FieldQ > 0
      BY <2>2, <3>1, SharesAssumption
    <3>3. (x + y[side]) % FieldQ \in 0..(FieldQ - 1)
      BY <3>2, ModRange
    <3> QED BY <3>2, <3>3 DEF Plus
  <2> QED BY <2>1, <2>2
<1>2. \A x \in Int, y \in ClientShares : op[<<x, y>>] = Plus(x, y[side], FieldQ)
  OBVIOUS
<1> HIDE DEF op, base
<1>3. PICK g \in [SUBSET (1..Len(contribs)) -> Int] : FoldsTo(g, contribs, base, op)
  BY <1>0, <1>1, FoldExists
<1>4. g = body(g)
  <2>1. \A t \in SUBSET (1..Len(contribs)) :
          g[t] = IF t = {} THEN base ELSE Plus(g[t \ {Max(t)}], contribs[Max(t)][side], FieldQ)
    BY <1>0, <1>2, <1>3, FoldPlaces DEF FoldsTo
  <2> QED BY <2>1
<1>5. iter = body(iter)
  BY <1>4
<1>6. ServerSum(side) = iter[1..Len(contribs)]
  BY <1>0 DEF ServerSum, Plus, FoldLeft, MapThenFoldSet, base
<1> HIDE DEF iter
<1>7. FoldsWithin(iter, contribs, Int, base, op)
  <2>1. \A t \in SUBSET (1..Len(contribs)) :
          iter[t] = IF t = {} THEN base ELSE Plus(iter[t \ {Max(t)}], contribs[Max(t)][side], FieldQ)
    BY <1>5
  <2> HIDE DEF body
  <2> QED BY <1>0, <1>2, <2>1, FoldPlaces DEF FoldsWithin
<1> HIDE DEF body
<1>8. FoldValue(iter[1..Len(contribs)], contribs, Int, base, op)
  BY <1>0, <1>1, <1>7, FoldSteps
<1>9. PICK h \in [0..Len(contribs) -> Int] :
        /\ h[0] = base
        /\ \A n \in 1..Len(contribs) : h[n] = op[<<h[n - 1], contribs[n]>>]
        /\ ServerSum(side) = h[Len(contribs)]
  BY <1>6, <1>8 DEF FoldValue
<1>10. \A n \in 1..Len(contribs) : h[n] = Plus(h[n - 1], contribs[n][side], FieldQ)
  <2> TAKE n \in 1..Len(contribs)
  <2>0. n - 1 \in 0..Len(contribs) /\ n \in 1..Len(contribs)
    BY <1>0
  <2>1. h[n - 1] \in Int
    BY <2>0
  <2>2. contribs[n] \in ClientShares
    BY <1>0, <2>0
  <2> QED BY <1>2, <1>9, <2>1, <2>2
<1> QED BY <1>9, <1>10 DEF base

\* The product of the commitments.
Committed == FoldLeft(LAMBDA acc, c : (acc * c.commitment) % GroupP, 1, contribs)

\* It, commitment by commitment.
LEMMA CommitSteps ==
  ASSUME contribs \in Seq(ClientShares)
  PROVE  \E h \in [0..Len(contribs) -> Int] :
           /\ h[0] = 1
           /\ \A n \in 1..Len(contribs) : h[n] = Times(h[n - 1], contribs[n].commitment, GroupP)
           /\ Committed = h[Len(contribs)]
<1> DEFINE op == [p \in (Int) \X (ClientShares) |-> Times(p[1], p[2].commitment, GroupP)]
           base == 1
           body(it) == [t \in SUBSET (1..Len(contribs)) |->
                          IF t = {} THEN base
                          ELSE Times(it[t \ {Max(t)}], contribs[Max(t)].commitment, GroupP)]
           iter == CHOOSE it : it = body(it)
<1>0. Len(contribs) \in Nat /\ DOMAIN contribs = 1..Len(contribs) /\ contribs \in Seq(ClientShares)
  BY LenProperties
<1>1. base \in Int /\ op \in [(Int) \X (ClientShares) -> Int]
  <2>1. base \in Int
    OBVIOUS
  <2>2. ASSUME NEW x \in Int, NEW y \in ClientShares PROVE Times(x, y.commitment, GroupP) \in Int
    <3>1. y.commitment \in Int
      BY <2>2, SharesAssumption DEF ClientShares
    <3>2. x * y.commitment \in Int /\ GroupP \in Nat /\ GroupP > 0
      BY <2>2, <3>1, SharesAssumption
    <3>3. (x * y.commitment) % GroupP \in 0..(GroupP - 1)
      BY <3>2, ModRange
    <3> QED BY <3>2, <3>3 DEF Times
  <2> QED BY <2>1, <2>2
<1>2. \A x \in Int, y \in ClientShares : op[<<x, y>>] = Times(x, y.commitment, GroupP)
  OBVIOUS
<1> HIDE DEF op, base
<1>3. PICK g \in [SUBSET (1..Len(contribs)) -> Int] : FoldsTo(g, contribs, base, op)
  BY <1>0, <1>1, FoldExists
<1>4. g = body(g)
  <2>1. \A t \in SUBSET (1..Len(contribs)) :
          g[t] = IF t = {} THEN base ELSE Times(g[t \ {Max(t)}], contribs[Max(t)].commitment, GroupP)
    BY <1>0, <1>2, <1>3, FoldPlaces DEF FoldsTo
  <2> QED BY <2>1
<1>5. iter = body(iter)
  BY <1>4
<1>6. Committed = iter[1..Len(contribs)]
  BY <1>0 DEF Committed, Times, FoldLeft, MapThenFoldSet, base
<1> HIDE DEF iter
<1>7. FoldsWithin(iter, contribs, Int, base, op)
  <2>1. \A t \in SUBSET (1..Len(contribs)) :
          iter[t] = IF t = {} THEN base ELSE Times(iter[t \ {Max(t)}], contribs[Max(t)].commitment, GroupP)
    BY <1>5
  <2> HIDE DEF body
  <2> QED BY <1>0, <1>2, <2>1, FoldPlaces DEF FoldsWithin
<1> HIDE DEF body
<1>8. FoldValue(iter[1..Len(contribs)], contribs, Int, base, op)
  BY <1>0, <1>1, <1>7, FoldSteps
<1>9. PICK h \in [0..Len(contribs) -> Int] :
        /\ h[0] = base
        /\ \A n \in 1..Len(contribs) : h[n] = op[<<h[n - 1], contribs[n]>>]
        /\ Committed = h[Len(contribs)]
  BY <1>6, <1>8 DEF FoldValue
<1>10. \A n \in 1..Len(contribs) : h[n] = Times(h[n - 1], contribs[n].commitment, GroupP)
  <2> TAKE n \in 1..Len(contribs)
  <2>0. n - 1 \in 0..Len(contribs) /\ n \in 1..Len(contribs)
    BY <1>0
  <2>1. h[n - 1] \in Int
    BY <2>0
  <2>2. contribs[n] \in ClientShares
    BY <1>0, <2>0
  <2> QED BY <1>2, <1>9, <2>1, <2>2
<1> QED BY <1>9, <1>10 DEF base

\* What a server holds is numbers, one per client.
LEMMA SidesNumbers ==
  ASSUME contribs \in Seq(ClientShares), NEW side \in {"a", "b"}
  PROVE  SidesOf(side) \in Seq(Int) /\ Len(SidesOf(side)) = Len(contribs)
         /\ \A i \in 1..Len(contribs) : SidesOf(side)[i] = contribs[i][side]
<1>1. Len(contribs) \in Nat /\ \A i \in 1..Len(contribs) : contribs[i] \in ClientShares
  BY LenProperties
<1>2. \A i \in 1..Len(contribs) : contribs[i][side] \in Int
  <2> TAKE i \in 1..Len(contribs)
  <2>1. contribs[i] \in ClientShares /\ FieldQ \in Nat
    BY <1>1, SharesAssumption
  <2> QED BY <2>1 DEF ClientShares
<1> QED BY <1>1, <1>2, IsASeq, LenProperties DEF SidesOf

\* A server's sum is the sum of its shares, in the field.
LEMMA ServerSumIs ==
  ASSUME contribs \in Seq(ClientShares), NEW side \in {"a", "b"}
  PROVE  ServerSum(side) \in Int /\ Cong(ServerSum(side), TotalOf(SidesOf(side)), FieldQ)
<1> DEFINE s == SidesOf(side)
           q == FieldQ
<1>0. /\ s \in Seq(Int) /\ Len(s) = Len(contribs) /\ Len(contribs) \in Nat
      /\ \A i \in 1..Len(contribs) : s[i] = contribs[i][side] /\ s[i] \in Int
      /\ q \in Nat /\ q > 0
  <2>1. s \in Seq(Int) /\ Len(s) = Len(contribs)
        /\ \A i \in 1..Len(contribs) : s[i] = contribs[i][side]
    BY SidesNumbers
  <2> HIDE DEF s
  <2>2. \A i \in 1..Len(s) : s[i] \in Int
    BY <2>1, ElementOfSeq
  <2> QED BY <2>1, <2>2, LenProperties, SharesAssumption
<1> HIDE DEF s, q
<1>1. PICK g \in [0..Len(contribs) -> Int] :
        /\ g[0] = 0
        /\ \A n \in 1..Len(contribs) : g[n] = Plus(g[n - 1], contribs[n][side], FieldQ)
        /\ ServerSum(side) = g[Len(contribs)]
  BY ServerSteps
<1>2. PICK h \in [0..Len(s) -> Int] :
        /\ h[0] = 0
        /\ \A n \in 1..Len(s) : h[n] = (h[n - 1] + s[n])
        /\ TotalOf(s) = h[Len(s)]
  BY <1>0, TotalSteps
<1> DEFINE Near(n) == n <= Len(contribs) => Cong(g[n], h[n], q)
           P == {n \in Nat : Near(n)}
<1>3. Near(0)
  <2>1. 0 \in Int
    OBVIOUS
  <2> QED BY <1>0, <1>1, <1>2, <2>1, CongRefl
<1>4. \A n \in Nat : Near(n) => Near(n + 1)
  <2> SUFFICES ASSUME NEW n \in Nat, Near(n), n + 1 <= Len(contribs) PROVE Cong(g[n + 1], h[n + 1], q)
    OBVIOUS
  <2>1. /\ n + 1 \in 1..Len(contribs) /\ n + 1 \in 1..Len(s) /\ n \in 0..Len(contribs)
        /\ n \in 0..Len(s) /\ n + 1 - 1 = n /\ n <= Len(contribs)
    BY <1>0
  <2>2. Cong(g[n], h[n], q)
    BY <2>1
  <2>3. g[n] \in Int /\ h[n] \in Int /\ s[n + 1] \in Int
    BY <1>0, <2>1
  <2>4. g[n + 1] = Plus(g[n], s[n + 1], q)
    <3>1. g[n + 1] = Plus(g[n + 1 - 1], contribs[n + 1][side], FieldQ)
      BY <1>1, <2>1
    <3> QED BY <1>0, <2>1, <3>1 DEF q
  <2>5. h[n + 1] = h[n] + s[n + 1]
    <3>1. h[n + 1] = h[n + 1 - 1] + s[n + 1]
      BY <1>2, <2>1
    <3> QED BY <2>1, <3>1
  <2> HIDE DEF Near
  <2>6. g[n] + s[n + 1] \in Int /\ h[n] + s[n + 1] \in Int
    BY <2>3
  <2>7. Cong(g[n + 1], g[n] + s[n + 1], q) /\ g[n + 1] \in Int
    <3> DEFINE x == g[n] + s[n + 1]
    <3>1. x \in Int /\ g[n + 1] = x % q
      BY <2>4, <2>6 DEF Plus
    <3> HIDE DEF x
    <3>2. x % q \in 0..(q - 1) /\ Cong(x % q, x, q)
      BY <1>0, <3>1, ModRange
    <3>3. x % q \in Int
      BY <1>0, <3>2
    <3> QED BY <3>1, <3>2, <3>3 DEF x
  <2>8. Cong(g[n] + s[n + 1], h[n] + s[n + 1], q)
    BY <1>0, <2>2, <2>3, CongAdd, CongRefl
  <2> QED BY <1>0, <2>5, <2>6, <2>7, <2>8, CongTrans
<1> HIDE DEF Near
<1>5. 0 \in P /\ \A n \in Nat : n \in P => n + 1 \in P
  BY <1>3, <1>4
<1>6. \A n \in Nat : n \in P
  <2> HIDE DEF P
  <2> QED BY <1>5, NatSets
<1>7. Cong(g[Len(contribs)], h[Len(contribs)], q)
  <2>1. Near(Len(contribs))
    BY <1>0, <1>6
  <2> QED BY <1>0, <2>1 DEF Near
<1>8. g[Len(contribs)] \in Int
  <2>1. Len(contribs) \in 0..Len(contribs)
    BY <1>0
  <2> QED BY <2>1
<1> QED BY <1>0, <1>1, <1>2, <1>7, <1>8 DEF s, q

\* The product of commitments is the power of the sum of what they commit to.
LEMMA CommittedIs ==
  ASSUME contribs \in Seq(ClientShares), NEW e \in Seq(Int), Len(e) = Len(contribs),
         \A i \in 1..Len(contribs) : e[i] >= 0 /\ contribs[i].commitment = Pw(e[i])
  PROVE  TotalOf(e) \in Nat /\ Committed = Pw(TotalOf(e))
<1>0. /\ Len(contribs) \in Nat /\ \A i \in 1..Len(contribs) : e[i] \in Nat
      /\ GroupP \in Nat /\ GroupP > 0
  <2>1. \A i \in 1..Len(e) : e[i] \in Int
    BY ElementOfSeq
  <2>2. Len(contribs) \in Nat
    BY LenProperties
  <2>3. \A i \in 1..Len(contribs) : e[i] \in Nat
    BY <2>1
  <2> QED BY <2>2, <2>3, PowerFacts
<1>1. PICK g \in [0..Len(contribs) -> Int] :
        /\ g[0] = 1
        /\ \A n \in 1..Len(contribs) : g[n] = Times(g[n - 1], contribs[n].commitment, GroupP)
        /\ Committed = g[Len(contribs)]
  BY CommitSteps
<1>2. PICK h \in [0..Len(e) -> Int] :
        /\ h[0] = 0
        /\ \A n \in 1..Len(e) : h[n] = (h[n - 1] + e[n])
        /\ TotalOf(e) = h[Len(e)]
  BY TotalSteps
<1> DEFINE Near(n) == n <= Len(contribs) => h[n] \in Nat /\ g[n] = Pw(h[n])
           P == {n \in Nat : Near(n)}
<1>3. Near(0)
  BY <1>1, <1>2, PowerFacts
<1>4. \A n \in Nat : Near(n) => Near(n + 1)
  <2> SUFFICES ASSUME NEW n \in Nat, Near(n), n + 1 <= Len(contribs)
               PROVE  h[n + 1] \in Nat /\ g[n + 1] = Pw(h[n + 1])
    OBVIOUS
  <2>1. n + 1 \in 1..Len(contribs) /\ n + 1 - 1 = n /\ n <= Len(contribs)
    BY <1>0
  <2>2. h[n] \in Nat /\ g[n] = Pw(h[n]) /\ e[n + 1] \in Nat
    BY <1>0, <2>1
  <2>3. g[n + 1] = Times(g[n], Pw(e[n + 1]), GroupP)
    <3>1. g[n + 1] = Times(g[n + 1 - 1], contribs[n + 1].commitment, GroupP)
      BY <1>1, <2>1
    <3>2. contribs[n + 1].commitment = Pw(e[n + 1])
      BY <2>1
    <3> QED BY <2>1, <3>1, <3>2
  <2>4. h[n + 1] = h[n] + e[n + 1]
    <3>1. h[n + 1] = h[n + 1 - 1] + e[n + 1]
      BY <1>2, <2>1
    <3> QED BY <2>1, <3>1
  <2>5. (Pw(h[n]) * Pw(e[n + 1])) % GroupP = Pw(h[n] + e[n + 1])
    BY <2>2, PowerFacts
  <2> QED BY <2>2, <2>3, <2>4, <2>5 DEF Times
<1> HIDE DEF Near
<1>5. 0 \in P /\ \A n \in Nat : n \in P => n + 1 \in P
  BY <1>3, <1>4
<1>6. \A n \in Nat : n \in P
  <2> HIDE DEF P
  <2> QED BY <1>5, NatSets
<1>7. Near(Len(contribs))
  BY <1>0, <1>6
<1> QED BY <1>0, <1>1, <1>2, <1>7 DEF Near

\* Nonzero residues of PRIME have inverses, and so products that are not zero.
LEMMA PrimeFacts ==
  /\ SharePrime \in Nat /\ SharePrime > 2 /\ Shares \in Nat /\ Shares < SharePrime
  /\ Threshold \in 2..Shares
  /\ \A a \in 1..(SharePrime - 1) :
       ModInverse(a, SharePrime) \in 0..(SharePrime - 1) /\ Cong(a * ModInverse(a, SharePrime), 1, SharePrime)
<1>1. /\ SharePrime \in Nat /\ SharePrime > 2 /\ Shares \in Nat /\ Shares < SharePrime
      /\ Threshold \in 2..Shares
  BY SharesAssumption
<1>2. ASSUME NEW a \in 1..(SharePrime - 1)
      PROVE  ModInverse(a, SharePrime) \in 0..(SharePrime - 1)
             /\ Cong(a * ModInverse(a, SharePrime), 1, SharePrime)
  <2>1. a % SharePrime = a /\ a \in Int /\ SharePrime - 2 \in Nat /\ SharePrime > 1
    BY <1>1, <1>2
  <2>2. PowMod(a, SharePrime - 2, SharePrime) \in 0..(SharePrime - 1)
    BY <1>1, <2>1, PowerNext
  <2>3. ModInverse(a, SharePrime) \in 0..(SharePrime - 1)
    BY <2>1, <2>2 DEF ModInverse
  <2> DEFINE u == ModInverse(a, SharePrime)
  <2>4. (a * u) % SharePrime = 1
    BY <1>2, GroupAssumption
  <2> HIDE DEF u
  <2>5. u \in Int
    BY <1>1, <2>3 DEF u
  <2>6. a * u \in Int /\ 1 % SharePrime = 1 /\ SharePrime > 0 /\ 1 \in Int
    BY <1>1, <2>1, <2>5
  <2>7. (a * u) % SharePrime = 1 % SharePrime
    BY <2>4, <2>6
  <2>8. Cong(a * u, 1, SharePrime)
    BY <1>1, <2>6, <2>7, CongMod
  <2> QED BY <2>3, <2>8 DEF u
<1> QED BY <1>1, <1>2

\* The inverse of a number that is not a multiple of PRIME.
Inv(a) == ModInverse(a, SharePrime)

\* Fermat: the power the code computes is an inverse.
LEMMA Inverses ==
  ASSUME NEW a \in Int, a % SharePrime # 0
  PROVE  Inv(a) \in 0..(SharePrime - 1) /\ Inv(a) \in Int /\ Cong(a * Inv(a), 1, SharePrime)
<1> DEFINE p == SharePrime
           b == a % p
<1>1. p \in Nat /\ p > 2 /\ p > 0
  BY PrimeFacts
<1>2. b \in 0..(p - 1) /\ Cong(b, a, p) /\ Cong(a, b, p)
  <2> HIDE DEF p
  <2> QED BY <1>1, ModRange
<1>3. b # 0
  OBVIOUS
<1> HIDE DEF b
<1>4. b \in 1..(p - 1) /\ b \in Int
  <2> HIDE DEF p
  <2> QED BY <1>1, <1>2, <1>3
<1>5. Inv(b) \in 0..(p - 1) /\ Cong(b * Inv(b), 1, p)
  BY <1>4, PrimeFacts DEF Inv
<1>6. Inv(a) = Inv(b)
  <2>1. b % p = b
    <3> HIDE DEF p
    <3> QED BY <1>1, <1>4
  <2> QED BY <2>1 DEF Inv, ModInverse, b
<1>7. Inv(b) \in Int
  BY <1>1, <1>5
<1> DEFINE u == Inv(b)
<1>8. u \in Int /\ Cong(b * u, 1, p) /\ Cong(u, u, p)
  <2>1. u \in Int
    BY <1>7
  <2> HIDE DEF u
  <2>2. Cong(u, u, p)
    BY <1>1, <2>1, CongRefl
  <2> QED BY <1>5, <2>1, <2>2 DEF u
<1> HIDE DEF u, p
<1>9. a * u \in Int /\ b * u \in Int /\ 1 \in Int
  BY <1>4, <1>8
<1>10. Cong(a * u, b * u, p)
  BY <1>1, <1>2, <1>4, <1>8, CongMul
<1>11. Cong(a * u, 1, p)
  BY <1>1, <1>8, <1>9, <1>10, CongTrans
<1> QED BY <1>5, <1>6, <1>7, <1>11 DEF u, p

\* A product of residues other than 0 is not 0.
LEMMA NonzeroProduct ==
  ASSUME NEW a \in Int, NEW b \in Int, a % SharePrime # 0, b % SharePrime # 0
  PROVE  (a * b) % SharePrime # 0
<1> SUFFICES ASSUME (a * b) % SharePrime = 0 PROVE FALSE
  OBVIOUS
<1> DEFINE p == SharePrime
           u == Inv(a)
<1>1. p \in Nat /\ p > 2 /\ p > 0 /\ 0 \in Int /\ 1 \in Int
  BY PrimeFacts
<1>2. u \in Int /\ Cong(a * u, 1, p)
  BY Inverses
<1>3. (a * b) % p = 0 /\ b % p # 0
  OBVIOUS
<1> HIDE DEF p, u
<1>4. a * b \in Int /\ a * u \in Int /\ 0 % p = 0
  BY <1>1, <1>2
<1>5. Cong(a * b, 0, p)
  <2>1. (a * b) % p = 0 % p
    BY <1>3, <1>4
  <2> QED BY <1>1, <1>4, <2>1, CongMod
<1>6. Cong(u, u, p) /\ Cong(b, b, p)
  BY <1>1, <1>2, CongRefl
<1>7. Cong((a * b) * u, 0 * u, p)
  BY <1>1, <1>2, <1>4, <1>5, <1>6, CongMul
<1>8. Cong((a * u) * b, 1 * b, p)
  BY <1>1, <1>2, <1>4, <1>6, CongMul
<1>9. (a * b) * u = (a * u) * b /\ 0 * u = 0 /\ 1 * b = b /\ (a * u) * b \in Int
  BY <1>2
<1>10. Cong(b, (a * u) * b, p)
  <2>1. Cong((a * u) * b, b, p)
    BY <1>8, <1>9
  <2> QED BY <1>1, <1>9, <2>1, CongSym
<1>11. Cong((a * u) * b, 0, p)
  BY <1>7, <1>9
<1>12. Cong(b, 0, p)
  BY <1>1, <1>9, <1>10, <1>11, CongTrans
<1>13. b % p = 0 % p
  BY <1>1, <1>12, CongMod
<1> QED BY <1>3, <1>4, <1>13

\* Different residues differ by a number that is not a multiple of PRIME.
LEMMA NonzeroDifference ==
  ASSUME NEW a \in 0..(SharePrime - 1), NEW b \in 0..(SharePrime - 1), a # b
  PROVE  a - b \in Int /\ (a - b) % SharePrime # 0
<1>1. SharePrime \in Nat /\ SharePrime > 0 /\ 0 \in Int
  BY PrimeFacts
<1> DEFINE p == SharePrime
<1> HIDE DEF p
<1>2. a \in Int /\ b \in Int /\ a - b \in Int /\ p \in Nat /\ p > 0
      /\ a \in 0..(p - 1) /\ b \in 0..(p - 1) /\ 0 % p = 0
  BY <1>1 DEF p
<1>3. ASSUME (a - b) % p = 0 PROVE FALSE
  <2>1. (a - b) % p = 0 % p
    BY <1>2, <1>3
  <2>2. Cong(a - b, 0, p)
    BY <1>1, <1>2, <2>1, CongMod
  <2>3. Cong(b, b, p)
    BY <1>2, CongRefl
  <2>4. Cong((a - b) + b, 0 + b, p)
    BY <1>1, <1>2, <2>2, <2>3, CongAdd
  <2>5. (a - b) + b = a /\ 0 + b = b
    BY <1>2
  <2>6. Cong(a, b, p)
    BY <2>4, <2>5
  <2>7. a = b
    BY <1>2, <2>6, CongSame
  <2> QED BY <2>7
<1> QED BY <1>2, <1>3 DEF p

\* Congruent numbers, each times the same.
LEMMA CongTimes ==
  ASSUME NEW p \in Nat, NEW x \in Int, NEW a \in Int, NEW b \in Int, Cong(a, b, p)
  PROVE  Cong(x * a, x * b, p)
<1>1. Cong(x, x, p)
  BY CongRefl
<1> QED BY <1>1, CongMul

\* Where a polynomial is read: at the holders' points, and at 0, where the secret lies.
Points == 0..Shares
Maps == [Points -> Int]

\* A number more at the low end: f is g times the point, and a.
Above(f, g, a) == \A h \in Points : Cong(f[h], g[h] * h + a, SharePrime)

\* A polynomial with k coefficients, modulo PRIME, coefficient by coefficient.
Built(f, k, chain) ==
  /\ chain \in [0..k -> Maps]
  /\ \A h \in Points : Cong(chain[0][h], 0, SharePrime)
  /\ \A j \in 1..k : \E a \in Int : Above(chain[j], chain[j - 1], a)
  /\ f = chain[k]
Polynomial(f, k) == \E chain : Built(f, k, chain)

\* A polynomial with no coefficients is 0 everywhere; one with one more is a
\* polynomial times the point, plus a number.
LEMMA PolynomialSteps ==
  ASSUME NEW f, NEW k \in Nat
  PROVE  /\ Polynomial(f, 0) <=> f \in Maps /\ \A h \in Points : Cong(f[h], 0, SharePrime)
         /\ Polynomial(f, k + 1) <=>
              f \in Maps /\ \E g \in Maps, a \in Int : Polynomial(g, k) /\ Above(f, g, a)
         /\ Polynomial(f, k) => f \in Maps
<1>1. ASSUME Polynomial(f, 0)
      PROVE  f \in Maps /\ \A h \in Points : Cong(f[h], 0, SharePrime)
  <2>1. PICK chain : Built(f, 0, chain)
    BY <1>1 DEF Polynomial
  <2>2. 0 \in 0..0
    OBVIOUS
  <2> QED BY <2>1, <2>2 DEF Built
<1>2. ASSUME f \in Maps, \A h \in Points : Cong(f[h], 0, SharePrime)
      PROVE  Polynomial(f, 0)
  <2> DEFINE chain == [j \in 0..0 |-> f]
  <2>1. chain[0] = f /\ chain \in [0..0 -> Maps]
    BY <1>2
  <2>2. \A j \in 1..0 : FALSE
    OBVIOUS
  <2> HIDE DEF chain
  <2>3. Built(f, 0, chain)
    BY <1>2, <2>1, <2>2 DEF Built
  <2> QED BY <2>3 DEF Polynomial
<1>3. ASSUME Polynomial(f, k + 1)
      PROVE  f \in Maps /\ \E g \in Maps, a \in Int : Polynomial(g, k) /\ Above(f, g, a)
  <2>1. PICK chain : Built(f, k + 1, chain)
    BY <1>3 DEF Polynomial
  <2> DEFINE lower == [j \in 0..k |-> chain[j]]
             g == chain[k]
  <2>2. /\ k + 1 \in 0..(k + 1) /\ k \in 0..(k + 1) /\ k + 1 \in 1..(k + 1) /\ k + 1 - 1 = k
        /\ 0 \in 0..k /\ k \in 0..k
        /\ \A j \in 0..k : j \in 0..(k + 1)
        /\ \A j \in 1..k : j \in 1..(k + 1) /\ j \in 0..k /\ j - 1 \in 0..k
    OBVIOUS
  <2>3. chain \in [0..(k + 1) -> Maps] /\ f = chain[k + 1]
    BY <2>1 DEF Built
  <2>4. f \in Maps /\ g \in Maps
    BY <2>2, <2>3
  <2>5. lower \in [0..k -> Maps] /\ \A j \in 0..k : lower[j] = chain[j]
    BY <2>2, <2>3
  <2>6. \E a \in Int : Above(f, g, a)
    <3>1. \E a \in Int : Above(chain[k + 1], chain[k + 1 - 1], a)
      BY <2>1, <2>2 DEF Built
    <3> QED BY <2>2, <2>3, <3>1
  <2> HIDE DEF lower
  <2>7. \A j \in 1..k : \E a \in Int : Above(lower[j], lower[j - 1], a)
    <3> TAKE j \in 1..k
    <3>1. \E a \in Int : Above(chain[j], chain[j - 1], a)
      BY <2>1, <2>2 DEF Built
    <3> QED BY <2>2, <2>5, <3>1
  <2>8. Built(g, k, lower)
    BY <2>1, <2>2, <2>5, <2>7 DEF Built
  <2>9. Polynomial(g, k)
    BY <2>8 DEF Polynomial
  <2> QED BY <2>4, <2>6, <2>9
<1>4. ASSUME f \in Maps, NEW g \in Maps, NEW a \in Int, Polynomial(g, k), Above(f, g, a)
      PROVE  Polynomial(f, k + 1)
  <2>1. PICK lower : Built(g, k, lower)
    BY <1>4 DEF Polynomial
  <2> DEFINE chain == [j \in 0..(k + 1) |-> IF j = k + 1 THEN f ELSE lower[j]]
  <2>2. /\ k + 1 \in 0..(k + 1) /\ k + 1 - 1 = k /\ 0 \in 0..(k + 1) /\ 0 # k + 1
        /\ k \in 0..k /\ k \in 0..(k + 1) /\ k # k + 1
        /\ \A j \in 0..(k + 1) : j # k + 1 => j \in 0..k
        /\ \A j \in 1..(k + 1) : j # k + 1 =>
             /\ j \in 1..k /\ j \in 0..(k + 1) /\ j - 1 \in 0..(k + 1) /\ j - 1 # k + 1
    OBVIOUS
  <2>3. lower \in [0..k -> Maps] /\ g = lower[k]
    BY <2>1 DEF Built
  <2>4. chain \in [0..(k + 1) -> Maps]
    BY <1>4, <2>2, <2>3
  <2>5. chain[k + 1] = f /\ \A j \in 0..(k + 1) : j # k + 1 => chain[j] = lower[j]
    BY <2>2
  <2> HIDE DEF chain
  <2>6. \A j \in 1..(k + 1) : \E b \in Int : Above(chain[j], chain[j - 1], b)
    <3> TAKE j \in 1..(k + 1)
    <3>1. CASE j = k + 1
      <4>1. chain[j] = f /\ chain[j - 1] = g
        BY <2>2, <2>3, <2>5, <3>1
      <4> QED BY <1>4, <4>1
    <3>2. CASE j # k + 1
      <4>1. j \in 1..k /\ chain[j] = lower[j] /\ chain[j - 1] = lower[j - 1]
        BY <2>2, <2>5, <3>2
      <4>2. \E b \in Int : Above(lower[j], lower[j - 1], b)
        BY <2>1, <4>1 DEF Built
      <4> QED BY <4>1, <4>2
    <3> QED BY <3>1, <3>2
  <2>7. Built(f, k + 1, chain)
    BY <2>1, <2>2, <2>4, <2>5, <2>6 DEF Built
  <2> QED BY <2>7 DEF Polynomial
<1>5. Polynomial(f, k) => f \in Maps
  BY DEF Polynomial, Built
<1> QED BY <1>1, <1>2, <1>3, <1>4, <1>5

\* A point is a residue, and a map takes integers there.
LEMMA PointNumber ==
  ASSUME NEW h \in Points
  PROVE  h \in Int /\ SharePrime \in Nat /\ SharePrime > 0 /\ h \in 0..(SharePrime - 1)
         /\ \A f \in Maps : f[h] \in Int
BY PrimeFacts DEF Points, Maps

\* Combinations of polynomials.
LEMMA SumStep ==
  ASSUME NEW p \in Nat, NEW h \in Int, NEW c \in Int, NEW d \in Int,
         NEW e \in Int, NEW f \in Int, NEW g \in Int, NEW r \in Int, NEW s \in Int,
         NEW a \in Int, NEW b \in Int,
         Cong(e, c * f + d * g, p), Cong(f, r * h + a, p), Cong(g, s * h + b, p)
  PROVE  Cong(e, (c * r + d * s) * h + (c * a + d * b), p)
<1>1. PICK i \in Int : e = (c * f + d * g) + i * p
  BY DEF Cong
<1>2. PICK j \in Int : f = (r * h + a) + j * p
  BY DEF Cong
<1>3. PICK k \in Int : g = (s * h + b) + k * p
  BY DEF Cong
<1>4. e = ((c * r + d * s) * h + (c * a + d * b)) + (i + c * j + d * k) * p
  BY <1>1, <1>2, <1>3
<1>5. i + c * j + d * k \in Int
  OBVIOUS
<1> QED BY <1>4, <1>5 DEF Cong

\* Polynomials combine coefficient by coefficient.
LEMMA PolynomialSum ==
  ASSUME NEW k \in Nat, NEW f, NEW g, Polynomial(f, k), Polynomial(g, k),
         NEW c \in Int, NEW d \in Int, NEW e \in Maps,
         \A h \in Points : Cong(e[h], c * f[h] + d * g[h], SharePrime)
  PROVE  Polynomial(e, k)
<1> DEFINE Combined(u, v, w) == \A h \in Points : Cong(u[h], c * v[h] + d * w[h], SharePrime)
           Sums(n) == \A u, v, w : u \in Maps /\ Polynomial(v, n) /\ Polynomial(w, n)
                                   /\ Combined(u, v, w) => Polynomial(u, n)
           P == {n \in Nat : Sums(n)}
<1>1. Sums(0)
  <2> SUFFICES ASSUME NEW u, NEW v, NEW w, u \in Maps, Polynomial(v, 0), Polynomial(w, 0),
                      Combined(u, v, w)
               PROVE  Polynomial(u, 0)
    OBVIOUS
  <2>1. \A h \in Points : Cong(u[h], 0, SharePrime)
    <3> TAKE h \in Points
    <3> DEFINE x == u[h]
               y == v[h]
               z == w[h]
    <3>1. x \in Int /\ y \in Int /\ z \in Int /\ SharePrime \in Nat
      BY PointNumber, PolynomialSteps
    <3>2. Cong(y, 0, SharePrime) /\ Cong(z, 0, SharePrime)
      BY PolynomialSteps
    <3>3. Cong(x, c * y + d * z, SharePrime)
      OBVIOUS
    <3> HIDE DEF x, y, z
    <3>4. PICK i \in Int : x = (c * y + d * z) + i * SharePrime
      BY <3>3 DEF Cong
    <3>5. PICK j \in Int : y = 0 + j * SharePrime
      BY <3>2 DEF Cong
    <3>6. PICK m \in Int : z = 0 + m * SharePrime
      BY <3>2 DEF Cong
    <3>7. x = 0 + (i + c * j + d * m) * SharePrime /\ i + c * j + d * m \in Int
      BY <3>1, <3>4, <3>5, <3>6
    <3> QED BY <3>7 DEF Cong, x
  <2> QED BY <2>1, PolynomialSteps
<1>2. \A n \in Nat : Sums(n) => Sums(n + 1)
  <2> SUFFICES ASSUME NEW n \in Nat, Sums(n), NEW u, NEW v, NEW w, u \in Maps,
                      Polynomial(v, n + 1), Polynomial(w, n + 1), Combined(u, v, w)
               PROVE  Polynomial(u, n + 1)
    OBVIOUS
  <2>1. PICK r \in Maps, a \in Int : Polynomial(r, n) /\ Above(v, r, a)
    BY PolynomialSteps
  <2>2. PICK s \in Maps, b \in Int : Polynomial(s, n) /\ Above(w, s, b)
    BY PolynomialSteps
  <2> DEFINE t == [h \in Points |-> c * r[h] + d * s[h]]
  <2>3. \A h \in Points : t[h] = c * r[h] + d * s[h] /\ r[h] \in Int /\ s[h] \in Int /\ t[h] \in Int
    BY PointNumber
  <2>4. t \in Maps
    BY <2>3 DEF Maps
  <2> HIDE DEF t
  <2>5. Polynomial(t, n)
    <3>1. Combined(t, r, s)
      <4> SUFFICES ASSUME NEW h \in Points PROVE Cong(t[h], c * r[h] + d * s[h], SharePrime)
        OBVIOUS
      <4>1. t[h] = c * r[h] + d * s[h] /\ t[h] \in Int /\ SharePrime \in Nat
        BY <2>3, PointNumber
      <4> QED BY <4>1, CongRefl
    <3> HIDE DEF Combined
    <3> QED BY <2>1, <2>2, <2>4, <3>1
  <2>6. c * a + d * b \in Int
    OBVIOUS
  <2>7. Above(u, t, c * a + d * b)
    <3> SUFFICES ASSUME NEW h \in Points PROVE Cong(u[h], t[h] * h + (c * a + d * b), SharePrime)
      BY DEF Above
    <3> DEFINE x == u[h]
               y == v[h]
               z == w[h]
               r0 == r[h]
               s0 == s[h]
    <3>1. /\ x \in Int /\ y \in Int /\ z \in Int /\ SharePrime \in Nat /\ h \in Int
          /\ r0 \in Int /\ s0 \in Int /\ t[h] = c * r0 + d * s0
      <4>1. v \in Maps /\ w \in Maps
        BY PolynomialSteps
      <4> QED BY <2>3, <4>1, PointNumber
    <3>2. Cong(y, r0 * h + a, SharePrime) /\ Cong(z, s0 * h + b, SharePrime)
      BY <2>1, <2>2 DEF Above
    <3>3. Cong(x, c * y + d * z, SharePrime)
      OBVIOUS
    <3> HIDE DEF x, y, z, r0, s0, Sums
    <3>4. Cong(x, (c * r0 + d * s0) * h + (c * a + d * b), SharePrime)
      BY <3>1, <3>2, <3>3, SumStep
    <3> QED BY <3>1, <3>4 DEF x
  <2> QED BY <2>4, <2>5, <2>6, <2>7, PolynomialSteps
<1> HIDE DEF Sums
<1>3. 0 \in P /\ \A n \in Nat : n \in P => n + 1 \in P
  BY <1>1, <1>2
<1>4. \A n \in Nat : n \in P
  <2> HIDE DEF P
  <2> QED BY <1>3, NatSets
<1>5. Sums(k)
  BY <1>4
<1>6. Combined(e, f, g)
  OBVIOUS
<1> HIDE DEF Combined
<1> QED BY <1>5, <1>6 DEF Sums

\* A polynomial is one with a coefficient more, which is 0.
LEMMA PolynomialMore ==
  ASSUME NEW k \in Nat, NEW f, Polynomial(f, k)
  PROVE  Polynomial(f, k + 1)
<1> DEFINE Grows(n) == \A g : Polynomial(g, n) => Polynomial(g, n + 1)
           P == {n \in Nat : Grows(n)}
<1>1. Grows(0)
  <2> SUFFICES ASSUME NEW g, Polynomial(g, 0) PROVE Polynomial(g, 0 + 1)
    OBVIOUS
  <2>0. 0 \in Nat /\ 0 \in Int
    OBVIOUS
  <2>1. g \in Maps /\ \A h \in Points : Cong(g[h], 0, SharePrime)
    BY PolynomialSteps
  <2>2. Above(g, g, 0)
    <3> SUFFICES ASSUME NEW h \in Points PROVE Cong(g[h], g[h] * h + 0, SharePrime)
      BY DEF Above
    <3> DEFINE x == g[h]
    <3>1. x \in Int /\ SharePrime \in Nat /\ h \in Int /\ Cong(x, 0, SharePrime)
      BY <2>1, PointNumber
    <3> HIDE DEF x
    <3>2. PICK i \in Int : x = 0 + i * SharePrime
      BY <3>1 DEF Cong
    <3>3. x = (x * h + 0) + (i - i * h) * SharePrime /\ i - i * h \in Int
      BY <3>1, <3>2
    <3>4. Cong(x, x * h + 0, SharePrime)
      BY <3>3 DEF Cong
    <3> QED BY <3>4 DEF x
  <2> QED BY <2>0, <2>1, <2>2, PolynomialSteps
<1>2. \A n \in Nat : Grows(n) => Grows(n + 1)
  <2> SUFFICES ASSUME NEW n \in Nat, Grows(n), NEW g, Polynomial(g, n + 1)
               PROVE  Polynomial(g, (n + 1) + 1)
    OBVIOUS
  <2>1. PICK r \in Maps, a \in Int : Polynomial(r, n) /\ Above(g, r, a)
    BY PolynomialSteps
  <2>2. Polynomial(r, n + 1) /\ g \in Maps /\ n + 1 \in Nat
    BY <2>1, PolynomialSteps
  <2> QED BY <2>1, <2>2, PolynomialSteps
<1> HIDE DEF Grows
<1>3. 0 \in P /\ \A n \in Nat : n \in P => n + 1 \in P
  BY <1>1, <1>2
<1>4. \A n \in Nat : n \in P
  <2> HIDE DEF P
  <2> QED BY <1>3, NatSets
<1>5. Grows(k)
  BY <1>4
<1> QED BY <1>5 DEF Grows

\* Coefficients of 0 may be added at the top.
LEMMA PolynomialUp ==
  ASSUME NEW k \in Nat, NEW m \in Nat, k <= m, NEW f, Polynomial(f, k)
  PROVE  Polynomial(f, m)
<1> DEFINE Up(n) == Polynomial(f, k + n)
           P == {n \in Nat : Up(n)}
<1>1. Up(0)
  <2>1. k + 0 = k
    OBVIOUS
  <2> QED BY <2>1
<1>2. \A n \in Nat : Up(n) => Up(n + 1)
  <2> SUFFICES ASSUME NEW n \in Nat, Polynomial(f, k + n) PROVE Polynomial(f, k + (n + 1))
    OBVIOUS
  <2>1. k + n \in Nat /\ k + (n + 1) = (k + n) + 1
    OBVIOUS
  <2> QED BY <2>1, PolynomialMore
<1> HIDE DEF Up
<1>3. 0 \in P /\ \A n \in Nat : n \in P => n + 1 \in P
  BY <1>1, <1>2
<1>4. \A n \in Nat : n \in P
  <2> HIDE DEF P
  <2> QED BY <1>3, NatSets
<1>5. m - k \in Nat /\ k + (m - k) = m
  OBVIOUS
<1>6. Up(m - k)
  BY <1>4, <1>5
<1> QED BY <1>5, <1>6 DEF Up

\* Nothing is a polynomial of any size, and a number is one of any size but 0.
LEMMA PolynomialPlain ==
  ASSUME NEW k \in Nat, NEW a \in Int
  PROVE  Polynomial([h \in Points |-> 0], k) /\ Polynomial([h \in Points |-> a], k + 1)
<1> DEFINE z == [h \in Points |-> 0]
           f == [h \in Points |-> a]
<1>0. SharePrime \in Nat /\ 0 \in Nat /\ \A h \in Points : h \in Int
  BY PointNumber, PrimeFacts
<1>1. z \in Maps /\ f \in Maps /\ \A h \in Points : z[h] = 0 /\ f[h] = a
  BY DEF Maps
<1> HIDE DEF z, f
<1>2. Polynomial(z, 0)
  <2>1. \A h \in Points : Cong(z[h], 0, SharePrime)
    BY <1>0, <1>1, CongRefl
  <2> QED BY <1>0, <1>1, <2>1, PolynomialSteps
<1>3. Polynomial(z, k)
  <2>1. 0 <= k
    OBVIOUS
  <2> QED BY <1>0, <1>2, <2>1, PolynomialUp
<1>4. Above(f, z, a)
  <2> SUFFICES ASSUME NEW h \in Points PROVE Cong(f[h], z[h] * h + a, SharePrime)
    BY DEF Above
  <2>1. 0 * h + a = a
    BY <1>0
  <2>2. f[h] = a /\ z[h] = 0
    BY <1>1
  <2> QED BY <1>0, <2>1, <2>2, CongRefl
<1>5. Polynomial(f, k + 1)
  BY <1>1, <1>3, <1>4, PolynomialSteps
<1> QED BY <1>3, <1>5 DEF z, f

\* A polynomial less its value at d has h - d as a factor.
LEMMA DivideStep ==
  ASSUME NEW p \in Nat, NEW h \in Int, NEW d \in Int, NEW f \in Int, NEW e \in Int,
         NEW g \in Int, NEW r \in Int, NEW a \in Int, NEW q \in Int,
         Cong(f, g * h + a, p), Cong(e, r * d + a, p), Cong(g, r + (h - d) * q, p)
  PROVE  Cong(f, e + (h - d) * (q * h + r), p)
<1>1. PICK i \in Int : f = (g * h + a) + i * p
  BY DEF Cong
<1>2. PICK j \in Int : e = (r * d + a) + j * p
  BY DEF Cong
<1>3. PICK k \in Int : g = (r + (h - d) * q) + k * p
  BY DEF Cong
<1>4. f = (e + (h - d) * (q * h + r)) + (i + k * h - j) * p
  BY <1>1, <1>2, <1>3
<1>5. i + k * h - j \in Int
  OBVIOUS
<1> QED BY <1>4, <1>5 DEF Cong

\* The remainder theorem: away from a point, a polynomial is its value there plus
\* the distance times a polynomial with one coefficient less.
LEMMA PolynomialDivide ==
  ASSUME NEW k \in Nat, NEW f, Polynomial(f, k + 1), NEW d \in Points
  PROVE  \E q \in Maps : /\ Polynomial(q, k)
                        /\ \A h \in Points : Cong(f[h], f[d] + (h - d) * q[h], SharePrime)
<1> DEFINE Factor(g, q) == \A h \in Points : Cong(g[h], g[d] + (h - d) * q[h], SharePrime)
           Divides(n) == \A g : Polynomial(g, n + 1) =>
                           \E q \in Maps : Polynomial(q, n) /\ Factor(g, q)
           P == {n \in Nat : Divides(n)}
<1>0. SharePrime \in Nat /\ d \in Int /\ \A h \in Points : h \in Int
  BY PointNumber
<1>1. Divides(0)
  <2> SUFFICES ASSUME NEW g, Polynomial(g, 0 + 1)
               PROVE  \E q \in Maps : Polynomial(q, 0) /\ Factor(g, q)
    OBVIOUS
  <2>0. 0 \in Nat
    OBVIOUS
  <2>1. PICK r \in Maps, a \in Int : Polynomial(r, 0) /\ Above(g, r, a)
    BY <2>0, PolynomialSteps
  <2>2. g \in Maps
    BY <2>0, PolynomialSteps
  <2> DEFINE z == [h \in Points |-> 0]
  <2>3. z \in Maps /\ (\A h \in Points : z[h] = 0) /\ Polynomial(z, 0)
    <3>1. Polynomial(z, 0)
      BY <2>0, <2>1, PolynomialPlain
    <3>2. z \in Maps
      BY DEF Maps
    <3> QED BY <3>1, <3>2
  <2> HIDE DEF z
  <2>4. \A h \in Points : Cong(g[h], a, SharePrime)
    <3> TAKE h \in Points
    <3> DEFINE x == g[h]
               y == r[h]
    <3>1. x \in Int /\ y \in Int /\ h \in Int /\ Cong(y, 0, SharePrime) /\ Cong(x, y * h + a, SharePrime)
      BY <1>0, <2>0, <2>1, <2>2, PointNumber, PolynomialSteps DEF Above
    <3> HIDE DEF x, y
    <3>2. PICK i \in Int : y = 0 + i * SharePrime
      BY <3>1 DEF Cong
    <3>3. PICK j \in Int : x = (y * h + a) + j * SharePrime
      BY <3>1 DEF Cong
    <3>4. x = a + (i * h + j) * SharePrime /\ i * h + j \in Int
      BY <1>0, <3>1, <3>2, <3>3
    <3> QED BY <3>4 DEF Cong, x
  <2>5. Factor(g, z)
    <3> SUFFICES ASSUME NEW h \in Points PROVE Cong(g[h], g[d] + (h - d) * z[h], SharePrime)
      OBVIOUS
    <3> DEFINE x == g[h]
               y == g[d]
    <3>1. x \in Int /\ y \in Int /\ h - d \in Int
      BY <1>0, <2>2, PointNumber
    <3>2. Cong(x, a, SharePrime) /\ Cong(a, y, SharePrime)
      BY <1>0, <2>4, <3>1, CongSym
    <3>3. (h - d) * 0 = 0 /\ y + 0 = y
      BY <3>1
    <3>4. Cong(x, y, SharePrime)
      <4> HIDE DEF x, y
      <4> QED BY <1>0, <3>1, <3>2, CongTrans
    <3> QED BY <2>3, <3>3, <3>4
  <2> HIDE DEF Factor
  <2> QED BY <2>3, <2>5
<1>2. \A n \in Nat : Divides(n) => Divides(n + 1)
  <2> SUFFICES ASSUME NEW n \in Nat, Divides(n), NEW f1, Polynomial(f1, (n + 1) + 1)
               PROVE  \E q \in Maps : Polynomial(q, n + 1) /\ Factor(f1, q)
    OBVIOUS
  <2>1. PICK g \in Maps, a \in Int : Polynomial(g, n + 1) /\ Above(f1, g, a)
    <3>1. n + 1 \in Nat
      OBVIOUS
    <3> QED BY <3>1, PolynomialSteps
  <2>2. f1 \in Maps
    <3>1. n + 1 \in Nat
      OBVIOUS
    <3> QED BY <3>1, PolynomialSteps
  <2>3. PICK q0 \in Maps : Polynomial(q0, n) /\ Factor(g, q0)
    BY <2>1
  <2> DEFINE q == [h \in Points |-> q0[h] * h + g[d]]
  <2>4. g[d] \in Int /\ \A h \in Points : q0[h] \in Int /\ h \in Int /\ q0[h] * h + g[d] \in Int
    <3>1. g[d] \in Int
      BY <2>1, PointNumber
    <3>2. \A h \in Points : q0[h] \in Int /\ h \in Int
      BY <2>3, PointNumber
    <3>3. \A x, y, z \in Int : x * y + z \in Int
      OBVIOUS
    <3> QED BY <3>1, <3>2, <3>3
  <2>5. q \in Maps /\ \A h \in Points : q[h] = q0[h] * h + g[d]
    BY <2>4 DEF Maps
  <2> HIDE DEF q
  <2>6. Above(q, q0, g[d])
    <3> SUFFICES ASSUME NEW h \in Points PROVE Cong(q[h], q0[h] * h + g[d], SharePrime)
      BY DEF Above
    <3>1. q[h] = q0[h] * h + g[d] /\ q[h] \in Int
      BY <2>4, <2>5
    <3> QED BY <1>0, <3>1, CongRefl
  <2>7. Polynomial(q, n + 1)
    BY <2>3, <2>4, <2>5, <2>6, PolynomialSteps
  <2>8. Factor(f1, q)
    <3> SUFFICES ASSUME NEW h \in Points PROVE Cong(f1[h], f1[d] + (h - d) * q[h], SharePrime)
      OBVIOUS
    <3> DEFINE x == f1[h]
               e == f1[d]
               y == g[h]
               r == g[d]
               s == q0[h]
    <3>1. /\ x \in Int /\ e \in Int /\ y \in Int /\ r \in Int /\ s \in Int /\ h \in Int
          /\ q[h] = s * h + r
      BY <1>0, <2>1, <2>2, <2>3, <2>5, PointNumber
    <3>2. /\ Cong(x, y * h + a, SharePrime) /\ Cong(e, r * d + a, SharePrime)
          /\ Cong(y, r + (h - d) * s, SharePrime)
      BY <2>1, <2>3 DEF Above
    <3> HIDE DEF x, e, y, r, s, Factor
    <3>3. Cong(x, e + (h - d) * (s * h + r), SharePrime)
      BY <1>0, <2>1, <3>1, <3>2, DivideStep
    <3> QED BY <3>1, <3>3 DEF x, e
  <2> HIDE DEF Factor
  <2> QED BY <2>5, <2>7, <2>8
<1> HIDE DEF Divides
<1>3. 0 \in P /\ \A n \in Nat : n \in P => n + 1 \in P
  BY <1>1, <1>2
<1>4. \A n \in Nat : n \in P
  <2> HIDE DEF P
  <2> QED BY <1>3, NatSets
<1>5. Divides(k)
  BY <1>4
<1> QED BY <1>5 DEF Divides

\* A coefficient more at the high end.
Power(h, k) == PowMod(h, k, SharePrime)

\* The powers of a point, one factor at a time.
LEMMA PowerOfPoint ==
  ASSUME NEW h \in Points, NEW k \in Nat
  PROVE  /\ Power(h, 0) = 1 /\ Power(h, k) \in 0..(SharePrime - 1) /\ Power(h, k) \in Int
         /\ Power(h, k + 1) = (Power(h, k) * h) % SharePrime
         /\ Cong(Power(h, k + 1), Power(h, k) * h, SharePrime)
<1>1. h \in Int /\ SharePrime \in Nat /\ SharePrime > 1 /\ SharePrime > 0
  BY PointNumber, PrimeFacts
<1>2. /\ Power(h, 0) = 1 /\ Power(h, k) \in 0..(SharePrime - 1)
      /\ Power(h, k + 1) = (Power(h, k) * h) % SharePrime
  BY <1>1, PowerNext DEF Power
<1> DEFINE x == Power(h, k)
<1>3. x \in Int
  BY <1>1, <1>2
<1> HIDE DEF x
<1>4. x * h \in Int
  BY <1>1, <1>3
<1>5. Cong((x * h) % SharePrime, x * h, SharePrime)
  BY <1>1, <1>4, ModRange
<1> QED BY <1>2, <1>3, <1>5 DEF x

\* One more factor of the point, with a term added at the top.
LEMMA RaiseStep ==
  ASSUME NEW p \in Nat, NEW h \in Int, NEW e \in Int, NEW f \in Int, NEW g \in Int,
         NEW a \in Int, NEW b \in Int, NEW x \in Int, NEW y \in Int,
         Cong(e, f + a * y, p), Cong(f, g * h + b, p), Cong(y, x * h, p)
  PROVE  Cong(e, (g + a * x) * h + b, p)
<1>1. PICK i \in Int : e = (f + a * y) + i * p
  BY DEF Cong
<1>2. PICK j \in Int : f = (g * h + b) + j * p
  BY DEF Cong
<1>3. PICK k \in Int : y = x * h + k * p
  BY DEF Cong
<1>4. e = ((g + a * x) * h + b) + (i + j + a * k) * p
  BY <1>1, <1>2, <1>3
<1>5. i + j + a * k \in Int
  OBVIOUS
<1> QED BY <1>4, <1>5 DEF Cong

\* One more factor of the point, with a term taken off the top.
LEMMA LowerStep ==
  ASSUME NEW p \in Nat, NEW h \in Int, NEW e \in Int, NEW g \in Int, NEW r \in Int,
         NEW a \in Int, NEW b \in Int, NEW x \in Int, NEW y \in Int,
         Cong(e, g * h + b, p), Cong(g, r + a * x, p), Cong(y, x * h, p)
  PROVE  Cong(e, (r * h + b) + a * y, p)
<1>1. PICK i \in Int : e = (g * h + b) + i * p
  BY DEF Cong
<1>2. PICK j \in Int : g = (r + a * x) + j * p
  BY DEF Cong
<1>3. PICK k \in Int : y = x * h + k * p
  BY DEF Cong
<1>4. e = ((r * h + b) + a * y) + (i + j * h - a * k) * p
  BY <1>1, <1>2, <1>3
<1>5. i + j * h - a * k \in Int
  OBVIOUS
<1> QED BY <1>4, <1>5 DEF Cong

\* A term added at the top of a polynomial.
LEMMA PolynomialRaise ==
  ASSUME NEW k \in Nat, NEW f, Polynomial(f, k), NEW a \in Int, NEW e \in Maps,
         \A h \in Points : Cong(e[h], f[h] + a * Power(h, k), SharePrime)
  PROVE  Polynomial(e, k + 1)
<1> DEFINE Tops(u, v, n) == \A h \in Points : Cong(u[h], v[h] + a * Power(h, n), SharePrime)
           Raises(n) == \A u, v : u \in Maps /\ Polynomial(v, n) /\ Tops(u, v, n)
                                  => Polynomial(u, n + 1)
           P == {n \in Nat : Raises(n)}
<1>0. SharePrime \in Nat /\ 0 \in Nat /\ 0 \in Int /\ \A h \in Points : h \in Int
  BY PointNumber, PrimeFacts
<1>1. Raises(0)
  <2> SUFFICES ASSUME NEW u, NEW v, u \in Maps, Polynomial(v, 0), Tops(u, v, 0)
               PROVE  Polynomial(u, 0 + 1)
    OBVIOUS
  <2>1. v \in Maps /\ \A h \in Points : Cong(v[h], 0, SharePrime)
    BY <1>0, PolynomialSteps
  <2>2. Above(u, v, a)
    <3> SUFFICES ASSUME NEW h \in Points PROVE Cong(u[h], v[h] * h + a, SharePrime)
      BY DEF Above
    <3> DEFINE x == u[h]
               y == v[h]
    <3>1. x \in Int /\ y \in Int /\ h \in Int /\ Cong(y, 0, SharePrime) /\ Power(h, 0) = 1
      BY <1>0, <2>1, PointNumber, PowerOfPoint
    <3>2. Cong(x, y + a * 1, SharePrime)
      BY <3>1
    <3> HIDE DEF x, y, Tops, Raises
    <3>3. PICK i \in Int : y = 0 + i * SharePrime
      BY <3>1 DEF Cong
    <3>4. PICK j \in Int : x = (y + a * 1) + j * SharePrime
      BY <3>2 DEF Cong
    <3>5. x = (y * h + a) + (i + j - i * h) * SharePrime /\ i + j - i * h \in Int
      BY <1>0, <3>1, <3>3, <3>4
    <3> QED BY <3>5 DEF Cong, x, y
  <2> QED BY <1>0, <2>1, <2>2, PolynomialSteps
<1>2. \A n \in Nat : Raises(n) => Raises(n + 1)
  <2> SUFFICES ASSUME NEW n \in Nat, Raises(n), NEW u, NEW v, u \in Maps,
                      Polynomial(v, n + 1), Tops(u, v, n + 1)
               PROVE  Polynomial(u, (n + 1) + 1)
    OBVIOUS
  <2>0. n + 1 \in Nat
    OBVIOUS
  <2>1. PICK g \in Maps, b \in Int : Polynomial(g, n) /\ Above(v, g, b)
    BY PolynomialSteps
  <2> DEFINE r == [h \in Points |-> g[h] + a * Power(h, n)]
  <2>2. \A h \in Points : g[h] + a * Power(h, n) \in Int /\ g[h] \in Int /\ Power(h, n) \in Int
    <3>1. \A h \in Points : g[h] \in Int /\ Power(h, n) \in Int
      BY <2>1, PointNumber, PowerOfPoint
    <3>2. \A x, y \in Int : x + a * y \in Int
      OBVIOUS
    <3> QED BY <3>1, <3>2
  <2>3. r \in Maps /\ \A h \in Points : r[h] = g[h] + a * Power(h, n)
    BY <2>2 DEF Maps
  <2> HIDE DEF r
  <2>4. Tops(r, g, n)
    <3> SUFFICES ASSUME NEW h \in Points PROVE Cong(r[h], g[h] + a * Power(h, n), SharePrime)
      OBVIOUS
    <3>1. r[h] = g[h] + a * Power(h, n) /\ r[h] \in Int
      BY <2>2, <2>3
    <3> QED BY <1>0, <3>1, CongRefl
  <2>5. Above(u, r, b)
    <3> SUFFICES ASSUME NEW h \in Points PROVE Cong(u[h], r[h] * h + b, SharePrime)
      BY DEF Above
    <3> DEFINE w == u[h]
               z == v[h]
               g0 == g[h]
               x == Power(h, n)
               y == Power(h, n + 1)
    <3>1. /\ w \in Int /\ z \in Int /\ g0 \in Int /\ x \in Int /\ y \in Int /\ h \in Int
          /\ r[h] = g0 + a * x
      <4>1. v \in Maps
        BY <2>0, PolynomialSteps
      <4>2. w \in Int /\ z \in Int /\ g0 \in Int /\ h \in Int
        BY <1>0, <2>1, <4>1, PointNumber
      <4>3. x \in Int /\ y \in Int
        BY <2>0, PowerOfPoint
      <4> QED BY <2>3, <4>2, <4>3
    <3>2. Cong(w, z + a * y, SharePrime) /\ Cong(z, g0 * h + b, SharePrime) /\ Cong(y, x * h, SharePrime)
      BY <2>1, PowerOfPoint DEF Above
    <3> HIDE DEF w, z, g0, x, y, Tops, Raises
    <3>3. Cong(w, (g0 + a * x) * h + b, SharePrime)
      BY <1>0, <2>1, <3>1, <3>2, RaiseStep
    <3> QED BY <3>1, <3>3 DEF w
  <2> HIDE DEF Tops
  <2>6. Polynomial(r, n + 1)
    BY <2>1, <2>3, <2>4
  <2> QED BY <2>0, <2>1, <2>3, <2>5, <2>6, PolynomialSteps
<1> HIDE DEF Raises
<1>3. 0 \in P /\ \A n \in Nat : n \in P => n + 1 \in P
  BY <1>1, <1>2
<1>4. \A n \in Nat : n \in P
  <2> HIDE DEF P
  <2> QED BY <1>3, NatSets
<1>5. Raises(k)
  BY <1>4
<1>6. Tops(e, f, k)
  OBVIOUS
<1> HIDE DEF Tops
<1> QED BY <1>5, <1>6 DEF Raises

\* The top term taken off a polynomial.
LEMMA PolynomialLower ==
  ASSUME NEW k \in Nat, NEW e, Polynomial(e, k + 1)
  PROVE  \E f \in Maps, a \in Int :
           /\ Polynomial(f, k)
           /\ \A h \in Points : Cong(e[h], f[h] + a * Power(h, k), SharePrime)
<1> DEFINE Tops(u, v, a, n) == \A h \in Points : Cong(u[h], v[h] + a * Power(h, n), SharePrime)
           Lowers(n) == \A u : Polynomial(u, n + 1) =>
                          \E v \in Maps, a \in Int : Polynomial(v, n) /\ Tops(u, v, a, n)
           P == {n \in Nat : Lowers(n)}
<1>0. SharePrime \in Nat /\ 0 \in Nat /\ 0 \in Int /\ \A h \in Points : h \in Int
  BY PointNumber, PrimeFacts
<1>1. Lowers(0)
  <2> SUFFICES ASSUME NEW u, Polynomial(u, 0 + 1)
               PROVE  \E v \in Maps, a \in Int : Polynomial(v, 0) /\ Tops(u, v, a, 0)
    OBVIOUS
  <2>1. PICK v \in Maps, a \in Int : Polynomial(v, 0) /\ Above(u, v, a)
    BY <1>0, PolynomialSteps
  <2>2. u \in Maps /\ \A h \in Points : Cong(v[h], 0, SharePrime)
    BY <1>0, <2>1, PolynomialSteps
  <2>3. Tops(u, v, a, 0)
    <3> SUFFICES ASSUME NEW h \in Points PROVE Cong(u[h], v[h] + a * Power(h, 0), SharePrime)
      OBVIOUS
    <3> DEFINE x == u[h]
               y == v[h]
    <3>1. /\ x \in Int /\ y \in Int /\ h \in Int /\ Cong(y, 0, SharePrime) /\ Power(h, 0) = 1
          /\ Cong(x, y * h + a, SharePrime) /\ a \in Int
      BY <1>0, <2>1, <2>2, PointNumber, PowerOfPoint DEF Above
    <3> HIDE DEF x, y, Lowers
    <3>2. PICK i \in Int : y = 0 + i * SharePrime
      BY <3>1 DEF Cong
    <3>3. PICK j \in Int : x = (y * h + a) + j * SharePrime
      BY <3>1 DEF Cong
    <3>4. x = (y + a * 1) + (i * h + j - i) * SharePrime /\ i * h + j - i \in Int
      BY <1>0, <3>1, <3>2, <3>3
    <3>5. Cong(x, y + a * 1, SharePrime)
      BY <3>4 DEF Cong
    <3> QED BY <3>1, <3>5 DEF x, y
  <2> HIDE DEF Tops
  <2> QED BY <2>1, <2>3
<1>2. \A n \in Nat : Lowers(n) => Lowers(n + 1)
  <2> SUFFICES ASSUME NEW n \in Nat, Lowers(n), NEW u, Polynomial(u, (n + 1) + 1)
               PROVE  \E v \in Maps, a \in Int : Polynomial(v, n + 1) /\ Tops(u, v, a, n + 1)
    OBVIOUS
  <2>0. n + 1 \in Nat
    OBVIOUS
  <2>1. PICK g \in Maps, b \in Int : Polynomial(g, n + 1) /\ Above(u, g, b)
    BY <2>0, PolynomialSteps
  <2>2. u \in Maps
    BY <2>0, PolynomialSteps
  <2>3. PICK r \in Maps, a \in Int : Polynomial(r, n) /\ Tops(g, r, a, n)
    BY <2>1
  <2> DEFINE v == [h \in Points |-> r[h] * h + b]
  <2>4. \A h \in Points : r[h] * h + b \in Int /\ r[h] \in Int
    <3>1. \A h \in Points : r[h] \in Int /\ h \in Int
      BY <1>0, <2>3, PointNumber
    <3>2. \A x, y, z \in Int : x * y + z \in Int
      OBVIOUS
    <3> QED BY <2>1, <3>1, <3>2
  <2>5. v \in Maps /\ \A h \in Points : v[h] = r[h] * h + b
    BY <2>4 DEF Maps
  <2> HIDE DEF v
  <2>6. Above(v, r, b)
    <3> SUFFICES ASSUME NEW h \in Points PROVE Cong(v[h], r[h] * h + b, SharePrime)
      BY DEF Above
    <3>1. v[h] = r[h] * h + b /\ v[h] \in Int
      BY <2>4, <2>5
    <3> QED BY <1>0, <3>1, CongRefl
  <2>7. Polynomial(v, n + 1)
    BY <2>1, <2>3, <2>5, <2>6, PolynomialSteps
  <2>8. Tops(u, v, a, n + 1)
    <3> SUFFICES ASSUME NEW h \in Points
                 PROVE Cong(u[h], v[h] + a * Power(h, n + 1), SharePrime)
      OBVIOUS
    <3> DEFINE w == u[h]
               g0 == g[h]
               r0 == r[h]
               x == Power(h, n)
               y == Power(h, n + 1)
    <3>1. /\ w \in Int /\ g0 \in Int /\ r0 \in Int /\ x \in Int /\ y \in Int /\ h \in Int
          /\ v[h] = r0 * h + b /\ a \in Int /\ b \in Int
      BY <1>0, <2>0, <2>1, <2>2, <2>3, <2>5, PointNumber, PowerOfPoint
    <3>2. Cong(w, g0 * h + b, SharePrime) /\ Cong(g0, r0 + a * x, SharePrime) /\ Cong(y, x * h, SharePrime)
      BY <2>1, <2>3, PowerOfPoint DEF Above
    <3> HIDE DEF w, g0, r0, x, y, Tops, Lowers
    <3>3. Cong(w, (r0 * h + b) + a * y, SharePrime)
      BY <1>0, <3>1, <3>2, LowerStep
    <3> QED BY <3>1, <3>3 DEF w, y
  <2> HIDE DEF Tops
  <2> QED BY <2>3, <2>5, <2>7, <2>8
<1> HIDE DEF Lowers
<1>3. 0 \in P /\ \A n \in Nat : n \in P => n + 1 \in P
  BY <1>1, <1>2
<1>4. \A n \in Nat : n \in P
  <2> HIDE DEF P
  <2> QED BY <1>3, NatSets
<1>5. Lowers(k)
  BY <1>4
<1> QED BY <1>5 DEF Lowers

\* What split computes, coefficient by coefficient.
Accumulated == [y : Residues(SharePrime), xp : Residues(SharePrime)]
NextValue(acc, c, h) ==
  [y |-> (acc.y + c * acc.xp) % SharePrime, xp |-> (acc.xp * HolderPoint(h)) % SharePrime]

\* An evaluation runs along the coefficients, lowest first.
LEMMA EvaluatedSteps ==
  ASSUME NEW pt \in Points, NEW cs \in Seq(Residues(SharePrime))
  PROVE  \E h \in [0..Len(cs) -> Accumulated] :
           /\ h[0] = [y |-> 0, xp |-> 1]
           /\ \A n \in 1..Len(cs) : h[n] = NextValue(h[n - 1], cs[n], pt)
           /\ Evaluated(cs, pt) = h[Len(cs)]
<1> DEFINE op == [p \in (Accumulated) \X (Residues(SharePrime)) |-> NextValue(p[1], p[2], pt)]
           base == [y |-> 0, xp |-> 1]
           body(it) == [t \in SUBSET (1..Len(cs)) |->
                          IF t = {} THEN base
                          ELSE NextValue(it[t \ {Max(t)}], cs[Max(t)], pt)]
           iter == CHOOSE it : it = body(it)
<1>0. Len(cs) \in Nat /\ DOMAIN cs = 1..Len(cs) /\ cs \in Seq(Residues(SharePrime))
  BY LenProperties
<1>1. base \in Accumulated /\ op \in [(Accumulated) \X (Residues(SharePrime)) -> Accumulated]
  <2>1. base \in Accumulated
    BY PrimeFacts DEF Accumulated, Residues
  <2>2. ASSUME NEW x \in Accumulated, NEW y \in Residues(SharePrime) PROVE NextValue(x, y, pt) \in Accumulated
    <3> DEFINE a == x.y
               b == x.xp
               p == SharePrime
    <3>1. a \in 0..(p - 1) /\ b \in 0..(p - 1) /\ y \in 0..(p - 1)
      BY <2>2 DEF Accumulated, Residues
    <3>2. p \in Nat /\ p > 0 /\ pt \in Int
      BY PointNumber
    <3> HIDE DEF a, b, p
    <3>3. a \in Int /\ b \in Int /\ y \in Int
      BY <3>1, <3>2
    <3>4. a + y * b \in Int /\ b * pt \in Int
      BY <3>2, <3>3
    <3>5. (a + y * b) % p \in 0..(p - 1) /\ (b * pt) % p \in 0..(p - 1)
      BY <3>2, <3>4, ModRange
    <3>6. NextValue(x, y, pt) = [y |-> (a + y * b) % p, xp |-> (b * pt) % p]
      BY DEF NextValue, HolderPoint, a, b, p
    <3> QED BY <3>5, <3>6 DEF Accumulated, Residues, p
  <2> QED BY <2>1, <2>2
<1>2. \A x \in Accumulated, y \in Residues(SharePrime) : op[<<x, y>>] = NextValue(x, y, pt)
  OBVIOUS
<1> HIDE DEF op, base
<1>3. PICK g \in [SUBSET (1..Len(cs)) -> Accumulated] : FoldsTo(g, cs, base, op)
  BY <1>0, <1>1, FoldExists
<1>4. g = body(g)
  <2>1. \A t \in SUBSET (1..Len(cs)) :
          g[t] = IF t = {} THEN base ELSE NextValue(g[t \ {Max(t)}], cs[Max(t)], pt)
    BY <1>0, <1>2, <1>3, FoldPlaces DEF FoldsTo
  <2> QED BY <2>1
<1>5. iter = body(iter)
  BY <1>4
<1>6. Evaluated(cs, pt) = iter[1..Len(cs)]
  BY <1>0 DEF Evaluated, NextValue, FoldLeft, MapThenFoldSet, base
<1> HIDE DEF iter
<1>7. FoldsWithin(iter, cs, Accumulated, base, op)
  <2>1. \A t \in SUBSET (1..Len(cs)) :
          iter[t] = IF t = {} THEN base ELSE NextValue(iter[t \ {Max(t)}], cs[Max(t)], pt)
    BY <1>5
  <2> HIDE DEF body
  <2> QED BY <1>0, <1>2, <2>1, FoldPlaces DEF FoldsWithin
<1> HIDE DEF body
<1>8. FoldValue(iter[1..Len(cs)], cs, Accumulated, base, op)
  BY <1>0, <1>1, <1>7, FoldSteps
<1>9. PICK h \in [0..Len(cs) -> Accumulated] :
        /\ h[0] = base
        /\ \A n \in 1..Len(cs) : h[n] = op[<<h[n - 1], cs[n]>>]
        /\ Evaluated(cs, pt) = h[Len(cs)]
  BY <1>6, <1>8 DEF FoldValue
<1>10. \A n \in 1..Len(cs) : h[n] = NextValue(h[n - 1], cs[n], pt)
  <2> TAKE n \in 1..Len(cs)
  <2>0. n - 1 \in 0..Len(cs) /\ n \in 1..Len(cs)
    BY <1>0
  <2>1. h[n - 1] \in Accumulated
    BY <2>0
  <2>2. cs[n] \in Residues(SharePrime)
    BY <1>0, <2>0
  <2> QED BY <1>2, <1>9, <2>1, <2>2
<1> QED BY <1>9, <1>10 DEF base

\* A coefficient more.
LEMMA EvaluatedNext ==
  ASSUME NEW pt \in Points, NEW cs \in Seq(Residues(SharePrime)), NEW n \in Nat, Len(cs) = n + 1,
         NEW ds \in Seq(Residues(SharePrime)), Len(ds) = n, \A i \in 1..n : ds[i] = cs[i]
  PROVE  /\ Evaluated(ds, pt) \in Accumulated
         /\ Evaluated(cs, pt) = NextValue(Evaluated(ds, pt), cs[n + 1], pt)
<1>1. PICK g \in [0..Len(cs) -> Accumulated] :
        /\ g[0] = [y |-> 0, xp |-> 1]
        /\ \A i \in 1..Len(cs) : g[i] = NextValue(g[i - 1], cs[i], pt)
        /\ Evaluated(cs, pt) = g[Len(cs)]
  BY EvaluatedSteps
<1>2. PICK h \in [0..Len(ds) -> Accumulated] :
        /\ h[0] = [y |-> 0, xp |-> 1]
        /\ \A i \in 1..Len(ds) : h[i] = NextValue(h[i - 1], ds[i], pt)
        /\ Evaluated(ds, pt) = h[Len(ds)]
  BY EvaluatedSteps
<1> DEFINE Same(i) == i <= n => g[i] = h[i]
           P == {i \in Nat : Same(i)}
<1>3. Same(0)
  BY <1>1, <1>2
<1>4. \A i \in Nat : Same(i) => Same(i + 1)
  <2> SUFFICES ASSUME NEW i \in Nat, Same(i), i + 1 <= n PROVE g[i + 1] = h[i + 1]
    OBVIOUS
  <2>1. i + 1 \in 1..Len(cs) /\ i + 1 \in 1..Len(ds) /\ i + 1 \in 1..n /\ i + 1 - 1 = i /\ i <= n
    OBVIOUS
  <2>2. g[i + 1] = NextValue(g[i + 1 - 1], cs[i + 1], pt)
    BY <1>1, <2>1
  <2>3. h[i + 1] = NextValue(h[i + 1 - 1], ds[i + 1], pt)
    BY <1>2, <2>1
  <2>4. g[i + 1 - 1] = h[i + 1 - 1] /\ ds[i + 1] = cs[i + 1]
    BY <2>1
  <2> QED BY <2>2, <2>3, <2>4
<1> HIDE DEF Same
<1>5. 0 \in P /\ \A i \in Nat : i \in P => i + 1 \in P
  BY <1>3, <1>4
<1>6. \A i \in Nat : i \in P
  <2> HIDE DEF P
  <2> QED BY <1>5, NatSets
<1>7. g[n] = h[n]
  <2>1. Same(n)
    BY <1>6
  <2> QED BY <2>1 DEF Same
<1>8. g[n + 1] = NextValue(g[n], cs[n + 1], pt)
  <2>1. n + 1 \in 1..Len(cs) /\ n + 1 - 1 = n
    OBVIOUS
  <2>2. g[n + 1] = NextValue(g[n + 1 - 1], cs[n + 1], pt)
    BY <1>1, <2>1
  <2> QED BY <2>1, <2>2
<1>9. h[n] \in Accumulated
  <2>1. n \in 0..Len(ds)
    OBVIOUS
  <2> QED BY <2>1
<1> QED BY <1>1, <1>2, <1>7, <1>8, <1>9

\* An evaluation starts from 0 and the power 1.
LEMMA EvaluatedNone ==
  ASSUME NEW pt \in Points, NEW cs \in Seq(Residues(SharePrime)), Len(cs) = 0
  PROVE  Evaluated(cs, pt) = [y |-> 0, xp |-> 1]
BY EvaluatedSteps

\* All coefficients but the last.
LEMMA FrontOf ==
  ASSUME NEW S, NEW n \in Nat, NEW cs \in Seq(S), Len(cs) = n + 1
  PROVE  /\ cs[n + 1] \in S
         /\ \E ds \in Seq(S) : Len(ds) = n /\ \A i \in 1..n : ds[i] = cs[i]
<1> DEFINE ds == [i \in 1..n |-> cs[i]]
<1>1. n + 1 \in 1..Len(cs) /\ \A i \in 1..n : i \in 1..Len(cs)
  OBVIOUS
<1>2. cs[n + 1] \in S /\ \A i \in 1..n : cs[i] \in S
  BY <1>1, ElementOfSeq
<1>3. ds \in Seq(S) /\ Len(ds) = n
  BY <1>2, IsASeq, LenProperties
<1>4. \A i \in 1..n : ds[i] = cs[i]
  OBVIOUS
<1> HIDE DEF ds
<1> QED BY <1>2, <1>3, <1>4

\* The power of the point so far; and at 0, the lowest coefficient.
LEMMA EvaluatedPower ==
  ASSUME NEW pt \in Points, NEW cs \in Seq(Residues(SharePrime))
  PROVE  /\ Evaluated(cs, pt) \in Accumulated
         /\ Evaluated(cs, pt).xp = Power(pt, Len(cs))
         /\ Len(cs) >= 1 => Evaluated(cs, 0).y = cs[1]
<1> DEFINE R == Residues(SharePrime)
           Right(s) == /\ \A x \in Points : /\ Evaluated(s, x) \in Accumulated
                                            /\ Evaluated(s, x).xp = Power(x, Len(s))
                       /\ Len(s) >= 1 => Evaluated(s, 0).y = s[1]
           All(n) == \A s \in Seq(R) : Len(s) = n => Right(s)
           P == {n \in Nat : All(n)}
<1>0. /\ SharePrime \in Nat /\ SharePrime > 1 /\ 0 \in Points /\ \A x \in Points : x \in Int
      /\ \A c \in R : c \in Int /\ c % SharePrime = c /\ c + 0 * SharePrime = c
  <2>1. SharePrime \in Nat /\ SharePrime > 1 /\ 0 \in Points /\ \A x \in Points : x \in Int
    BY PrimeFacts DEF Points
  <2> QED BY <2>1 DEF Residues
<1>1. All(0)
  <2> SUFFICES ASSUME NEW s \in Seq(R), Len(s) = 0 PROVE Right(s)
    OBVIOUS
  <2>1. \A x \in Points : Evaluated(s, x) = [y |-> 0, xp |-> 1] /\ Power(x, 0) = 1
    BY EvaluatedNone, PowerOfPoint
  <2>2. [y |-> 0, xp |-> 1] \in Accumulated
    BY <1>0 DEF Accumulated, Residues
  <2> QED BY <2>1, <2>2
<1>2. \A n \in Nat : All(n) => All(n + 1)
  <2> SUFFICES ASSUME NEW n \in Nat, All(n), NEW s \in Seq(R), Len(s) = n + 1 PROVE Right(s)
    OBVIOUS
  <2>1. s[n + 1] \in R
    BY FrontOf
  <2>2. PICK t \in Seq(R) : Len(t) = n /\ \A i \in 1..n : t[i] = s[i]
    BY FrontOf
  <2>3. Right(t)
    BY <2>2
  <2>4. \A x \in Points : Evaluated(s, x) = NextValue(Evaluated(t, x), s[n + 1], x)
    BY <2>2, EvaluatedNext
  <2>5. ASSUME NEW x \in Points
        PROVE  /\ Evaluated(s, x) \in Accumulated
               /\ Evaluated(s, x).xp = Power(x, Len(s))
    <3> DEFINE a == Evaluated(t, x).y
               b == Evaluated(t, x).xp
               c == s[n + 1]
               p == SharePrime
    <3>1. a \in 0..(p - 1) /\ b \in 0..(p - 1) /\ c \in 0..(p - 1) /\ b = Power(x, n)
      BY <2>1, <2>2, <2>3, <2>5 DEF Accumulated, Residues
    <3>2. Evaluated(s, x) = [y |-> (a + c * b) % p, xp |-> (b * x) % p]
      BY <2>4, <2>5 DEF NextValue, HolderPoint
    <3>3. Power(x, n + 1) = (b * x) % p
      BY <2>5, <3>1, PowerOfPoint
    <3>4. p \in Nat /\ p > 0 /\ x \in Int
      BY <1>0, <2>5
    <3> HIDE DEF a, b, c, p, Right
    <3>5. a \in Int /\ b \in Int /\ c \in Int
      BY <3>1, <3>4
    <3>6. a + c * b \in Int /\ b * x \in Int
      BY <3>4, <3>5
    <3>7. (a + c * b) % p \in 0..(p - 1) /\ (b * x) % p \in 0..(p - 1)
      BY <3>4, <3>6, ModRange
    <3> QED BY <3>2, <3>3, <3>7 DEF Accumulated, Residues, p
  <2>6. Evaluated(s, 0).y = s[1]
    <3> DEFINE a == Evaluated(t, 0).y
               c == s[n + 1]
               p == SharePrime
    <3>0. c \in Int /\ c % p = c
      BY <1>0, <2>1
    <3>1. CASE n = 0
      <4>1. Evaluated(t, 0) = [y |-> 0, xp |-> 1] /\ c = s[1]
        <5>1. Len(t) = 0 /\ n + 1 = 1
          BY <2>2, <3>1
        <5>2. Evaluated(t, 0) = [y |-> 0, xp |-> 1]
          BY <1>0, <5>1, EvaluatedNone
        <5> QED BY <5>1, <5>2
      <4>2. Evaluated(s, 0).y = (0 + c * 1) % p
        BY <1>0, <2>4, <4>1 DEF NextValue
      <4> HIDE DEF c, p
      <4>3. 0 + c * 1 = c
        BY <3>0
      <4> QED BY <3>0, <4>1, <4>2, <4>3
    <3>2. CASE n # 0
      <4>1. n >= 1 /\ n - 1 \in Nat /\ (n - 1) + 1 = n /\ 1 \in 1..n
        BY <3>2
      <4>2. a = s[1] /\ Evaluated(t, 0).xp = Power(0, n)
        BY <1>0, <2>2, <2>3, <4>1
      <4>3. Power(0, n) = 0
        <5>1. Power(0, (n - 1) + 1) = (Power(0, n - 1) * 0) % p /\ Power(0, n - 1) \in Int
          BY <1>0, <4>1, PowerOfPoint
        <5> DEFINE x == Power(0, n - 1)
        <5>2. x \in Int /\ Power(0, n) = (x * 0) % p
          BY <4>1, <5>1
        <5> HIDE DEF x
        <5>3. x * 0 = 0 /\ 0 % SharePrime = 0
          BY <1>0, <5>2
        <5> QED BY <5>2, <5>3
      <4>4. Evaluated(s, 0).y = (a + c * 0) % p
        <5> DEFINE v == Evaluated(t, 0)
        <5>1. Evaluated(s, 0) = NextValue(v, c, 0)
          BY <1>0, <2>4
        <5>2. v.y = a /\ v.xp = 0
          BY <4>2, <4>3
        <5> HIDE DEF v, a, c
        <5>3. Evaluated(s, 0).y = (v.y + c * v.xp) % p
          BY <5>1 DEF NextValue
        <5> QED BY <5>2, <5>3
      <4>5. a \in R
        <5>1. 1 \in 1..Len(s)
          BY <4>1
        <5> QED BY <4>2, <5>1, ElementOfSeq
      <4>6. a \in Int /\ a % p = a
        BY <1>0, <4>5
      <4> HIDE DEF a, c, p
      <4>7. a + c * 0 = a
        BY <3>0, <4>6
      <4> QED BY <4>2, <4>4, <4>6, <4>7
    <3> QED BY <3>1, <3>2
  <2> QED BY <2>5, <2>6
<1> HIDE DEF All
<1>3. 0 \in P /\ \A n \in Nat : n \in P => n + 1 \in P
  BY <1>1, <1>2
<1>4. \A n \in Nat : n \in P
  <2> HIDE DEF P
  <2> QED BY <1>3, NatSets
<1>5. Len(cs) \in Nat
  BY LenProperties
<1>6. All(Len(cs))
  BY <1>4, <1>5
<1>7. Right(cs)
  BY <1>6 DEF All
<1> QED BY <1>7

\* So shares lie on a polynomial, with the secret at 0,
LEMMA EvaluatedPolynomial ==
  ASSUME NEW cs \in Seq(Residues(SharePrime))
  PROVE  Polynomial([h \in Points |-> Evaluated(cs, h).y], Len(cs))
<1> DEFINE R == Residues(SharePrime)
           Map(s) == [h \in Points |-> Evaluated(s, h).y]
           All(n) == \A s \in Seq(R) : Len(s) = n => Polynomial(Map(s), n)
           P == {n \in Nat : All(n)}
<1>0. SharePrime \in Nat /\ SharePrime > 0 /\ 0 \in Int
  BY PrimeFacts
<1>1. ASSUME NEW s \in Seq(R)
      PROVE  /\ Map(s) \in Maps /\ \A h \in Points : Map(s)[h] = Evaluated(s, h).y
             /\ \A h \in Points : Evaluated(s, h).y \in Int
  <2>1. \A h \in Points : Evaluated(s, h).y \in Residues(SharePrime)
    BY <1>1, EvaluatedPower DEF Accumulated
  <2>2. \A x \in Residues(SharePrime) : x \in Int
    BY <1>0 DEF Residues
  <2> QED BY <2>1, <2>2 DEF Maps
<1>2. All(0)
  <2> SUFFICES ASSUME NEW s \in Seq(R), Len(s) = 0 PROVE Polynomial(Map(s), 0)
    OBVIOUS
  <2>1. \A h \in Points : Map(s)[h] = 0
    <3> TAKE h \in Points
    <3>1. Evaluated(s, h) = [y |-> 0, xp |-> 1]
      BY EvaluatedNone
    <3> QED BY <3>1
  <2>2. Map(s) \in Maps
    BY <1>1
  <2> HIDE DEF Map
  <2>3. \A h \in Points : Cong(Map(s)[h], 0, SharePrime)
    BY <1>0, <2>1, CongRefl
  <2>4. 0 \in Nat
    OBVIOUS
  <2> QED BY <2>2, <2>3, <2>4, PolynomialSteps
<1>3. \A n \in Nat : All(n) => All(n + 1)
  <2> SUFFICES ASSUME NEW n \in Nat, All(n), NEW s \in Seq(R), Len(s) = n + 1
               PROVE  Polynomial(Map(s), n + 1)
    OBVIOUS
  <2>1. s[n + 1] \in R /\ s[n + 1] \in Int
    <3>1. s[n + 1] \in R
      BY FrontOf
    <3> QED BY <1>0, <3>1 DEF Residues
  <2>2. PICK t \in Seq(R) : Len(t) = n /\ \A i \in 1..n : t[i] = s[i]
    BY FrontOf
  <2>3. Polynomial(Map(t), n)
    BY <2>2
  <2> DEFINE c == s[n + 1]
  <2>4. \A h \in Points : Cong(Map(s)[h], Map(t)[h] + c * Power(h, n), SharePrime)
    <3> TAKE h \in Points
    <3> DEFINE a == Evaluated(t, h).y
               b == Power(h, n)
               z == Evaluated(s, h).y
    <3>1. /\ Evaluated(s, h) = NextValue(Evaluated(t, h), c, h)
          /\ Evaluated(t, h).xp = b /\ a \in Int /\ z \in Int /\ b \in Int /\ c \in Int
          /\ Map(s)[h] = z /\ Map(t)[h] = a
      <4>1. Evaluated(s, h) = NextValue(Evaluated(t, h), c, h)
        BY <2>2, EvaluatedNext
      <4>2. Evaluated(t, h).xp = b
        BY <2>2, EvaluatedPower
      <4>3. a \in Int /\ z \in Int
        BY <1>1, <2>2
      <4>4. b \in Int
        BY PowerOfPoint
      <4> QED BY <2>1, <4>1, <4>2, <4>3, <4>4
    <3>2. z = (a + c * b) % SharePrime
      BY <3>1 DEF NextValue
    <3> HIDE DEF a, b, z, c, Map
    <3>3. a + c * b \in Int
      BY <3>1
    <3>4. Cong(z, a + c * b, SharePrime)
      BY <1>0, <3>2, <3>3, ModRange
    <3> QED BY <3>1, <3>4 DEF b
  <2>5. Map(s) \in Maps
    BY <1>1
  <2> HIDE DEF Map, All, c
  <2>6. c \in Int
    BY <2>1 DEF c
  <2> QED BY <2>3, <2>4, <2>5, <2>6, PolynomialRaise
<1> HIDE DEF All
<1>4. 0 \in P /\ \A n \in Nat : n \in P => n + 1 \in P
  BY <1>2, <1>3
<1>5. \A n \in Nat : n \in P
  <2> HIDE DEF P
  <2> QED BY <1>4, NatSets
<1>6. Len(cs) \in Nat
  BY LenProperties
<1>7. All(Len(cs))
  BY <1>5, <1>6
<1> QED BY <1>7 DEF All

\* and every polynomial is what some coefficients give.
LEMMA EvaluatedFinds ==
  ASSUME NEW k \in Nat, NEW f, Polynomial(f, k)
  PROVE  \E cs \in Seq(Residues(SharePrime)) :
           Len(cs) = k /\ \A h \in Points : Cong(Evaluated(cs, h).y, f[h], SharePrime)
<1> DEFINE R == Residues(SharePrime)
           Gives(s, g) == \A h \in Points : Cong(Evaluated(s, h).y, g[h], SharePrime)
           All(n) == \A g : Polynomial(g, n) => \E s \in Seq(R) : Len(s) = n /\ Gives(s, g)
           P == {n \in Nat : All(n)}
<1>0. SharePrime \in Nat /\ SharePrime > 0 /\ 0 \in Int /\ 0 \in Nat
  BY PrimeFacts
<1>1. ASSUME NEW s \in Seq(R), NEW h \in Points
      PROVE  Evaluated(s, h).y \in Int
  <2>1. Evaluated(s, h).y \in Residues(SharePrime)
    BY <1>1, EvaluatedPower DEF Accumulated
  <2> QED BY <1>0, <2>1 DEF Residues
<1>2. All(0)
  <2> SUFFICES ASSUME NEW g, Polynomial(g, 0)
               PROVE  \E s \in Seq(R) : Len(s) = 0 /\ Gives(s, g)
    OBVIOUS
  <2>1. <<>> \in Seq(R) /\ Len(<<>>) = 0
    BY EmptySeq
  <2>2. g \in Maps /\ \A h \in Points : Cong(g[h], 0, SharePrime)
    BY <1>0, PolynomialSteps
  <2>3. \A h \in Points : Cong(Evaluated(<<>>, h).y, g[h], SharePrime)
    <3> TAKE h \in Points
    <3>1. Evaluated(<<>>, h) = [y |-> 0, xp |-> 1]
      BY <2>1, EvaluatedNone
    <3>2. g[h] \in Int /\ Cong(g[h], 0, SharePrime)
      BY <2>2, PointNumber
    <3>3. Cong(0, g[h], SharePrime)
      BY <1>0, <3>2, CongSym
    <3> QED BY <3>1, <3>3
  <2> QED BY <2>1, <2>3
<1>3. \A n \in Nat : All(n) => All(n + 1)
  <2> SUFFICES ASSUME NEW n \in Nat, All(n), NEW g, Polynomial(g, n + 1)
               PROVE  \E s \in Seq(R) : Len(s) = n + 1 /\ Gives(s, g)
    OBVIOUS
  <2>1. PICK r \in Maps, a \in Int :
          Polynomial(r, n) /\ \A h \in Points : Cong(g[h], r[h] + a * Power(h, n), SharePrime)
    BY PolynomialLower
  <2>2. PICK t \in Seq(R) : Len(t) = n /\ Gives(t, r)
    BY <2>1
  <2> DEFINE c == a % SharePrime
             s == Append(t, c)
  <2>3. c \in R /\ c \in Int /\ Cong(c, a, SharePrime)
    <3>1. c \in 0..(SharePrime - 1) /\ Cong(c, a, SharePrime)
      BY <1>0, <2>1, ModRange
    <3> HIDE DEF c
    <3> QED BY <1>0, <3>1 DEF Residues
  <2> HIDE DEF c
  <2>4. s \in Seq(R) /\ Len(s) = n + 1 /\ (\A i \in 1..n : t[i] = s[i]) /\ s[n + 1] = c
    <3> HIDE DEF R
    <3> QED BY <2>2, <2>3, AppendProperties
  <2> HIDE DEF s
  <2>5. Gives(s, g)
    <3> SUFFICES ASSUME NEW h \in Points PROVE Cong(Evaluated(s, h).y, g[h], SharePrime)
      OBVIOUS
    <3> DEFINE x == Evaluated(t, h).y
               b == Power(h, n)
               z == Evaluated(s, h).y
               r0 == r[h]
               g0 == g[h]
    <3>1. /\ x \in Int /\ z \in Int /\ b \in Int /\ r0 \in Int /\ g0 \in Int
      <4>1. g \in Maps
        BY PolynomialSteps
      <4> QED BY <1>1, <2>1, <2>2, <2>4, <4>1, PointNumber, PowerOfPoint
    <3>2. Evaluated(s, h) = NextValue(Evaluated(t, h), c, h)
      BY <2>2, <2>4, EvaluatedNext
    <3>3. Evaluated(t, h).xp = b
      BY <2>2, EvaluatedPower
    <3>4. z = (x + c * b) % SharePrime
      BY <3>2, <3>3 DEF NextValue
    <3>5. Cong(x, r0, SharePrime) /\ Cong(g0, r0 + a * b, SharePrime)
      BY <2>1, <2>2
    <3> HIDE DEF x, b, z, r0, g0, Gives, All
    <3>6. x + c * b \in Int
      BY <2>3, <3>1
    <3>7. Cong(z, x + c * b, SharePrime)
      BY <1>0, <3>4, <3>6, ModRange
    <3>8. PICK i \in Int : z = (x + c * b) + i * SharePrime
      BY <3>7 DEF Cong
    <3>9. PICK j \in Int : x = r0 + j * SharePrime
      BY <3>5 DEF Cong
    <3>10. PICK m \in Int : c = a + m * SharePrime
      BY <2>3 DEF Cong
    <3>11. PICK q \in Int : g0 = (r0 + a * b) + q * SharePrime
      BY <3>5 DEF Cong
    <3>12. z = g0 + (i + j + m * b - q) * SharePrime
      BY <1>0, <2>1, <3>1, <3>8, <3>9, <3>10, <3>11
    <3>13. i + j + m * b - q \in Int
      BY <3>1
    <3>14. Cong(z, g0, SharePrime)
      BY <3>12, <3>13 DEF Cong
    <3> QED BY <3>14 DEF z, g0
  <2> HIDE DEF Gives
  <2> QED BY <2>4, <2>5
<1> HIDE DEF All
<1>4. 0 \in P /\ \A n \in Nat : n \in P => n + 1 \in P
  BY <1>2, <1>3
<1>5. \A n \in Nat : n \in P
  <2> HIDE DEF P
  <2> QED BY <1>4, NatSets
<1>6. All(k)
  BY <1>5
<1> QED BY <1>6 DEF All

\* The shares of a secret lie on a polynomial with as many coefficients as the threshold.
LEMMA SharesLie ==
  ASSUME NEW secret \in 0..(SharePrime - 1), NEW coeffs \in Coefficients
  PROVE  \E f \in Maps : /\ Polynomial(f, Threshold) /\ f[0] = secret
                        /\ \A h \in 1..Shares :
                             f[h] = ShareOf(secret, coeffs, h) /\ f[h] \in 0..(SharePrime - 1)
<1> DEFINE R == Residues(SharePrime)
           n == Threshold - 1
           cs == <<secret>> \o coeffs
           f == [h \in Points |-> Evaluated(cs, h).y]
<1>0. /\ Threshold \in Nat /\ n \in Nat /\ n >= 1 /\ Threshold = 1 + n /\ 0 \in Points
      /\ \A h \in 1..Shares : h \in Points
  BY PrimeFacts DEF Points
<1>1. secret \in R /\ coeffs \in [1..n -> R]
  BY DEF Residues, Coefficients
<1> HIDE DEF R, n
<1>2. <<secret>> \in Seq(R) /\ Len(<<secret>>) = 1 /\ <<secret>>[1] = secret
  BY <1>1
<1>3. coeffs \in Seq(R) /\ Len(coeffs) = n
  BY <1>0, <1>1
<1>4. cs \in Seq(R) /\ Len(cs) = 1 + n /\ cs[1] = secret
  <2>1. /\ cs \in Seq(R) /\ Len(cs) = 1 + n
        /\ \A i \in 1..(1 + n) : cs[i] = IF i <= 1 THEN <<secret>>[i] ELSE coeffs[i - 1]
    BY <1>2, <1>3, ConcatProperties
  <2>2. 1 \in 1..(1 + n) /\ 1 <= 1
    BY <1>0
  <2> QED BY <1>2, <2>1, <2>2
<1> HIDE DEF cs
<1>5. Polynomial(f, Threshold)
  <2>1. Polynomial(f, Len(cs))
    BY <1>4, EvaluatedPolynomial DEF R
  <2> QED BY <1>0, <1>4, <2>1
<1>6. f \in Maps
  BY <1>0, <1>5, PolynomialSteps
<1>7. f[0] = secret
  <2>1. f[0] = Evaluated(cs, 0).y
    BY <1>0
  <2>2. 1 + n >= 1
    BY <1>0
  <2>3. Evaluated(cs, 0).y = cs[1]
    BY <1>0, <1>4, <2>2, EvaluatedPower DEF R
  <2> QED BY <1>4, <2>1, <2>3
<1>8. ASSUME NEW h \in 1..Shares
      PROVE  f[h] = ShareOf(secret, coeffs, h) /\ f[h] \in 0..(SharePrime - 1)
  <2>1. h \in Points
    BY <1>0
  <2>2. Evaluated(cs, h) \in Accumulated
    BY <1>4, <2>1, EvaluatedPower DEF R
  <2>3. Evaluated(cs, h).y \in 0..(SharePrime - 1)
    BY <2>2 DEF Accumulated, Residues
  <2> QED BY <2>1, <2>3 DEF ShareOf, cs
<1> QED BY <1>5, <1>6, <1>7, <1>8

\* A number encoded is within half a quantum of a tenth of it, and decoded again
\* wherever the field is wide enough.
LEMMA Quantised ==
  ASSUME NEW x \in Int
  PROVE  Quantise(x) \in Int /\ -5 <= 10 * Quantise(x) - x /\ 10 * Quantise(x) - x <= 5
BY DEF Quantise

\* encode: a residue of the quantised value.
LEMMA Encoded ==
  ASSUME NEW x \in Int, NEW q \in Nat, q > 0
  PROVE  Encode(x, q) \in 0..(q - 1) /\ Cong(Encode(x, q), Quantise(x), q)
BY Quantised, ModRange DEF Encode

\* decode: the number back, when it is less than half the modulus.
LEMMA Decoded ==
  ASSUME NEW e \in Int, NEW q \in Nat, q > 0, NEW k \in Int, Cong(e, k, q), 2 * k < q, -(2 * k) < q
  PROVE  Decode(e, q) = k
<1> DEFINE r == e % q
<1>1. r \in 0..(q - 1) /\ Cong(r, e, q)
  BY ModRange
<1> HIDE DEF r
<1>2. Cong(r, k, q)
  BY <1>1, CongTrans
<1>3. CASE k >= 0
  <2>1. k \in 0..(q - 1)
    BY <1>3
  <2>2. r = k
    BY <1>1, <1>2, <2>1, CongSame
  <2>3. ~(k > q \div 2)
    BY <1>3
  <2> QED BY <2>2, <2>3 DEF Decode, r
<1>4. CASE k < 0
  <2>1. k + q \in 0..(q - 1) /\ k + q \in Int
    BY <1>4
  <2>2. Cong(k, k + q, q)
    <3>1. k = (k + q) + (-1) * q
      OBVIOUS
    <3> QED BY <3>1 DEF Cong
  <2>3. Cong(r, k + q, q)
    BY <1>1, <1>2, <2>1, <2>2, CongTrans
  <2>4. r = k + q
    BY <1>1, <2>1, <2>3, CongSame
  <2>5. k + q > q \div 2
    BY <1>4
  <2>6. (k + q) - q = k
    OBVIOUS
  <2> QED BY <2>4, <2>5, <2>6 DEF Decode, r
<1> QED BY <1>3, <1>4

\* What clients may release, and what it is as numbers of the field.
Releases == UpdateValues \cup {L2Clip(y) + noise : y \in UpdateValues, noise \in NoiseValues}
EncodedBy(q) == [i \in 1..Len(released) |-> Encode(released[i], q)]

AgTyped ==
  /\ scheme \in {"two_server", "shamir"}
  /\ released \in Seq(Releases) /\ Len(released) <= MaxContributions
  /\ contribs \in Seq(ClientShares) /\ drift \in 0..(FieldQ - 1)
  /\ summed \in [1..Shares -> 0..(SharePrime - 1)]

\* The servers hold the clients' encoded sum but for the drift, and each commitment
\* is to what its client encoded.
ServersHold ==
  scheme = "two_server" =>
    /\ Len(contribs) = Len(released)
    /\ \A i \in 1..Len(contribs) : contribs[i].commitment = Pw(Encode(released[i], FieldQ))
    /\ Cong(TotalOf(SidesOf("a")) + TotalOf(SidesOf("b")),
            TotalOf(EncodedBy(FieldQ)) + drift, FieldQ)

\* The holders' sums lie on a polynomial with as many coefficients as the threshold,
\* whose value at 0 is the clients' encoded sum.
HoldersHold ==
  scheme = "shamir" =>
    /\ contribs = <<>> /\ drift = 0
    /\ \E f \in Maps :
         /\ Polynomial(f, Threshold)
         /\ Cong(f[0], TotalOf(EncodedBy(SharePrime)), SharePrime)
         /\ \A h \in 1..Shares : Cong(summed[h], f[h], SharePrime)

\* What is published is computed from what servers or holders still hold.
PublishedTrue ==
  outcome # Unpublished =>
    /\ released # <<>>
    /\ scheme = "two_server" => outcome = AggregateOf
    /\ scheme = "shamir" =>
         outcome = [verified |-> TRUE,
                    sum |-> Decode(ReconstructSecret(summed, 1..Threshold), SharePrime),
                    clients |-> Len(released)]

AgInd == AgTyped /\ ServersHold /\ HoldersHold /\ PublishedTrue

\* What the sums depend on.
SharesSum(cs, side) == FoldLeft(LAMBDA acc, c : (acc + c[side]) % FieldQ, 0, cs)
Commitments(cs) == FoldLeft(LAMBDA acc, c : (acc * c.commitment) % GroupP, 1, cs)
AggregateFrom(cs) ==
  LET s == (SharesSum(cs, "a") + SharesSum(cs, "b")) % FieldQ
  IN  [verified |-> Pw(s % FieldQ) = Commitments(cs),
       sum |-> Decode(s, FieldQ), clients |-> Len(cs)]

\* The aggregate as a function of the contributions.
LEMMA AggregateIs ==
  AggregateOf = AggregateFrom(contribs) /\ AggregateOf' = AggregateFrom(contribs')
<1>1. /\ \A side \in {"a", "b"} : ServerSum(side) = SharesSum(contribs, side)
      /\ \A side \in {"a", "b"} : ServerSum(side)' = SharesSum(contribs', side)
  BY DEF ServerSum, SharesSum, FoldLeft, MapThenFoldSet
<1>2. /\ \A s : VerifyAgainstCommitments(s) = (Pw(s % FieldQ) = Commitments(contribs))
      /\ \A s : VerifyAgainstCommitments(s)' = (Pw(s % FieldQ) = Commitments(contribs'))
  BY DEF VerifyAgainstCommitments, Commitments, Pw, FoldLeft, MapThenFoldSet
<1> QED BY <1>1, <1>2 DEF AggregateOf, AggregateFrom

\* What clients release are numbers that the fields are wide enough for.
LEMMA ReleaseFacts ==
  ASSUME NEW x \in Releases
  PROVE  /\ x \in Int
         /\ \A q \in {FieldQ, SharePrime} :
              q \in Nat /\ 2 * MaxContributions * Quantise(x) < q /\ -(2 * MaxContributions * Quantise(x)) < q
<1>1. x \in Int
  <2>1. CASE x \in UpdateValues
    BY <2>1, SharesAssumption
  <2>2. CASE x \notin UpdateValues
    <3>1. PICK y \in UpdateValues, noise \in NoiseValues : x = L2Clip(y) + noise
      BY <2>2 DEF Releases
    <3>2. y \in Int /\ noise \in Int /\ ClipNorm \in Int
      BY SharesAssumption
    <3>3. L2Clip(y) \in Int
      BY <3>2 DEF L2Clip
    <3> QED BY <3>1, <3>2, <3>3
  <2> QED BY <2>1, <2>2
<1>2. \A q \in {FieldQ, SharePrime} :
        2 * MaxContributions * Quantise(x) < q /\ -(2 * MaxContributions * Quantise(x)) < q
  BY WidthAssumption DEF Releases
<1> QED BY <1>1, <1>2, SharesAssumption

\* It holds before the first contribution.
LEMMA AgIndInit == AgInit => AgInd
<1> SUFFICES ASSUME AgInit PROVE AgInd
  OBVIOUS
<1>0. /\ <<>> \in Seq(Releases) /\ <<>> \in Seq(ClientShares) /\ <<>> \in Seq(Int) /\ Len(<<>>) = 0
      /\ FieldQ \in Nat /\ FieldQ > 1 /\ SharePrime \in Nat /\ SharePrime > 0
      /\ MaxContributions \in Nat /\ Shares \in Nat
  BY EmptySeq, SharesAssumption
<1>1. AgTyped
  BY <1>0 DEF AgInit, AgTyped
<1>2. \A q : EncodedBy(q) = <<>>
  BY <1>0 DEF AgInit, EncodedBy
<1>3. TotalOf(EncodedBy(FieldQ)) = 0 /\ TotalOf(EncodedBy(SharePrime)) = 0
  BY <1>2, TotalNothing
<1>4. ServersHold
  <2>1. SidesOf("a") = <<>> /\ SidesOf("b") = <<>>
    BY <1>0 DEF AgInit, SidesOf
  <2>2. TotalOf(SidesOf("a")) = 0 /\ TotalOf(SidesOf("b")) = 0
    BY <2>1, TotalNothing
  <2>3. Cong(0 + 0, 0 + 0, FieldQ)
    BY <1>0, CongRefl
  <2> QED BY <1>0, <1>3, <2>2, <2>3 DEF AgInit, ServersHold
<1>5. HoldersHold
  <2> DEFINE f == [h \in Points |-> 0]
  <2>1. Threshold \in Nat /\ 0 \in Int /\ 0 \in Points /\ \A h \in 1..Shares : h \in Points
    BY PrimeFacts DEF Points
  <2>2. Polynomial(f, Threshold)
    BY <2>1, PolynomialPlain
  <2>3. f \in Maps
    BY <2>1, <2>2, PolynomialSteps
  <2>4. f[0] = 0 /\ \A h \in 1..Shares : summed[h] = 0 /\ f[h] = 0
    BY <2>1 DEF AgInit
  <2>5. Cong(0, 0, SharePrime)
    BY <1>0, CongRefl
  <2> HIDE DEF f
  <2>6. contribs = <<>> /\ drift = 0
    BY DEF AgInit
  <2> QED BY <1>3, <2>2, <2>3, <2>4, <2>5, <2>6 DEF HoldersHold
<1>6. PublishedTrue
  BY DEF AgInit, PublishedTrue
<1> QED BY <1>1, <1>4, <1>5, <1>6 DEF AgInd

\* One more release is one more number encoded.
LEMMA EncodedMore ==
  ASSUME AgTyped, NEW x \in Releases, released' = Append(released, x),
         NEW q \in {FieldQ, SharePrime}
  PROVE  /\ EncodedBy(q) \in Seq(Int) /\ Len(EncodedBy(q)) = Len(released)
         /\ EncodedBy(q)' = Append(EncodedBy(q), Encode(x, q))
         /\ released' \in Seq(Releases) /\ Len(released') = Len(released) + 1
         /\ \A i \in 1..Len(released) : released'[i] = released[i]
         /\ released'[Len(released) + 1] = x
         /\ TotalOf(EncodedBy(q))' = TotalOf(EncodedBy(q)) + Encode(x, q)
<1>0. /\ released \in Seq(Releases) /\ Len(released) \in Nat
      /\ \A i \in 1..Len(released) : released[i] \in Releases
      /\ q \in Nat /\ q > 0
  BY LenProperties, SharesAssumption DEF AgTyped
<1>1. /\ released' \in Seq(Releases) /\ Len(released') = Len(released) + 1
      /\ \A i \in 1..Len(released) : released'[i] = released[i]
      /\ released'[Len(released) + 1] = x
  BY <1>0, AppendProperties
<1>2. \A y \in Releases : Encode(y, q) \in Int
  <2> TAKE y \in Releases
  <2>1. Encode(y, q) \in 0..(q - 1)
    BY <1>0, ReleaseFacts, Encoded
  <2> QED BY <1>0, <2>1
<1>3. EncodedBy(q) \in Seq(Int) /\ Len(EncodedBy(q)) = Len(released)
  <2>1. \A i \in 1..Len(released) : Encode(released[i], q) \in Int
    BY <1>0, <1>2
  <2> QED BY <1>0, <2>1, IsASeq, LenProperties DEF EncodedBy
<1>4. EncodedBy(q)' = Append(EncodedBy(q), Encode(x, q))
  <2> DEFINE s == EncodedBy(q)
             t == [i \in 1..Len(released') |-> Encode(released'[i], q)]
  <2>1. Encode(x, q) \in Int
    BY <1>2
  <2>2. /\ Append(s, Encode(x, q)) \in Seq(Int) /\ Len(Append(s, Encode(x, q))) = Len(released) + 1
        /\ \A i \in 1..Len(released) : Append(s, Encode(x, q))[i] = s[i]
        /\ Append(s, Encode(x, q))[Len(released) + 1] = Encode(x, q)
    BY <1>0, <1>3, <2>1, AppendProperties
  <2>3. \A i \in 1..Len(released') : Encode(released'[i], q) \in Int
    <3>1. \A i \in 1..Len(released') : released'[i] \in Releases
      BY <1>1, ElementOfSeq
    <3> QED BY <1>2, <3>1
  <2>4. t \in Seq(Int) /\ Len(t) = Len(released')
    BY <1>0, <1>1, <2>3, IsASeq, LenProperties
  <2>5. \A i \in 1..Len(t) : t[i] = Append(s, Encode(x, q))[i]
    <3> TAKE i \in 1..Len(t)
    <3>1. i \in 1..Len(released) \/ i = Len(released) + 1
      BY <1>0, <1>1, <2>4
    <3>2. t[i] = Encode(released'[i], q)
      BY <2>4
    <3>3. \A j \in 1..Len(released) : s[j] = Encode(released[j], q)
      BY DEF EncodedBy
    <3> HIDE DEF s, t
    <3> QED BY <1>1, <2>2, <3>1, <3>2, <3>3
  <2>6. t = Append(s, Encode(x, q))
    <3> HIDE DEF s, t
    <3> QED BY <1>1, <2>2, <2>4, <2>5, SeqEqual
  <2> QED BY <2>6 DEF EncodedBy
<1>5. TotalOf(EncodedBy(q))' = TotalOf(EncodedBy(q)) + Encode(x, q)
  <2>1. TotalOf(EncodedBy(q))' = TotalOf(EncodedBy(q)')
    BY DEF TotalOf, FoldLeft, MapThenFoldSet, EncodedBy
  <2> QED BY <1>2, <1>3, <1>4, <2>1, TotalAppend
<1> QED BY <1>1, <1>3, <1>4, <1>5

\* The invariant, of the state it is stated of.
SideOf(cs, side) == [i \in 1..Len(cs) |-> cs[i][side]]
EncodedOf(rs, q) == [i \in 1..Len(rs) |-> Encode(rs[i], q)]
HoldOf(cs, rs, d) ==
  /\ Len(cs) = Len(rs)
  /\ \A i \in 1..Len(cs) : cs[i].commitment = Pw(Encode(rs[i], FieldQ))
  /\ Cong(TotalOf(SideOf(cs, "a")) + TotalOf(SideOf(cs, "b")),
          TotalOf(EncodedOf(rs, FieldQ)) + d, FieldQ)
CurveOf(cs, rs, d, sums) ==
  /\ cs = <<>> /\ d = 0
  /\ \E f \in Maps :
       /\ Polynomial(f, Threshold)
       /\ Cong(f[0], TotalOf(EncodedOf(rs, SharePrime)), SharePrime)
       /\ \A h \in 1..Shares : Cong(sums[h], f[h], SharePrime)

\* The facts about either scheme, as functions of the state.
LEMMA HoldIs ==
  /\ ServersHold <=> (scheme = "two_server" => HoldOf(contribs, released, drift))
  /\ ServersHold' <=> (scheme' = "two_server" => HoldOf(contribs', released', drift'))
  /\ HoldersHold <=> (scheme = "shamir" => CurveOf(contribs, released, drift, summed))
  /\ HoldersHold' <=> (scheme' = "shamir" => CurveOf(contribs', released', drift', summed'))
<1>1. ServersHold <=> (scheme = "two_server" => HoldOf(contribs, released, drift))
  BY DEF ServersHold, HoldOf, SidesOf, SideOf, EncodedBy, EncodedOf
<1>2. ServersHold' <=> (scheme' = "two_server" => HoldOf(contribs', released', drift'))
  BY DEF ServersHold, HoldOf, SidesOf, SideOf, EncodedBy, EncodedOf, Cong, TotalOf, FoldLeft,
         MapThenFoldSet, Pw, PowMod, Encode, Quantise
<1>3. HoldersHold <=> (scheme = "shamir" => CurveOf(contribs, released, drift, summed))
  BY DEF HoldersHold, CurveOf, EncodedBy, EncodedOf
<1>4. HoldersHold' <=> (scheme' = "shamir" => CurveOf(contribs', released', drift', summed'))
  BY DEF HoldersHold, CurveOf, EncodedBy, EncodedOf, Cong, TotalOf, FoldLeft, MapThenFoldSet,
         Encode, Quantise, Polynomial, Built, Above, Maps, Points
<1> QED BY <1>1, <1>2, <1>3, <1>4

\* One server's shares of any contributions.
LEMMA SideNumbers ==
  ASSUME NEW cs \in Seq(ClientShares), NEW side \in {"a", "b"}
  PROVE  /\ SideOf(cs, side) \in Seq(Int) /\ Len(SideOf(cs, side)) = Len(cs)
         /\ \A i \in 1..Len(cs) : SideOf(cs, side)[i] = cs[i][side]
<1>1. \A i \in 1..Len(cs) : cs[i][side] \in Int
  <2> TAKE i \in 1..Len(cs)
  <2>1. cs[i] \in ClientShares
    BY ElementOfSeq
  <2> QED BY <2>1 DEF ClientShares
<1>2. Len(cs) \in Nat
  BY LenProperties
<1> QED BY <1>1, <1>2, IsASeq, LenProperties DEF SideOf

\* One more client's shares.
LEMMA SideMore ==
  ASSUME NEW cs \in Seq(ClientShares), NEW side \in {"a", "b"}, NEW c \in ClientShares
  PROVE  TotalOf(SideOf(Append(cs, c), side)) = TotalOf(SideOf(cs, side)) + c[side]
<1> DEFINE s == SideOf(cs, side)
           t == SideOf(Append(cs, c), side)
<1>1. Append(cs, c) \in Seq(ClientShares) /\ Len(Append(cs, c)) = Len(cs) + 1
      /\ (\A i \in 1..Len(cs) : Append(cs, c)[i] = cs[i]) /\ Append(cs, c)[Len(cs) + 1] = c
      /\ Len(cs) \in Nat
  BY AppendProperties, LenProperties
<1>2. s \in Seq(Int) /\ Len(s) = Len(cs) /\ \A i \in 1..Len(cs) : s[i] = cs[i][side]
  BY SideNumbers
<1>3. t \in Seq(Int) /\ Len(t) = Len(cs) + 1
      /\ \A i \in 1..(Len(cs) + 1) : t[i] = Append(cs, c)[i][side]
  BY <1>1, SideNumbers
<1>4. c[side] \in Int
  BY DEF ClientShares
<1>5. /\ Append(s, c[side]) \in Seq(Int) /\ Len(Append(s, c[side])) = Len(cs) + 1
      /\ (\A i \in 1..Len(cs) : Append(s, c[side])[i] = s[i])
      /\ Append(s, c[side])[Len(cs) + 1] = c[side]
  <2> HIDE DEF s
  <2> QED BY <1>2, <1>4, AppendProperties
<1>6. \A i \in 1..(Len(cs) + 1) : t[i] = Append(s, c[side])[i]
  <2> TAKE i \in 1..(Len(cs) + 1)
  <2>1. i \in 1..Len(cs) \/ i = Len(cs) + 1
    BY <1>1
  <2> HIDE DEF s, t
  <2> QED BY <1>1, <1>2, <1>3, <1>5, <2>1
<1>7. t = Append(s, c[side])
  <2> HIDE DEF s, t
  <2> QED BY <1>3, <1>5, <1>6, SeqEqual
<1>8. TotalOf(Append(s, c[side])) = TotalOf(s) + c[side]
  <2> HIDE DEF s, t
  <2> QED BY <1>2, <1>4, TotalAppend
<1> QED BY <1>7, <1>8

\* One share altered.
LEMMA SideAltered ==
  ASSUME NEW cs \in Seq(ClientShares), NEW i \in 1..Len(cs), NEW c \in ClientShares,
         NEW side \in {"a", "b"}
  PROVE  /\ [cs EXCEPT ![i] = c] \in Seq(ClientShares) /\ Len([cs EXCEPT ![i] = c]) = Len(cs)
         /\ \A j \in 1..Len(cs) : [cs EXCEPT ![i] = c][j] = IF j = i THEN c ELSE cs[j]
         /\ TotalOf(SideOf([cs EXCEPT ![i] = c], side))
              = TotalOf(SideOf(cs, side)) + c[side] - cs[i][side]
<1> DEFINE ds == [cs EXCEPT ![i] = c]
           s == SideOf(cs, side)
           t == SideOf(ds, side)
<1>1. ds \in Seq(ClientShares) /\ Len(ds) = Len(cs)
      /\ \A j \in 1..Len(cs) : ds[j] = IF j = i THEN c ELSE cs[j]
  BY ExceptSeq
<1>2. s \in Seq(Int) /\ Len(s) = Len(cs) /\ \A j \in 1..Len(cs) : s[j] = cs[j][side]
  BY SideNumbers
<1>3. t \in Seq(Int) /\ Len(t) = Len(cs) /\ \A j \in 1..Len(cs) : t[j] = ds[j][side]
  <2> HIDE DEF ds
  <2> QED BY <1>1, SideNumbers
<1>4. c[side] \in Int
  BY DEF ClientShares
<1> HIDE DEF ds, s, t
<1>5. /\ [s EXCEPT ![i] = c[side]] \in Seq(Int) /\ Len([s EXCEPT ![i] = c[side]]) = Len(cs)
      /\ \A j \in 1..Len(cs) : [s EXCEPT ![i] = c[side]][j] = IF j = i THEN c[side] ELSE s[j]
  BY <1>2, <1>4, ExceptSeq
<1>6. \A j \in 1..Len(cs) : t[j] = [s EXCEPT ![i] = c[side]][j]
  BY <1>1, <1>2, <1>3, <1>5
<1>7. t = [s EXCEPT ![i] = c[side]]
  BY <1>3, <1>5, <1>6, SeqEqual
<1>8. TotalOf([s EXCEPT ![i] = c[side]]) = TotalOf(s) + c[side] - s[i]
  BY <1>2, <1>4, TotalExcept
<1>9. s[i] = cs[i][side]
  BY <1>2
<1> QED BY <1>1, <1>7, <1>8, <1>9 DEF ds, s, t

\* The shares split_contribution sends sum to what the client encoded.
LEMMA SplitTrue ==
  ASSUME NEW x \in Releases, NEW mask \in 0..(FieldQ - 1)
  PROVE  /\ SplitContribution(x, mask) \in ClientShares
         /\ SplitContribution(x, mask).commitment = Pw(Encode(x, FieldQ))
         /\ Cong(SplitContribution(x, mask).a + SplitContribution(x, mask).b,
                 Encode(x, FieldQ), FieldQ)
<1> DEFINE e == Encode(x, FieldQ)
<1>1. e \in 0..(FieldQ - 1)
  BY ReleaseFacts, Encoded, SharesAssumption
<1> HIDE DEF e
<1>2. e \in Nat /\ e \in Int /\ mask \in Int /\ e - mask \in Int /\ FieldQ \in Nat /\ FieldQ > 0
  BY <1>1, SharesAssumption
<1>3. (e - mask) % FieldQ \in 0..(FieldQ - 1) /\ Cong((e - mask) % FieldQ, e - mask, FieldQ)
  BY <1>2, ModRange
<1>4. Pw(e) \in 1..(GroupP - 1)
  BY <1>2, PowerNonzero
<1>5. Cong(mask + ((e - mask) % FieldQ), mask + (e - mask), FieldQ)
  <2>1. Cong(mask, mask, FieldQ)
    BY <1>2, CongRefl
  <2>2. (e - mask) % FieldQ \in Int
    BY <1>3
  <2> QED BY <1>2, <1>3, <2>1, <2>2, CongAdd
<1>6. mask + (e - mask) = e
  BY <1>2
<1>7. SplitContribution(x, mask) = [a |-> mask, b |-> (e - mask) % FieldQ, commitment |-> Pw(e)]
  BY DEF SplitContribution, Pw, e
<1>8. SplitContribution(x, mask) \in ClientShares
  BY <1>3, <1>4, <1>7 DEF ClientShares
<1>9. /\ SplitContribution(x, mask).commitment = Pw(e) /\ SplitContribution(x, mask).a = mask
      /\ SplitContribution(x, mask).b = (e - mask) % FieldQ
  BY <1>7
<1>10. Cong(SplitContribution(x, mask).a + SplitContribution(x, mask).b, e, FieldQ)
  BY <1>5, <1>6, <1>9
<1> QED BY <1>8, <1>9, <1>10 DEF e

ResultOf(sums, n) ==
  [verified |-> TRUE, sum |-> Decode(ReconstructSecret(sums, 1..Threshold), SharePrime),
   clients |-> n]
PublishedOf(sc, rs, cs, sums, out) ==
  out # Unpublished =>
    /\ rs # <<>>
    /\ sc = "two_server" => out = AggregateFrom(cs)
    /\ sc = "shamir" => out = ResultOf(sums, Len(rs))

\* The fact about what is published, as a function of the state.
LEMMA PublishedIs ==
  /\ PublishedTrue <=> PublishedOf(scheme, released, contribs, summed, outcome)
  /\ PublishedTrue' <=> PublishedOf(scheme', released', contribs', summed', outcome')
  /\ Unpublished' = Unpublished
<1>1. AggregateOf = AggregateFrom(contribs) /\ AggregateOf' = AggregateFrom(contribs')
  BY AggregateIs
<1>2. PublishedTrue <=> PublishedOf(scheme, released, contribs, summed, outcome)
  BY <1>1 DEF PublishedTrue, PublishedOf, ResultOf
<1>3. Unpublished' = Unpublished
  BY DEF Unpublished
<1>4. [verified |-> TRUE,
       sum |-> Decode(ReconstructSecret(summed, 1..Threshold), SharePrime),
       clients |-> Len(released)]' = ResultOf(summed', Len(released'))
  BY DEF ResultOf, Decode, ReconstructSecret, FoldLeft, MapThenFoldSet, Weight, Numerator,
         Denominator, ModInverse, PowMod, HolderPoint, SetToSeq, IsInjective
<1>5. PublishedTrue' <=> PublishedOf(scheme', released', contribs', summed', outcome')
  BY <1>1, <1>3, <1>4 DEF PublishedTrue, PublishedOf
<1> QED BY <1>2, <1>3, <1>5

\* One more release adds its encoding to the sum.
LEMMA EncodedOfMore ==
  ASSUME AgTyped, NEW x \in Releases, released' = Append(released, x),
         NEW q \in {FieldQ, SharePrime}
  PROVE  /\ TotalOf(EncodedOf(released, q)) \in Int
         /\ TotalOf(EncodedOf(released', q)) = TotalOf(EncodedOf(released, q)) + Encode(x, q)
         /\ Encode(x, q) \in 0..(q - 1)
<1>1. EncodedBy(q)' = EncodedOf(released', q)
  BY DEF EncodedBy, EncodedOf, Encode, Quantise
<1>2. EncodedBy(q) = EncodedOf(released, q)
  BY DEF EncodedBy, EncodedOf
<1>3. EncodedBy(q) \in Seq(Int) /\ EncodedBy(q)' = Append(EncodedBy(q), Encode(x, q))
  BY EncodedMore
<1>4. Encode(x, q) \in 0..(q - 1)
  <2>1. x \in Int
    BY ReleaseFacts
  <2>2. q \in Nat /\ q > 0
    BY SharesAssumption
  <2> QED BY <2>1, <2>2, Encoded
<1>5. Encode(x, q) \in Int
  BY <1>4, SharesAssumption
<1> QED BY <1>1, <1>2, <1>3, <1>4, <1>5, TotalAppend, TotalNumber

\* The sets of values do not change.
LEMMA ReleasesSame == Releases' = Releases /\ ClientShares' = ClientShares
  BY DEF Releases, L2Clip, ClientShares

\* Kept by the contribution of a client.
LEMMA ContributeKeeps ==
  ASSUME AgInd, NEW x \in Releases, NEW mask \in 0..(FieldQ - 1), Contribute(x, mask)
  PROVE  AgInd'
<1> DEFINE c == SplitContribution(x, mask)
<1>0. /\ AgTyped /\ FieldQ \in {FieldQ, SharePrime} /\ FieldQ \in Nat /\ MaxContributions \in Nat
      /\ scheme = "two_server" /\ scheme' = "two_server" /\ Len(contribs) < MaxContributions
      /\ outcome = Unpublished /\ outcome' = Unpublished
      /\ released' = Append(released, x) /\ contribs' = Append(contribs, c)
      /\ summed' = summed /\ drift' = drift
      /\ contribs \in Seq(ClientShares) /\ drift \in Int
  BY SharesAssumption DEF AgInd, AgTyped, Contribute
<1>1. c \in ClientShares /\ c.commitment = Pw(Encode(x, FieldQ))
      /\ Cong(c.a + c.b, Encode(x, FieldQ), FieldQ) /\ c.a \in Int /\ c.b \in Int
  BY SplitTrue DEF ClientShares
<1> HIDE DEF c
<1>2. HoldOf(contribs, released, drift)
  BY <1>0, HoldIs DEF AgInd
<1>3. /\ released' \in Seq(Releases) /\ Len(released') = Len(released) + 1
      /\ \A i \in 1..Len(released) : released'[i] = released[i]
      /\ released'[Len(released) + 1] = x
  BY <1>0, EncodedMore
<1>4. /\ contribs' \in Seq(ClientShares) /\ Len(contribs') = Len(contribs) + 1
      /\ \A i \in 1..Len(contribs) : contribs'[i] = contribs[i]
      /\ contribs'[Len(contribs) + 1] = c
      /\ Len(contribs) \in Nat
  BY <1>0, <1>1, AppendProperties, LenProperties
<1>5. Len(contribs) = Len(released)
  BY <1>2 DEF HoldOf
<1>6. AgTyped'
  <2>1. released' \in Seq(Releases) /\ Len(released') <= MaxContributions
    BY <1>0, <1>3, <1>4, <1>5
  <2> QED BY <1>0, <1>4, <2>1, ReleasesSame DEF AgTyped
<1>7. \A i \in 1..Len(contribs') : contribs'[i].commitment = Pw(Encode(released'[i], FieldQ))
  <2> TAKE i \in 1..Len(contribs')
  <2>1. i \in 1..Len(contribs) \/ i = Len(contribs) + 1
    BY <1>4
  <2>2. CASE i \in 1..Len(contribs)
    BY <1>2, <1>3, <1>4, <1>5, <2>2 DEF HoldOf
  <2>3. CASE i = Len(contribs) + 1
    BY <1>1, <1>3, <1>4, <1>5, <2>3
  <2> QED BY <2>1, <2>2, <2>3
<1>8. Cong(TotalOf(SideOf(contribs', "a")) + TotalOf(SideOf(contribs', "b")),
           TotalOf(EncodedOf(released', FieldQ)) + drift', FieldQ)
  <2> DEFINE ta == TotalOf(SideOf(contribs, "a"))
             tb == TotalOf(SideOf(contribs, "b"))
             te == TotalOf(EncodedOf(released, FieldQ))
             e == Encode(x, FieldQ)
  <2>1. /\ TotalOf(SideOf(contribs', "a")) = ta + c.a
        /\ TotalOf(SideOf(contribs', "b")) = tb + c.b
    BY <1>0, <1>1, SideMore
  <2>2. TotalOf(EncodedOf(released', FieldQ)) = te + e /\ te \in Int /\ e \in 0..(FieldQ - 1)
    BY <1>0, EncodedOfMore
  <2>3. ta \in Int /\ tb \in Int
    BY <1>0, SideNumbers, TotalNumber
  <2>4. Cong(ta + tb, te + drift, FieldQ)
    BY <1>2 DEF HoldOf
  <2>5. Cong(c.a + c.b, e, FieldQ)
    BY <1>1
  <2> HIDE DEF ta, tb, te, e
  <2>6. e \in Int /\ ta + tb \in Int /\ te + drift \in Int /\ c.a + c.b \in Int
    BY <1>0, <1>1, <2>2, <2>3
  <2>7. Cong((ta + tb) + (c.a + c.b), (te + drift) + e, FieldQ)
    BY <1>0, <2>4, <2>5, <2>6, CongAdd
  <2>8. (ta + tb) + (c.a + c.b) = (ta + c.a) + (tb + c.b) /\ (te + drift) + e = (te + e) + drift
    BY <1>0, <1>1, <2>2, <2>3, <2>6
  <2> QED BY <1>0, <2>1, <2>2, <2>7, <2>8
<1>9. HoldOf(contribs', released', drift')
  BY <1>3, <1>4, <1>5, <1>7, <1>8 DEF HoldOf
<1>10. ServersHold' /\ HoldersHold'
  BY <1>0, <1>9, HoldIs
<1>11. PublishedTrue'
  BY <1>0, PublishedIs DEF PublishedOf
<1> QED BY <1>6, <1>10, <1>11 DEF AgInd

\* A share is altered: the sums drift from what the clients encoded by as much.
LEMMA AlterAKeeps ==
  ASSUME AgInd, NEW i \in 1..Len(contribs), NEW v \in MaskValues, outcome = Unpublished,
         drift' = (drift + v - contribs[i].a) % FieldQ,
         contribs' = [contribs EXCEPT ![i].a = v],
         UNCHANGED <<scheme, released, summed, outcome>>
  PROVE  AgInd'
<1> DEFINE c == [a |-> v, b |-> contribs[i].b,
                  commitment |-> contribs[i].commitment]
<1>0. /\ AgTyped /\ FieldQ \in Nat /\ FieldQ > 0 /\ contribs \in Seq(ClientShares)
      /\ drift \in Int /\ v \in 0..(FieldQ - 1) /\ v \in Int
      /\ scheme' = scheme /\ released' = released /\ summed' = summed /\ outcome' = outcome
  BY SharesAssumption DEF AgInd, AgTyped
<1>1. contribs[i] \in ClientShares
  BY <1>0, ElementOfSeq
<1>2. /\ c \in ClientShares /\ c.commitment = contribs[i].commitment
      /\ c.a = v /\ c.b = contribs[i].b
      /\ contribs[i].a \in Int /\ contribs[i].b \in Int
  <2>1. /\ contribs[i].a \in 0..(FieldQ - 1) /\ contribs[i].b \in 0..(FieldQ - 1)
        /\ contribs[i].commitment \in 1..(GroupP - 1)
    BY <1>1 DEF ClientShares
  <2>2. c \in ClientShares
    BY <1>0, <2>1 DEF ClientShares
  <2> QED BY <1>0, <2>1, <2>2
<1>3. contribs' = [contribs EXCEPT ![i] = c]
  <2>1. [contribs[i] EXCEPT !.a = v] = c
    BY <1>1 DEF ClientShares
  <2>2. contribs' = [contribs EXCEPT ![i] = [contribs[i] EXCEPT !.a = v]]
    OBVIOUS
  <2> HIDE DEF c
  <2> QED BY <2>1, <2>2
<1> HIDE DEF c
<1>4. /\ contribs' \in Seq(ClientShares) /\ Len(contribs') = Len(contribs)
      /\ \A j \in 1..Len(contribs) : contribs'[j] = IF j = i THEN c ELSE contribs[j]
      /\ TotalOf(SideOf(contribs', "a")) = TotalOf(SideOf(contribs, "a")) + v - contribs[i].a
      /\ TotalOf(SideOf(contribs', "b"))
           = TotalOf(SideOf(contribs, "b")) + contribs[i].b - contribs[i].b
  <2> DEFINE ds == [contribs EXCEPT ![i] = c]
  <2>1. \A side \in {"a", "b"} :
          /\ ds \in Seq(ClientShares) /\ Len(ds) = Len(contribs)
          /\ \A j \in 1..Len(contribs) : ds[j] = IF j = i THEN c ELSE contribs[j]
          /\ TotalOf(SideOf(ds, side)) = TotalOf(SideOf(contribs, side)) + c[side] - contribs[i][side]
    <3> SUFFICES ASSUME NEW side \in {"a", "b"}
                 PROVE  /\ ds \in Seq(ClientShares) /\ Len(ds) = Len(contribs)
                        /\ \A j \in 1..Len(contribs) : ds[j] = IF j = i THEN c ELSE contribs[j]
                        /\ TotalOf(SideOf(ds, side))
                             = TotalOf(SideOf(contribs, side)) + c[side] - contribs[i][side]
      OBVIOUS
    <3>1. contribs \in Seq(ClientShares) /\ c \in ClientShares
      BY <1>0, <1>2
    <3> QED BY ONLY <3>1, i \in 1..Len(contribs), side \in {"a", "b"}, SideAltered
  <2>2. ds = contribs'
    BY <1>3
  <2> HIDE DEF ds
  <2> QED BY <1>2, <2>1, <2>2
<1>5. scheme = "two_server"
  <2>1. scheme # "shamir"
    <3>1. contribs # <<>>
      BY <1>0, EmptySeq
    <3> QED BY <3>1, HoldIs DEF AgInd, CurveOf
  <2> QED BY <1>0, <2>1 DEF AgTyped
<1>6. HoldOf(contribs, released, drift)
  BY <1>5, HoldIs DEF AgInd
<1> DEFINE ta == TotalOf(SideOf(contribs, "a"))
           tb == TotalOf(SideOf(contribs, "b"))
           te == TotalOf(EncodedOf(released, FieldQ))
           w == contribs[i].a
<1>7. ta \in Int /\ tb \in Int
  BY <1>0, SideNumbers, TotalNumber
<1>8. te \in Int
  <2>1. \A j \in 1..Len(released) : Encode(released[j], FieldQ) \in Int
    <3> TAKE j \in 1..Len(released)
    <3>1. released[j] \in Releases
      BY <1>0, ElementOfSeq DEF AgTyped
    <3>2. released[j] \in Int
      BY <3>1, ReleaseFacts
    <3>3. Encode(released[j], FieldQ) \in 0..(FieldQ - 1)
      BY <1>0, <3>2, Encoded
    <3> QED BY <1>0, <3>3
  <2>2. Len(released) \in Nat
    BY <1>0, LenProperties DEF AgTyped
  <2>3. EncodedOf(released, FieldQ) \in Seq(Int)
    BY <2>1, <2>2, IsASeq DEF EncodedOf
  <2> QED BY <2>3, TotalNumber
<1>9. Cong(ta + tb, te + drift, FieldQ)
  <2>1. Cong(ta + tb, te + drift, FieldQ)
    BY <1>6 DEF HoldOf
  <2> HIDE DEF ta, tb, te
  <2>2. tb + ta = ta + tb
    BY <1>7
  <2> QED BY <2>1, <2>2
<1>10. w \in Int
  BY <1>2
<1>11. drift' = (drift + v - w) % FieldQ
  OBVIOUS
<1>12. TotalOf(SideOf(contribs', "a")) = ta + v - w /\ TotalOf(SideOf(contribs', "b")) = tb
  <2>1. TotalOf(SideOf(contribs', "b")) = tb + contribs[i].b - contribs[i].b
    BY <1>4
  <2> HIDE DEF ta, tb
  <2>2. tb + contribs[i].b - contribs[i].b = tb
    BY <1>2, <1>7
  <2> QED BY <1>4, <2>1, <2>2 DEF ta
<1> HIDE DEF ta, tb, te, w
<1>13. drift + v - w \in Int /\ te + drift \in Int /\ ta + tb \in Int
  BY <1>0, <1>7, <1>8, <1>10
<1>14. drift' \in 0..(FieldQ - 1) /\ Cong(drift + v - w, drift', FieldQ)
  BY <1>0, <1>11, <1>13, ModRange
<1>15. Cong((ta + v - w) + tb, te + drift', FieldQ)
  <2>1. v - w \in Int /\ Cong(v - w, v - w, FieldQ) /\ drift' \in Int /\ Cong(te, te, FieldQ)
    BY <1>0, <1>8, <1>10, <1>14, CongRefl
  <2>2. Cong((ta + tb) + (v - w), (te + drift) + (v - w), FieldQ)
    BY <1>0, <1>9, <1>13, <2>1, CongAdd
  <2>3. Cong(te + (drift + v - w), te + drift', FieldQ)
    BY <1>0, <1>8, <1>13, <1>14, <2>1, CongAdd
  <2>4. (ta + tb) + (v - w) = (ta + v - w) + tb /\ (te + drift) + (v - w) = te + (drift + v - w)
        /\ (ta + v - w) + tb \in Int /\ te + (drift + v - w) \in Int /\ te + drift' \in Int
    <3>1. \A ra, rb, re, rd, rv, rw \in Int :
            /\ (ra + rb) + (rv - rw) = (ra + rv - rw) + rb
            /\ (re + rd) + (rv - rw) = re + (rd + rv - rw)
            /\ (ra + rv - rw) + rb \in Int /\ re + (rd + rv - rw) \in Int
      OBVIOUS
    <3>2. te + drift' \in Int
      BY <1>8, <2>1
    <3>3. drift \in Int /\ v \in Int
      BY <1>0
    <3> QED BY ONLY <1>7, <1>8, <1>10, <3>1, <3>2, <3>3
  <2> QED BY <1>0, <2>2, <2>3, <2>4, CongTrans
<1>16. HoldOf(contribs', released', drift')
  <2>1. Cong(TotalOf(SideOf(contribs', "a")) + TotalOf(SideOf(contribs', "b")),
             TotalOf(EncodedOf(released', FieldQ)) + drift', FieldQ)
    <3>1. tb + (ta + v - w) = (ta + v - w) + tb
      BY <1>0, <1>7, <1>10
    <3> QED BY <1>0, <1>12, <1>15, <3>1 DEF te
  <2>2. \A j \in 1..Len(contribs') : contribs'[j].commitment = Pw(Encode(released'[j], FieldQ))
    BY <1>0, <1>2, <1>4, <1>6 DEF HoldOf
  <2>3. Len(contribs') = Len(released')
    BY <1>0, <1>4, <1>6 DEF HoldOf
  <2> QED BY <2>1, <2>2, <2>3 DEF HoldOf
<1>17. AgTyped'
  BY <1>0, <1>4, <1>14, ReleasesSame DEF AgTyped
<1>18. ServersHold' /\ HoldersHold'
  BY <1>0, <1>5, <1>16, HoldIs
<1>19. PublishedTrue'
  BY <1>0, PublishedIs DEF PublishedOf
<1> QED BY <1>17, <1>18, <1>19 DEF AgInd

\* Kept by a change of a share on its way to server B.
LEMMA AlterBKeeps ==
  ASSUME AgInd, NEW i \in 1..Len(contribs), NEW v \in MaskValues, outcome = Unpublished,
         drift' = (drift + v - contribs[i].b) % FieldQ,
         contribs' = [contribs EXCEPT ![i].b = v],
         UNCHANGED <<scheme, released, summed, outcome>>
  PROVE  AgInd'
<1> DEFINE c == [a |-> contribs[i].a, b |-> v,
                  commitment |-> contribs[i].commitment]
<1>0. /\ AgTyped /\ FieldQ \in Nat /\ FieldQ > 0 /\ contribs \in Seq(ClientShares)
      /\ drift \in Int /\ v \in 0..(FieldQ - 1) /\ v \in Int
      /\ scheme' = scheme /\ released' = released /\ summed' = summed /\ outcome' = outcome
  BY SharesAssumption DEF AgInd, AgTyped
<1>1. contribs[i] \in ClientShares
  BY <1>0, ElementOfSeq
<1>2. /\ c \in ClientShares /\ c.commitment = contribs[i].commitment
      /\ c.b = v /\ c.a = contribs[i].a
      /\ contribs[i].a \in Int /\ contribs[i].b \in Int
  <2>1. /\ contribs[i].a \in 0..(FieldQ - 1) /\ contribs[i].b \in 0..(FieldQ - 1)
        /\ contribs[i].commitment \in 1..(GroupP - 1)
    BY <1>1 DEF ClientShares
  <2>2. c \in ClientShares
    BY <1>0, <2>1 DEF ClientShares
  <2> QED BY <1>0, <2>1, <2>2
<1>3. contribs' = [contribs EXCEPT ![i] = c]
  <2>1. [contribs[i] EXCEPT !.b = v] = c
    BY <1>1 DEF ClientShares
  <2>2. contribs' = [contribs EXCEPT ![i] = [contribs[i] EXCEPT !.b = v]]
    OBVIOUS
  <2> HIDE DEF c
  <2> QED BY <2>1, <2>2
<1> HIDE DEF c
<1>4. /\ contribs' \in Seq(ClientShares) /\ Len(contribs') = Len(contribs)
      /\ \A j \in 1..Len(contribs) : contribs'[j] = IF j = i THEN c ELSE contribs[j]
      /\ TotalOf(SideOf(contribs', "b")) = TotalOf(SideOf(contribs, "b")) + v - contribs[i].b
      /\ TotalOf(SideOf(contribs', "a"))
           = TotalOf(SideOf(contribs, "a")) + contribs[i].a - contribs[i].a
  <2> DEFINE ds == [contribs EXCEPT ![i] = c]
  <2>1. \A side \in {"a", "b"} :
          /\ ds \in Seq(ClientShares) /\ Len(ds) = Len(contribs)
          /\ \A j \in 1..Len(contribs) : ds[j] = IF j = i THEN c ELSE contribs[j]
          /\ TotalOf(SideOf(ds, side)) = TotalOf(SideOf(contribs, side)) + c[side] - contribs[i][side]
    <3> SUFFICES ASSUME NEW side \in {"a", "b"}
                 PROVE  /\ ds \in Seq(ClientShares) /\ Len(ds) = Len(contribs)
                        /\ \A j \in 1..Len(contribs) : ds[j] = IF j = i THEN c ELSE contribs[j]
                        /\ TotalOf(SideOf(ds, side))
                             = TotalOf(SideOf(contribs, side)) + c[side] - contribs[i][side]
      OBVIOUS
    <3>1. contribs \in Seq(ClientShares) /\ c \in ClientShares
      BY <1>0, <1>2
    <3> QED BY ONLY <3>1, i \in 1..Len(contribs), side \in {"a", "b"}, SideAltered
  <2>2. ds = contribs'
    BY <1>3
  <2> HIDE DEF ds
  <2> QED BY <1>2, <2>1, <2>2
<1>5. scheme = "two_server"
  <2>1. scheme # "shamir"
    <3>1. contribs # <<>>
      BY <1>0, EmptySeq
    <3> QED BY <3>1, HoldIs DEF AgInd, CurveOf
  <2> QED BY <1>0, <2>1 DEF AgTyped
<1>6. HoldOf(contribs, released, drift)
  BY <1>5, HoldIs DEF AgInd
<1> DEFINE ta == TotalOf(SideOf(contribs, "b"))
           tb == TotalOf(SideOf(contribs, "a"))
           te == TotalOf(EncodedOf(released, FieldQ))
           w == contribs[i].b
<1>7. ta \in Int /\ tb \in Int
  BY <1>0, SideNumbers, TotalNumber
<1>8. te \in Int
  <2>1. \A j \in 1..Len(released) : Encode(released[j], FieldQ) \in Int
    <3> TAKE j \in 1..Len(released)
    <3>1. released[j] \in Releases
      BY <1>0, ElementOfSeq DEF AgTyped
    <3>2. released[j] \in Int
      BY <3>1, ReleaseFacts
    <3>3. Encode(released[j], FieldQ) \in 0..(FieldQ - 1)
      BY <1>0, <3>2, Encoded
    <3> QED BY <1>0, <3>3
  <2>2. Len(released) \in Nat
    BY <1>0, LenProperties DEF AgTyped
  <2>3. EncodedOf(released, FieldQ) \in Seq(Int)
    BY <2>1, <2>2, IsASeq DEF EncodedOf
  <2> QED BY <2>3, TotalNumber
<1>9. Cong(ta + tb, te + drift, FieldQ)
  <2>1. Cong(tb + ta, te + drift, FieldQ)
    BY <1>6 DEF HoldOf
  <2> HIDE DEF ta, tb, te
  <2>2. tb + ta = ta + tb
    BY <1>7
  <2> QED BY <2>1, <2>2
<1>10. w \in Int
  BY <1>2
<1>11. drift' = (drift + v - w) % FieldQ
  OBVIOUS
<1>12. TotalOf(SideOf(contribs', "b")) = ta + v - w /\ TotalOf(SideOf(contribs', "a")) = tb
  <2>1. TotalOf(SideOf(contribs', "a")) = tb + contribs[i].a - contribs[i].a
    BY <1>4
  <2> HIDE DEF ta, tb
  <2>2. tb + contribs[i].a - contribs[i].a = tb
    BY <1>2, <1>7
  <2> QED BY <1>4, <2>1, <2>2 DEF ta
<1> HIDE DEF ta, tb, te, w
<1>13. drift + v - w \in Int /\ te + drift \in Int /\ ta + tb \in Int
  BY <1>0, <1>7, <1>8, <1>10
<1>14. drift' \in 0..(FieldQ - 1) /\ Cong(drift + v - w, drift', FieldQ)
  BY <1>0, <1>11, <1>13, ModRange
<1>15. Cong((ta + v - w) + tb, te + drift', FieldQ)
  <2>1. v - w \in Int /\ Cong(v - w, v - w, FieldQ) /\ drift' \in Int /\ Cong(te, te, FieldQ)
    BY <1>0, <1>8, <1>10, <1>14, CongRefl
  <2>2. Cong((ta + tb) + (v - w), (te + drift) + (v - w), FieldQ)
    BY <1>0, <1>9, <1>13, <2>1, CongAdd
  <2>3. Cong(te + (drift + v - w), te + drift', FieldQ)
    BY <1>0, <1>8, <1>13, <1>14, <2>1, CongAdd
  <2>4. (ta + tb) + (v - w) = (ta + v - w) + tb /\ (te + drift) + (v - w) = te + (drift + v - w)
        /\ (ta + v - w) + tb \in Int /\ te + (drift + v - w) \in Int /\ te + drift' \in Int
    <3>1. \A ra, rb, re, rd, rv, rw \in Int :
            /\ (ra + rb) + (rv - rw) = (ra + rv - rw) + rb
            /\ (re + rd) + (rv - rw) = re + (rd + rv - rw)
            /\ (ra + rv - rw) + rb \in Int /\ re + (rd + rv - rw) \in Int
      OBVIOUS
    <3>2. te + drift' \in Int
      BY <1>8, <2>1
    <3>3. drift \in Int /\ v \in Int
      BY <1>0
    <3> QED BY ONLY <1>7, <1>8, <1>10, <3>1, <3>2, <3>3
  <2> QED BY <1>0, <2>2, <2>3, <2>4, CongTrans
<1>16. HoldOf(contribs', released', drift')
  <2>1. Cong(TotalOf(SideOf(contribs', "a")) + TotalOf(SideOf(contribs', "b")),
             TotalOf(EncodedOf(released', FieldQ)) + drift', FieldQ)
    <3>1. tb + (ta + v - w) = (ta + v - w) + tb
      BY <1>0, <1>7, <1>10
    <3> QED BY <1>0, <1>12, <1>15, <3>1 DEF te
  <2>2. \A j \in 1..Len(contribs') : contribs'[j].commitment = Pw(Encode(released'[j], FieldQ))
    BY <1>0, <1>2, <1>4, <1>6 DEF HoldOf
  <2>3. Len(contribs') = Len(released')
    BY <1>0, <1>4, <1>6 DEF HoldOf
  <2> QED BY <2>1, <2>2, <2>3 DEF HoldOf
<1>17. AgTyped'
  BY <1>0, <1>4, <1>14, ReleasesSame DEF AgTyped
<1>18. ServersHold' /\ HoldersHold'
  BY <1>0, <1>5, <1>16, HoldIs
<1>19. PublishedTrue'
  BY <1>0, PublishedIs DEF PublishedOf
<1> QED BY <1>17, <1>18, <1>19 DEF AgInd

\* A client shares a polynomial that is what it encoded at 0, and the holders' sums
\* stay on a polynomial.
LEMMA ShareOutKeeps ==
  ASSUME AgInd, NEW x \in Releases, NEW coeffs \in Coefficients, ShareOut(x, coeffs)
  PROVE  AgInd'
<1>0. /\ AgTyped /\ SharePrime \in {FieldQ, SharePrime} /\ SharePrime \in Nat /\ SharePrime > 0
      /\ MaxContributions \in Nat /\ Shares \in Nat
      /\ scheme = "shamir" /\ scheme' = "shamir" /\ Len(released) < MaxContributions
      /\ outcome = Unpublished /\ outcome' = Unpublished
      /\ released' = Append(released, x) /\ contribs' = contribs
      /\ drift' = drift
      /\ summed' = [h \in 1..Shares |->
                      (summed[h] + ShareOf(Encode(x, SharePrime), coeffs, h)) % SharePrime]
      /\ summed \in [1..Shares -> 0..(SharePrime - 1)]
  BY SharesAssumption DEF AgInd, AgTyped, ShareOut
<1>1. /\ released' \in Seq(Releases) /\ Len(released') = Len(released) + 1 /\ Len(released) \in Nat
  BY <1>0, EncodedMore, LenProperties DEF AgTyped
<1>2. CurveOf(contribs, released, drift, summed)
  BY <1>0, HoldIs DEF AgInd
<1> DEFINE te == TotalOf(EncodedOf(released, SharePrime))
           e == Encode(x, SharePrime)
<1>3. /\ te \in Int /\ TotalOf(EncodedOf(released', SharePrime)) = te + e
      /\ e \in 0..(SharePrime - 1)
  BY <1>0, EncodedOfMore
<1>4. PICK f \in Maps :
        /\ Polynomial(f, Threshold) /\ Cong(f[0], te, SharePrime)
        /\ \A h \in 1..Shares : Cong(summed[h], f[h], SharePrime)
  BY <1>2 DEF CurveOf
<1> HIDE DEF te, e
<1>5. PICK g \in Maps :
        /\ Polynomial(g, Threshold) /\ g[0] = e
        /\ \A h \in 1..Shares : g[h] = ShareOf(e, coeffs, h) /\ g[h] \in 0..(SharePrime - 1)
  BY <1>3, SharesLie
<1> DEFINE r == [h \in Points |-> 1 * f[h] + 1 * g[h]]
<1>10. /\ Threshold \in Nat /\ 1 \in Int /\ 0 \in Points /\ \A h \in 1..Shares : h \in Points
  BY PrimeFacts DEF Points
<1>11. \A h \in Points : /\ r[h] = 1 * f[h] + 1 * g[h] /\ r[h] \in Int /\ r[h] = f[h] + g[h]
                        /\ f[h] \in Int /\ g[h] \in Int
  BY <1>4, <1>5, PointNumber
<1>12. r \in Maps
  BY <1>11 DEF Maps
<1> HIDE DEF r
<1>13. Polynomial(r, Threshold)
  <2>1. \A h \in Points : Cong(r[h], 1 * f[h] + 1 * g[h], SharePrime)
    BY <1>0, <1>11, CongRefl
  <2> QED BY <1>4, <1>5, <1>10, <1>12, <2>1, PolynomialSum
<1>14. Cong(r[0], te + e, SharePrime)
  <2> DEFINE x0 == f[0]
  <2>1. x0 \in Int /\ e \in Int /\ r[0] = x0 + e /\ Cong(x0, te, SharePrime)
    BY <1>4, <1>5, <1>10, <1>11
  <2> HIDE DEF x0
  <2>2. Cong(e, e, SharePrime)
    BY <1>0, <2>1, CongRefl
  <2> QED BY <1>0, <1>3, <2>1, <2>2, CongAdd
<1>15. \A h \in 1..Shares :
        /\ summed'[h] \in 0..(SharePrime - 1)
        /\ Cong(summed'[h], r[h], SharePrime)
  <2> SUFFICES ASSUME NEW h \in 1..Shares
               PROVE  summed'[h] \in 0..(SharePrime - 1) /\ Cong(summed'[h], r[h], SharePrime)
    OBVIOUS
  <2> DEFINE share == g[h]
             old == f[h]
             y == summed[h]
  <2>1. /\ share \in Int /\ old \in Int /\ y \in Int /\ r[h] = old + share
        /\ Cong(y, old, SharePrime) /\ Cong(share, share, SharePrime)
    <3>1. y \in 0..(SharePrime - 1)
      BY <1>0
    <3>2. share \in Int /\ old \in Int /\ r[h] = old + share
      BY <1>10, <1>11
    <3>3. Cong(share, share, SharePrime)
      BY <1>0, <3>2, CongRefl
    <3> QED BY <1>0, <1>4, <3>1, <3>2, <3>3
  <2>2. summed'[h] = (y + share) % SharePrime
    BY <1>0, <1>5 DEF e
  <2> HIDE DEF share, old, y
  <2>3. y + share \in Int /\ old + share \in Int
    BY <2>1
  <2>4. Cong(y + share, old + share, SharePrime)
    BY <1>0, <2>1, CongAdd
  <2>5. summed'[h] \in 0..(SharePrime - 1) /\ Cong(summed'[h], y + share, SharePrime)
    BY <1>0, <2>2, <2>3, ModRange
  <2>6. summed'[h] \in Int
    BY <1>0, <2>5
  <2>7. Cong(summed'[h], old + share, SharePrime)
    BY <1>0, <2>3, <2>4, <2>5, <2>6, CongTrans
  <2> QED BY <2>1, <2>5, <2>7
<1>6. AgTyped'
  <2>1. summed' \in [1..Shares -> 0..(SharePrime - 1)]
    <3>1. summed' = [h \in 1..Shares |-> summed'[h]]
      BY <1>0
    <3> QED BY <1>15, <3>1
  <2>2. Len(released') <= MaxContributions
    BY <1>0, <1>1
  <2> QED BY <1>0, <1>1, <2>1, <2>2, ReleasesSame DEF AgTyped
<1>7. CurveOf(contribs', released', drift', summed')
  <2>1. contribs' = <<>> /\ drift' = 0
    BY <1>0, <1>2 DEF CurveOf
  <2>2. Cong(r[0], TotalOf(EncodedOf(released', SharePrime)), SharePrime)
    BY <1>3, <1>14
  <2> QED BY <1>12, <1>13, <1>15, <2>1, <2>2 DEF CurveOf
<1>8. ServersHold' /\ HoldersHold'
  BY <1>0, <1>7, HoldIs
<1>9. PublishedTrue'
  BY <1>0, PublishedIs DEF PublishedOf
<1> QED BY <1>6, <1>8, <1>9 DEF AgInd

\* Publishing.
LEMMA PublishKeeps ==
  ASSUME AgInd, AggregateShares \/ SecureMean
  PROVE  AgInd'
<1>0. /\ UNCHANGED <<scheme, released, contribs, summed, drift>>
      /\ AgTyped
  BY DEF AggregateShares, SecureMean, AgInd
<1>1. AgTyped' /\ ServersHold' /\ HoldersHold'
  <2>1. AgTyped'
    BY <1>0, ReleasesSame DEF AgTyped
  <2> QED BY <1>0, <2>1, HoldIs DEF AgInd
<1>2. CASE AggregateShares
  <2>1. outcome' = AggregateFrom(contribs) /\ contribs # <<>>
    BY <1>2, AggregateIs DEF AggregateShares
  <2>2. scheme = "two_server"
    BY <1>0, <2>1, HoldIs DEF AgInd, AgTyped, CurveOf
  <2>3. Len(released) = Len(contribs)
    BY <2>2, HoldIs DEF AgInd, HoldOf
  <2>4. released # <<>>
    <3>1. Len(contribs) \in Nat /\ Len(contribs) # 0
      BY <1>0, <2>1, LenProperties, EmptySeq DEF AgTyped
    <3> QED BY <2>3, <3>1, EmptySeq
  <2>5. PublishedTrue'
    BY <1>0, <2>1, <2>2, <2>4, PublishedIs DEF PublishedOf
  <2> QED BY <1>1, <2>5 DEF AgInd
<1>3. CASE SecureMean
  <2>1. outcome' = ResultOf(summed, Len(released)) /\ released # <<>> /\ scheme = "shamir"
    BY <1>3 DEF SecureMean, ResultOf
  <2>2. PublishedTrue'
    BY <1>0, <2>1, PublishedIs DEF PublishedOf
  <2> QED BY <1>1, <2>2 DEF AgInd
<1> QED BY <1>2, <1>3

\* It is kept by every step of clients, servers and holders.
LEMMA AgIndStep == AgInd /\ [AgNext]_agVars => AgInd'
<1> SUFFICES ASSUME AgInd, [AgNext]_agVars PROVE AgInd'
  OBVIOUS
<1>0. MaskValues \subseteq 0..(FieldQ - 1)
  BY SharesAssumption
<1>1. ASSUME NEW x \in UpdateValues, NEW mask \in MaskValues, Contribute(x, mask)
      PROVE  AgInd'
  <2>1. x \in Releases /\ mask \in 0..(FieldQ - 1)
    BY <1>0, <1>1 DEF Releases
  <2> QED BY <1>1, <2>1, ContributeKeeps
<1>2. ASSUME NEW x \in UpdateValues, NEW mask \in MaskValues, NEW noise \in NoiseValues,
             ContributePrivately(x, noise, mask)
      PROVE  AgInd'
  <2>1. L2Clip(x) + noise \in Releases /\ mask \in 0..(FieldQ - 1)
    BY <1>0, <1>2 DEF Releases
  <2>2. Contribute(L2Clip(x) + noise, mask)
    BY <1>2 DEF ContributePrivately
  <2> QED BY <2>1, <2>2, ContributeKeeps
<1>3. ASSUME NEW i \in 1..Len(contribs), NEW v \in MaskValues, AlterShare(i, v)
      PROVE  AgInd'
  BY <1>3, AlterAKeeps, AlterBKeeps DEF AlterShare
<1>4. CASE AggregateShares
  BY <1>4, PublishKeeps
<1>5. ASSUME NEW x \in UpdateValues, NEW coeffs \in Coefficients, ShareOut(x, coeffs)
      PROVE  AgInd'
  <2>1. x \in Releases
    BY <1>5 DEF Releases
  <2> QED BY <1>5, <2>1, ShareOutKeeps
<1>6. CASE SecureMean
  BY <1>6, PublishKeeps
<1>7. CASE UNCHANGED agVars
  <2>1. AgTyped'
    BY <1>7, ReleasesSame DEF AgInd, AgTyped, agVars
  <2>2. ServersHold' /\ HoldersHold' /\ PublishedTrue'
    BY <1>7, HoldIs, PublishedIs DEF AgInd, agVars
  <2> QED BY <2>1, <2>2 DEF AgInd
<1> QED BY <1>1, <1>2, <1>3, <1>4, <1>5, <1>6, <1>7 DEF AgNext

\* It keeps shares and releases within their types.
LEMMA AgIndTypes == AgInd => AgTypeOK
<1> SUFFICES ASSUME AgInd PROVE AgTypeOK
  OBVIOUS
<1>1. /\ released \in Seq(Releases) /\ Len(released) <= MaxContributions /\ Len(released) \in Nat
      /\ MaxContributions \in Nat /\ contribs \in Seq(ClientShares)
      /\ scheme \in {"two_server", "shamir"}
      /\ drift \in 0..(FieldQ - 1) /\ summed \in [1..Shares -> 0..(SharePrime - 1)]
  BY LenProperties, SharesAssumption DEF AgInd, AgTyped
<1>2. \A i \in DOMAIN contribs :
        /\ contribs[i].a \in 0..(FieldQ - 1) /\ contribs[i].b \in 0..(FieldQ - 1)
        /\ contribs[i].commitment \in 1..(GroupP - 1)
  <2> TAKE i \in DOMAIN contribs
  <2>1. contribs[i] \in ClientShares
    BY <1>1, ElementOfSeq, LenProperties
  <2> QED BY <2>1 DEF ClientShares
<1>3. outcome.clients \in 0..MaxContributions
  <2>1. CASE outcome = Unpublished
    BY <1>1, <2>1 DEF Unpublished
  <2>2. CASE outcome # Unpublished /\ scheme = "two_server"
    <3>1. outcome = AggregateFrom(contribs)
      BY <2>2, PublishedIs DEF AgInd, PublishedOf
    <3>2. Len(contribs) = Len(released)
      BY <2>2, HoldIs DEF AgInd, HoldOf
    <3> QED BY <1>1, <3>1, <3>2 DEF AggregateFrom
  <2>3. CASE outcome # Unpublished /\ scheme = "shamir"
    <3>1. outcome = ResultOf(summed, Len(released))
      BY <2>3, PublishedIs DEF AgInd, PublishedOf
    <3> QED BY <1>1, <3>1 DEF ResultOf
  <2> QED BY <1>1, <2>1, <2>2, <2>3
<1> QED BY <1>1, <1>2, <1>3 DEF AgTypeOK

\* What clients released, to the nearest quantum.
QuantaOf(rs) == [i \in 1..Len(rs) |-> Quantise(rs[i])]

\* Its sum is near a tenth of theirs, fits either field, and is what the sum of the
\* encoded numbers decodes to.
LEMMA QuantaFit ==
  ASSUME NEW rs \in Seq(Releases), Len(rs) <= MaxContributions, rs # <<>>,
         NEW q \in {FieldQ, SharePrime}, NEW e \in Int, Cong(e, TotalOf(EncodedOf(rs, q)), q)
  PROVE  /\ TotalOf(QuantaOf(rs)) \in Int /\ TotalOf(rs) \in Int
         /\ -(5 * Len(rs)) <= 10 * TotalOf(QuantaOf(rs)) - TotalOf(rs)
         /\ 10 * TotalOf(QuantaOf(rs)) - TotalOf(rs) <= 5 * Len(rs)
         /\ Decode(e, q) = TotalOf(QuantaOf(rs))
<1> DEFINE s == QuantaOf(rs)
           t == EncodedOf(rs, q)
           M == MaxContributions
           n == Len(rs)
<1>0. /\ q \in Nat /\ q > 1 /\ M \in Nat /\ n \in Nat /\ n <= M /\ n > 0
  <2>1. FieldQ \in Nat /\ FieldQ > 1 /\ SharePrime \in Nat /\ SharePrime > 1 /\ M \in Nat
    BY SharesAssumption
  <2>2. n \in Nat /\ n # 0
    BY EmptySeq, LenProperties
  <2> QED BY <2>1, <2>2
<1>1. \A i \in 1..n : /\ rs[i] \in Int /\ Quantise(rs[i]) \in Int /\ Encode(rs[i], q) \in Int
                      /\ Cong(Encode(rs[i], q), Quantise(rs[i]), q)
                      /\ -5 <= 10 * Quantise(rs[i]) - rs[i] /\ 10 * Quantise(rs[i]) - rs[i] <= 5
                      /\ 2 * M * Quantise(rs[i]) < q /\ -(2 * M * Quantise(rs[i])) < q
  <2> TAKE i \in 1..n
  <2>1. rs[i] \in Releases
    BY <1>0, ElementOfSeq
  <2>2. rs[i] \in Int /\ 2 * M * Quantise(rs[i]) < q /\ -(2 * M * Quantise(rs[i])) < q
    BY <2>1, ReleaseFacts
  <2>3. Quantise(rs[i]) \in Int /\ -5 <= 10 * Quantise(rs[i]) - rs[i] /\ 10 * Quantise(rs[i]) - rs[i] <= 5
    BY <2>2, Quantised
  <2>4. Encode(rs[i], q) \in 0..(q - 1) /\ Cong(Encode(rs[i], q), Quantise(rs[i]), q)
    <3>1. q \in Nat /\ q > 0 /\ rs[i] \in Int
      BY <1>0, <2>2
    <3> QED BY ONLY <3>1, Encoded
  <2>5. Encode(rs[i], q) \in Int
    BY <1>0, <2>4
  <2> QED BY <2>2, <2>3, <2>4, <2>5
<1>2. /\ s \in Seq(Int) /\ Len(s) = n /\ \A i \in 1..n : s[i] = Quantise(rs[i])
  BY <1>0, <1>1, IsASeq, LenProperties DEF QuantaOf
<1>3. /\ t \in Seq(Int) /\ Len(t) = n /\ \A i \in 1..n : t[i] = Encode(rs[i], q)
  BY <1>0, <1>1, IsASeq, LenProperties DEF EncodedOf
<1>4. rs \in Seq(Int)
  <2>1. Len(rs) \in Nat /\ rs = [i \in 1..Len(rs) |-> rs[i]]
    BY <1>0, LenProperties
  <2> QED BY <1>1, <2>1, IsASeq
<1> HIDE DEF s, t, M, n
<1>5. TotalOf(s) \in Int /\ TotalOf(rs) \in Int /\ TotalOf(t) \in Int
  BY <1>2, <1>3, <1>4, TotalNumber
<1>6. -(5 * n) <= 10 * TotalOf(s) - TotalOf(rs) /\ 10 * TotalOf(s) - TotalOf(rs) <= 5 * n
  <2>1. \A i \in 1..Len(s) : -5 <= 10 * s[i] - rs[i] /\ 10 * s[i] - rs[i] <= 5
    BY <1>1, <1>2
  <2>2. Len(s) = Len(rs)
    BY <1>2 DEF n
  <2> QED BY <1>2, <1>4, <2>1, <2>2, TotalNear
<1>7. Cong(TotalOf(t), TotalOf(s), q)
  <2>1. \A i \in 1..Len(t) : Cong(t[i], s[i], q)
    BY <1>1, <1>2, <1>3
  <2> QED BY <1>0, <1>2, <1>3, <2>1, TotalCong
<1> DEFINE hi == (q - 1) \div (2 * M)
<1>8. hi \in Nat /\ 2 * M * hi <= q - 1 /\ \A x \in Int : 2 * M * x <= q - 1 => x <= hi
  <2> DEFINE m == 2 * M
             d == q - 1
  <2>1. m \in Nat /\ m > 0 /\ d \in Nat
    BY <1>0
  <2> HIDE DEF m, d
  <2>2. d \div m \in Int /\ d % m \in 0..(m - 1) /\ d = m * (d \div m) + (d % m)
    BY <2>1
  <2> DEFINE k == d \div m
             r == d % m
  <2> HIDE DEF k, r
  <2>3. k \in Int /\ r \in 0..(m - 1) /\ d = m * k + r
    BY <2>2 DEF k, r
  <2>4. m * k <= d
    BY <2>1, <2>3
  <2>5. \A x \in Int : m * x <= d => x <= k
    <3> SUFFICES ASSUME NEW x \in Int, m * x <= d, x >= k + 1 PROVE FALSE
      BY <2>3
    <3>1. m * x >= m * (k + 1)
      BY <2>1, <2>3
    <3>2. m * (k + 1) = m * k + m
      BY <2>1, <2>3
    <3> QED BY <2>1, <2>3, <3>1, <3>2
  <2>6. k >= 0
    <3>1. m * 0 <= d
      BY <2>1
    <3>2. 0 <= k
      BY <2>5, <3>1
    <3> QED BY <3>2
  <2> QED BY <2>3, <2>4, <2>5, <2>6 DEF m, d, k
<1> HIDE DEF hi
<1>9. \A i \in DOMAIN s : -hi <= s[i] /\ s[i] <= hi
  <2> TAKE i \in DOMAIN s
  <2>1. i \in 1..n
    BY <1>2, LenProperties
  <2>2. s[i] \in Int /\ 2 * M * s[i] < q /\ -(2 * M * s[i]) < q
    BY <1>1, <1>2, <2>1
  <2>3. 2 * M * s[i] <= q - 1 /\ 2 * M * (-s[i]) <= q - 1
    <3> DEFINE x == s[i]
    <3> HIDE DEF x
    <3>1. x \in Int /\ 2 * M * x < q /\ -(2 * M * x) < q
      BY <2>2 DEF x
    <3>2. 2 * M * (-x) = -(2 * M * x) /\ 2 * M * x \in Int
      BY <1>0, <3>1
    <3>3. 2 * M * x <= q - 1 /\ 2 * M * (-x) <= q - 1
      BY <1>0, <3>1, <3>2
    <3> QED BY <3>3 DEF x
  <2>4. s[i] <= hi /\ -s[i] <= hi
    BY <1>8, <2>2, <2>3
  <2> QED BY <1>8, <2>2, <2>4
<1>10. n * (-hi) <= TotalOf(s) /\ TotalOf(s) <= n * hi
  <2>1. -hi \in Int /\ hi \in Int
    BY <1>8
  <2> QED BY <1>2, <1>9, <2>1, TotalWithin
<1>11. 2 * TotalOf(s) < q /\ -(2 * TotalOf(s)) < q
  <2>1. n * hi <= M * hi
    BY <1>0, <1>8
  <2>2. n * (-hi) = -(n * hi) /\ n * hi \in Int /\ M * hi \in Int /\ 2 * M * hi = 2 * (M * hi)
    BY <1>0, <1>8
  <2> DEFINE a == n * hi
             b == M * hi
             x == TotalOf(s)
  <2>3. /\ a \in Int /\ b \in Int /\ x \in Int /\ a <= b /\ 2 * b <= q - 1
        /\ -a <= x /\ x <= a
    BY <1>5, <1>8, <1>10, <2>1, <2>2
  <2> HIDE DEF a, b, x
  <2>4. 2 * x < q /\ -(2 * x) < q
    BY <1>0, <2>3
  <2> QED BY <2>4 DEF x
<1>12. Cong(e, TotalOf(s), q)
  <2>1. Cong(e, TotalOf(t), q)
    BY DEF t
  <2> QED BY <1>0, <1>5, <1>7, <2>1, CongTrans
<1>13. Decode(e, q) = TotalOf(s)
  BY <1>0, <1>5, <1>11, <1>12, Decoded
<1> QED BY <1>5, <1>6, <1>13 DEF s, n

\* What the servers hold, as sums.
LEMMA ServersFacts ==
  ASSUME AgInd, scheme = "two_server"
  PROVE  /\ TotalOf(EncodedOf(released, FieldQ)) \in Nat
         /\ Committed = Pw(TotalOf(EncodedOf(released, FieldQ)))
         /\ ServerSum("a") \in Int /\ ServerSum("b") \in Int
         /\ Cong(ServerSum("a") + ServerSum("b"),
                 TotalOf(EncodedOf(released, FieldQ)) + drift, FieldQ)
         /\ Len(contribs) = Len(released)
<1> DEFINE t == EncodedOf(released, FieldQ)
           e == TotalOf(t)
           ra == TotalOf(SideOf(contribs, "a"))
           rb == TotalOf(SideOf(contribs, "b"))
<1>0. /\ contribs \in Seq(ClientShares) /\ released \in Seq(Releases) /\ drift \in Int
      /\ FieldQ \in Nat /\ FieldQ > 0 /\ Len(released) \in Nat
  BY SharesAssumption, LenProperties DEF AgInd, AgTyped
<1>1. HoldOf(contribs, released, drift)
  BY HoldIs DEF AgInd
<1>2. \A i \in 1..Len(released) : Encode(released[i], FieldQ) \in Nat
  <2> TAKE i \in 1..Len(released)
  <2>1. released[i] \in Releases
    BY <1>0, ElementOfSeq
  <2>2. released[i] \in Int
    BY <2>1, ReleaseFacts
  <2>3. Encode(released[i], FieldQ) \in 0..(FieldQ - 1)
    BY <1>0, <2>2, Encoded
  <2> QED BY <1>0, <2>3
<1>3. t \in Seq(Int) /\ Len(t) = Len(released)
      /\ \A i \in 1..Len(released) : t[i] = Encode(released[i], FieldQ)
  <2>1. \A i \in 1..Len(released) : Encode(released[i], FieldQ) \in Int
    BY <1>2
  <2> QED BY <1>0, <2>1, IsASeq, LenProperties DEF EncodedOf
<1>4. Len(contribs) = Len(released)
  BY <1>1 DEF HoldOf
<1> HIDE DEF t
<1>5. \A i \in 1..Len(contribs) : t[i] >= 0 /\ contribs[i].commitment = Pw(t[i])
  <2> TAKE i \in 1..Len(contribs)
  <2>1. t[i] = Encode(released[i], FieldQ) /\ t[i] \in Nat
    BY <1>2, <1>3, <1>4
  <2>2. contribs[i].commitment = Pw(Encode(released[i], FieldQ))
    BY <1>1 DEF HoldOf
  <2> QED BY <2>1, <2>2
<1>6. e \in Nat /\ Committed = Pw(e)
  BY <1>0, <1>3, <1>4, <1>5, CommittedIs
<1>7. /\ ServerSum("a") \in Int /\ Cong(ServerSum("a"), TotalOf(SidesOf("a")), FieldQ)
      /\ ServerSum("b") \in Int /\ Cong(ServerSum("b"), TotalOf(SidesOf("b")), FieldQ)
  <2>1. "a" \in {"a", "b"} /\ "b" \in {"a", "b"}
    OBVIOUS
  <2> QED BY <1>0, <2>1, ServerSumIs
<1>8. SidesOf("a") = SideOf(contribs, "a") /\ SidesOf("b") = SideOf(contribs, "b")
  BY DEF SidesOf, SideOf
<1>9. ra \in Int /\ rb \in Int
  BY <1>0, SideNumbers, TotalNumber
<1>10. Cong(ra + rb, e + drift, FieldQ)
  BY <1>1 DEF HoldOf, t
<1>11. Cong(ServerSum("a"), ra, FieldQ) /\ Cong(ServerSum("b"), rb, FieldQ)
  BY <1>7, <1>8
<1> DEFINE sa == ServerSum("a")
           sb == ServerSum("b")
<1>12. sa \in Int /\ sb \in Int
  BY <1>7
<1> HIDE DEF e, ra, rb, sa, sb
<1>13. Cong(sa + sb, ra + rb, FieldQ)
  BY <1>0, <1>9, <1>11, <1>12, CongAdd DEF sa, sb
<1>14. sa + sb \in Int /\ ra + rb \in Int /\ e + drift \in Int
  BY <1>0, <1>6, <1>9, <1>12
<1>15. Cong(sa + sb, e + drift, FieldQ)
  BY <1>0, <1>10, <1>13, <1>14, CongTrans
<1> QED BY <1>4, <1>6, <1>12, <1>15 DEF e, t, sa, sb

\* The commitments verify what is congruent to what the clients encoded, and nothing else.
LEMMA ServersVerify ==
  ASSUME AgInd, scheme = "two_server", NEW s \in 0..(FieldQ - 1)
  PROVE  VerifyAgainstCommitments(s) <=> Cong(s, TotalOf(EncodedOf(released, FieldQ)), FieldQ)
<1> DEFINE e == TotalOf(EncodedOf(released, FieldQ))
<1>1. e \in Nat /\ Committed = Pw(e)
  BY ServersFacts
<1>2. FieldQ \in Nat /\ s \in Nat /\ s % FieldQ = s
  BY SharesAssumption
<1>3. VerifyAgainstCommitments(s) <=> Pw(s) = Committed
  BY <1>2 DEF VerifyAgainstCommitments, Committed, Pw
<1> HIDE DEF e
<1>4. Pw(s) = Pw(e) <=> Cong(s, e, FieldQ)
  BY <1>1, <1>2, PowerSame
<1> QED BY <1>1, <1>3, <1>4 DEF e

\* What the two servers publish.
LEMMA ServersPublish ==
  ASSUME AgInd, scheme = "two_server", outcome # Unpublished
  PROVE  /\ outcome.verified <=> drift = 0
         /\ outcome.verified =>
              Absolute(10 * outcome.sum - SumOfReleased) <= 5 * outcome.clients
<1> DEFINE e == TotalOf(EncodedOf(released, FieldQ))
           sa == ServerSum("a")
           sb == ServerSum("b")
           s == (sa + sb) % FieldQ
<1>0. /\ outcome = [verified |-> VerifyAgainstCommitments(s),
                    sum |-> Decode(s, FieldQ), clients |-> Len(contribs)]
      /\ released \in Seq(Releases) /\ Len(released) <= MaxContributions /\ released # <<>>
      /\ drift \in 0..(FieldQ - 1)
  <2>1. outcome = AggregateOf /\ released # <<>>
    BY DEF AgInd, PublishedTrue
  <2> QED BY <2>1 DEF AggregateOf, AgInd, AgTyped
<1>1. FieldQ \in Nat /\ FieldQ > 0 /\ 0 \in 0..(FieldQ - 1) /\ 0 \in Int /\ drift \in Int
  BY <1>0, SharesAssumption
<1>2. /\ e \in Nat /\ e \in Int /\ sa \in Int /\ sb \in Int /\ Cong(sa + sb, e + drift, FieldQ)
      /\ Len(contribs) = Len(released)
  BY ServersFacts
<1> HIDE DEF e, sa, sb
<1>3. /\ s \in 0..(FieldQ - 1) /\ Cong(s, sa + sb, FieldQ) /\ sa + sb \in Int /\ e + drift \in Int
  <2>1. sa + sb \in Int /\ e + drift \in Int
    BY <1>1, <1>2
  <2> QED BY <1>1, <2>1, ModRange
<1> HIDE DEF s
<1>4. VerifyAgainstCommitments(s) <=> Cong(s, e, FieldQ)
  BY <1>3, ServersVerify DEF e
<1>5. s \in Int
  BY <1>1, <1>3
<1>6. Cong(s, e + drift, FieldQ)
  BY <1>1, <1>2, <1>3, <1>5, CongTrans
<1>7. drift = 0 => Cong(s, e, FieldQ)
  <2>1. drift = 0 => e + drift = e
    BY <1>2
  <2> QED BY <1>6, <2>1
<1>8. Cong(s, e, FieldQ) => drift = 0
  <2> SUFFICES ASSUME Cong(s, e, FieldQ) PROVE drift = 0
    OBVIOUS
  <2>1. Cong(e + drift, s, FieldQ)
    BY <1>1, <1>3, <1>5, <1>6, CongSym
  <2>2. Cong(e + drift, e, FieldQ)
    BY <1>1, <1>2, <1>3, <1>5, <2>1, CongTrans
  <2>3. -e \in Int /\ Cong(-e, -e, FieldQ)
    BY <1>1, <1>2, CongRefl
  <2>4. Cong((e + drift) + (-e), e + (-e), FieldQ)
    BY <1>1, <1>2, <1>3, <2>2, <2>3, CongAdd
  <2>5. (e + drift) + (-e) = drift /\ e + (-e) = 0
    BY <1>1, <1>2
  <2>6. Cong(drift, 0, FieldQ)
    BY <2>4, <2>5
  <2> QED BY <1>0, <1>1, <2>6, CongSame
<1>9. Cong(s, e, FieldQ) => Absolute(10 * outcome.sum - SumOfReleased) <= 5 * outcome.clients
  <2> SUFFICES ASSUME Cong(s, e, FieldQ)
               PROVE  Absolute(10 * outcome.sum - SumOfReleased) <= 5 * outcome.clients
    OBVIOUS
  <2> DEFINE d == TotalOf(QuantaOf(released))
             r == TotalOf(released)
             n == Len(released)
  <2>0. FieldQ \in {FieldQ, SharePrime}
    OBVIOUS
  <2>1. /\ d \in Int /\ r \in Int /\ -(5 * n) <= 10 * d - r /\ 10 * d - r <= 5 * n
        /\ Decode(s, FieldQ) = d
    BY <1>0, <1>5, <2>0, QuantaFit DEF e
  <2>2. SumOfReleased = r
    BY DEF SumOfReleased, TotalOf
  <2>3. outcome.sum = d /\ outcome.clients = n
    BY <1>0, <1>2, <2>1
  <2>4. n \in Nat
    BY <1>0, LenProperties
  <2> HIDE DEF d, r, n
  <2> QED BY <2>1, <2>2, <2>3, <2>4 DEF Absolute
<1> QED BY <1>0, <1>4, <1>7, <1>8, <1>9

\* No other sum verifies.
LEMMA ServersOnly ==
  ASSUME AgInd, scheme = "two_server", NEW s \in 0..(FieldQ - 1), VerifyAgainstCommitments(s)
  PROVE  s = (ServerSum("a") + ServerSum("b") - drift) % FieldQ
<1> DEFINE e == TotalOf(EncodedOf(released, FieldQ))
           x == ServerSum("a") + ServerSum("b")
<1>1. FieldQ \in Nat /\ FieldQ > 0 /\ drift \in Int /\ s \in Int
  BY SharesAssumption DEF AgInd, AgTyped
<1>2. e \in Int /\ x \in Int /\ Cong(x, e + drift, FieldQ)
  BY ServersFacts
<1>3. Cong(s, e, FieldQ)
  BY ServersVerify
<1>4. ServerSum("a") + ServerSum("b") - drift = x - drift
  <2>1. ServerSum("a") \in Int /\ ServerSum("b") \in Int
    BY ServersFacts
  <2> QED BY <1>1, <2>1
<1> HIDE DEF e, x
<1>5. -drift \in Int /\ Cong(-drift, -drift, FieldQ) /\ e + drift \in Int
  BY <1>1, <1>2, CongRefl
<1>6. Cong(x + (-drift), (e + drift) + (-drift), FieldQ)
  BY <1>1, <1>2, <1>5, CongAdd
<1>7. x + (-drift) = x - drift /\ (e + drift) + (-drift) = e /\ x - drift \in Int
  BY <1>1, <1>2
<1>8. Cong(x - drift, e, FieldQ)
  BY <1>6, <1>7
<1>9. Cong(e, x - drift, FieldQ)
  BY <1>1, <1>2, <1>7, <1>8, CongSym
<1>10. Cong(s, x - drift, FieldQ)
  BY <1>1, <1>2, <1>3, <1>7, <1>9, CongTrans
<1>11. s % FieldQ = (x - drift) % FieldQ
  BY <1>1, <1>7, <1>10, CongMod
<1>12. s % FieldQ = s
  BY <1>1
<1> QED BY <1>4, <1>11, <1>12

\* Both servers together see a client's release.
LEMMA ServersSee ==
  ASSUME AgInd, drift = 0, Len(contribs) = 1
  PROVE  Reconstruct(1) = Quantise(released[1])
<1>1. scheme = "two_server"
  <2>1. contribs # <<>>
    BY EmptySeq
  <2> QED BY <2>1, HoldIs DEF AgInd, CurveOf, AgTyped
<1>2. /\ contribs \in Seq(ClientShares) /\ released \in Seq(Releases) /\ FieldQ \in Nat /\ FieldQ > 0
      /\ Len(released) = 1 /\ Len(released) <= MaxContributions
  BY <1>1, ServersFacts, SharesAssumption DEF AgInd, AgTyped
<1>3. \A s \in Seq(Int) : Len(s) = 1 => TotalOf(s) = s[1]
  <2> TAKE s \in Seq(Int)
  <2> HAVE Len(s) = 1
  <2>1. PICK h \in [0..Len(s) -> Int] :
          h[0] = 0 /\ (\A n \in 1..Len(s) : h[n] = (h[n - 1] + s[n])) /\ TotalOf(s) = h[Len(s)]
    BY TotalSteps
  <2>2. 1 \in 1..Len(s) /\ s[1] \in Int
    BY ElementOfSeq
  <2>3. h[1] = h[1 - 1] + s[1]
    BY <2>1, <2>2
  <2> QED BY <2>1, <2>2, <2>3
<1>4. released[1] \in Releases
  BY <1>2, ElementOfSeq
<1>5. released[1] \in Int /\ released # <<>> /\ FieldQ \in {FieldQ, SharePrime}
  BY <1>2, <1>4, ReleaseFacts, EmptySeq
<1>6. HoldOf(contribs, released, drift)
  BY <1>1, HoldIs DEF AgInd
<1>7. \A side \in {"a", "b"} : TotalOf(SideOf(contribs, side)) = contribs[1][side]
                               /\ contribs[1][side] \in Int
  <2> TAKE side \in {"a", "b"}
  <2>1. SideOf(contribs, side) \in Seq(Int) /\ Len(SideOf(contribs, side)) = 1
        /\ SideOf(contribs, side)[1] = contribs[1][side]
    BY <1>2, SideNumbers
  <2>2. SideOf(contribs, side)[1] \in Int
    BY <2>1, ElementOfSeq
  <2> QED BY <1>3, <2>1, <2>2
<1> DEFINE y == contribs[1].a + contribs[1].b
           e == TotalOf(EncodedOf(released, FieldQ))
<1>8. y \in Int /\ e \in Int
  BY <1>1, <1>7, ServersFacts
<1>9. Cong(y, e, FieldQ)
  <2>1. Cong(contribs[1].a + contribs[1].b, e + drift, FieldQ)
    BY <1>6, <1>7 DEF HoldOf
  <2> HIDE DEF e
  <2>2. e + drift = e
    BY <1>8
  <2> QED BY <2>1, <2>2
<1>10. Decode(y, FieldQ) = TotalOf(QuantaOf(released))
  <2> HIDE DEF y
  <2> QED BY <1>2, <1>5, <1>8, <1>9, QuantaFit
<1>11. TotalOf(QuantaOf(released)) = Quantise(released[1])
  <2>1. Quantise(released[1]) \in Int
    BY <1>5, Quantised
  <2>2. QuantaOf(released) = [i \in 1..1 |-> Quantise(released[i])]
    BY <1>2 DEF QuantaOf
  <2>3. \A i \in 1..1 : Quantise(released[i]) \in Int
    BY <2>1
  <2>4. QuantaOf(released) \in Seq(Int) /\ Len(QuantaOf(released)) = 1
        /\ QuantaOf(released)[1] = Quantise(released[1])
    BY <2>2, <2>3, IsASeq, LenProperties
  <2> QED BY <1>3, <2>4
<1> QED BY <1>10, <1>11 DEF Reconstruct

\* A sum of numbers that are combinations of others is that combination of their sums.
LEMMA TotalLinear ==
  ASSUME NEW q \in Nat, NEW a \in Int, NEW b \in Int,
         NEW s \in Seq(Int), NEW t \in Seq(Int), NEW u \in Seq(Int),
         Len(s) = Len(t), Len(s) = Len(u),
         \A i \in 1..Len(s) : Cong(s[i], a * t[i] + b * u[i], q)
  PROVE  Cong(TotalOf(s), a * TotalOf(t) + b * TotalOf(u), q)
<1>0. Len(s) \in Nat /\ \A i \in 1..Len(s) : s[i] \in Int /\ t[i] \in Int /\ u[i] \in Int
  BY LenProperties
<1>1. PICK f \in [0..Len(s) -> Int] :
        /\ f[0] = 0
        /\ \A n \in 1..Len(s) : f[n] = (f[n - 1] + s[n])
        /\ TotalOf(s) = f[Len(s)]
  BY TotalSteps
<1>2. PICK g \in [0..Len(t) -> Int] :
        /\ g[0] = 0
        /\ \A n \in 1..Len(t) : g[n] = (g[n - 1] + t[n])
        /\ TotalOf(t) = g[Len(t)]
  BY TotalSteps
<1>3. PICK h \in [0..Len(u) -> Int] :
        /\ h[0] = 0
        /\ \A n \in 1..Len(u) : h[n] = (h[n - 1] + u[n])
        /\ TotalOf(u) = h[Len(u)]
  BY TotalSteps
<1> DEFINE Linear(n) == n <= Len(s) => Cong(f[n], a * g[n] + b * h[n], q)
           P == {n \in Nat : Linear(n)}
<1>4. Linear(0)
  <2>1. a * 0 + b * 0 = 0 /\ 0 \in Int
    OBVIOUS
  <2>2. Cong(0, a * 0 + b * 0, q)
    BY <2>1, CongRefl
  <2> QED BY <1>1, <1>2, <1>3, <2>2
<1>5. \A n \in Nat : Linear(n) => Linear(n + 1)
  <2> SUFFICES ASSUME NEW n \in Nat, Linear(n), n + 1 <= Len(s) PROVE Linear(n + 1)
    OBVIOUS
  <2>1. /\ n + 1 \in 1..Len(s) /\ n \in 0..Len(s) /\ n + 1 - 1 = n /\ n <= Len(s)
    BY <1>0
  <2>2. f[n + 1] = f[n] + s[n + 1] /\ f[n] \in Int /\ s[n + 1] \in Int
    <3>1. f[n + 1] = f[n + 1 - 1] + s[n + 1]
      BY <1>1, <2>1
    <3>2. f[n] \in Int
      BY <2>1
    <3>3. s[n + 1] \in Int
      BY <1>0, <2>1
    <3> QED BY <2>1, <3>1, <3>2, <3>3
  <2>3. g[n + 1] = g[n] + t[n + 1] /\ g[n] \in Int /\ t[n + 1] \in Int
    <3>1. g[n + 1] = g[n + 1 - 1] + t[n + 1]
      BY <1>2, <2>1
    <3>2. g[n] \in Int
      BY <2>1
    <3>3. t[n + 1] \in Int
      BY <1>0, <2>1
    <3> QED BY <2>1, <3>1, <3>2, <3>3
  <2>4. h[n + 1] = h[n] + u[n + 1] /\ h[n] \in Int /\ u[n + 1] \in Int
    <3>1. h[n + 1] = h[n + 1 - 1] + u[n + 1]
      BY <1>3, <2>1
    <3>2. h[n] \in Int
      BY <2>1
    <3>3. u[n + 1] \in Int
      BY <1>0, <2>1
    <3> QED BY <2>1, <3>1, <3>2, <3>3
  <2>5. Cong(f[n], a * g[n] + b * h[n], q) /\ Cong(s[n + 1], a * t[n + 1] + b * u[n + 1], q)
    BY <2>1
  <2> DEFINE f0 == f[n]
             g0 == g[n]
             h0 == h[n]
             s1 == s[n + 1]
             t1 == t[n + 1]
             u1 == u[n + 1]
  <2>6. /\ f0 \in Int /\ g0 \in Int /\ h0 \in Int /\ s1 \in Int /\ t1 \in Int /\ u1 \in Int
        /\ f[n + 1] = f0 + s1 /\ g[n + 1] = g0 + t1 /\ h[n + 1] = h0 + u1
        /\ Cong(f0, a * g0 + b * h0, q) /\ Cong(s1, a * t1 + b * u1, q)
    BY <2>2, <2>3, <2>4, <2>5
  <2> HIDE DEF f0, g0, h0, s1, t1, u1
  <2>7. a * g0 + b * h0 \in Int /\ a * t1 + b * u1 \in Int
    BY <2>6
  <2>8. Cong(f0 + s1, (a * g0 + b * h0) + (a * t1 + b * u1), q)
    BY <2>6, <2>7, CongAdd
  <2>9. (a * g0 + b * h0) + (a * t1 + b * u1) = a * (g0 + t1) + b * (h0 + u1)
    BY <2>6
  <2>10. Cong(f[n + 1], a * g[n + 1] + b * h[n + 1], q)
    BY <2>6, <2>8, <2>9
  <2> QED BY <2>10
<1> HIDE DEF Linear
<1>6. 0 \in P /\ \A n \in Nat : n \in P => n + 1 \in P
  BY <1>4, <1>5
<1>7. \A n \in Nat : n \in P
  <2> HIDE DEF P
  <2> QED BY <1>6, NatSets
<1>8. Linear(Len(s))
  BY <1>0, <1>7
<1>9. TotalOf(s) = f[Len(s)] /\ TotalOf(t) = g[Len(s)] /\ TotalOf(u) = h[Len(s)]
  BY <1>1, <1>2, <1>3
<1>10. Cong(f[Len(s)], a * g[Len(s)] + b * h[Len(s)], q)
  BY <1>0, <1>8 DEF Linear
<1> QED BY <1>9, <1>10

\* Products at a point, holder by holder.
Units == 1..(SharePrime - 1)
NextNumerator(x, y, c) == IF y = c THEN x ELSE (x * (-HolderPoint(y))) % SharePrime
NextDenominator(x, y, c) == IF y = c THEN x ELSE (x * (HolderPoint(c) - HolderPoint(y))) % SharePrime

\* A numerator, and a denominator, which is never zero.
LEMMA NumeratorSteps ==
  ASSUME NEW hs \in Seq(1..Shares), NEW c \in Units
  PROVE  \E h \in [0..Len(hs) -> Residues(SharePrime)] :
           /\ h[0] = 1
           /\ \A n \in 1..Len(hs) : h[n] = NextNumerator(h[n - 1], hs[n], c)
           /\ Numerator(hs, c) = h[Len(hs)]
<1> DEFINE op == [p \in (Residues(SharePrime)) \X (1..Shares) |-> NextNumerator(p[1], p[2], c)]
           base == 1
           body(it) == [t \in SUBSET (1..Len(hs)) |->
                          IF t = {} THEN base
                          ELSE NextNumerator(it[t \ {Max(t)}], hs[Max(t)], c)]
           iter == CHOOSE it : it = body(it)
<1>0. Len(hs) \in Nat /\ DOMAIN hs = 1..Len(hs) /\ hs \in Seq(1..Shares)
  BY LenProperties
<1>1. base \in Residues(SharePrime) /\ op \in [(Residues(SharePrime)) \X (1..Shares) -> Residues(SharePrime)]
  <2>1. base \in Residues(SharePrime)
    BY PrimeFacts DEF Residues
  <2>2. ASSUME NEW x \in Residues(SharePrime), NEW y \in 1..Shares PROVE NextNumerator(x, y, c) \in Residues(SharePrime)
    <3>1. x \in Int /\ y \in Int /\ SharePrime \in Nat /\ SharePrime > 0
      BY <2>2, PrimeFacts DEF Residues
    <3>2. x * (-y) \in Int
      BY <3>1
    <3> QED BY <2>2, <3>1, <3>2, ModRange DEF NextNumerator, HolderPoint, Residues
  <2> QED BY <2>1, <2>2
<1>2. \A x \in Residues(SharePrime), y \in 1..Shares : op[<<x, y>>] = NextNumerator(x, y, c)
  OBVIOUS
<1> HIDE DEF op, base
<1>3. PICK g \in [SUBSET (1..Len(hs)) -> Residues(SharePrime)] : FoldsTo(g, hs, base, op)
  BY <1>0, <1>1, FoldExists
<1>4. g = body(g)
  <2>1. \A t \in SUBSET (1..Len(hs)) :
          g[t] = IF t = {} THEN base ELSE NextNumerator(g[t \ {Max(t)}], hs[Max(t)], c)
    BY <1>0, <1>2, <1>3, FoldPlaces DEF FoldsTo
  <2> QED BY <2>1
<1>5. iter = body(iter)
  BY <1>4
<1>6. Numerator(hs, c) = iter[1..Len(hs)]
  BY <1>0 DEF Numerator, NextNumerator, FoldLeft, MapThenFoldSet, base
<1> HIDE DEF iter
<1>7. FoldsWithin(iter, hs, Residues(SharePrime), base, op)
  <2>1. \A t \in SUBSET (1..Len(hs)) :
          iter[t] = IF t = {} THEN base ELSE NextNumerator(iter[t \ {Max(t)}], hs[Max(t)], c)
    BY <1>5
  <2> HIDE DEF body
  <2> QED BY <1>0, <1>2, <2>1, FoldPlaces DEF FoldsWithin
<1> HIDE DEF body
<1>8. FoldValue(iter[1..Len(hs)], hs, Residues(SharePrime), base, op)
  BY <1>0, <1>1, <1>7, FoldSteps
<1>9. PICK h \in [0..Len(hs) -> Residues(SharePrime)] :
        /\ h[0] = base
        /\ \A n \in 1..Len(hs) : h[n] = op[<<h[n - 1], hs[n]>>]
        /\ Numerator(hs, c) = h[Len(hs)]
  BY <1>6, <1>8 DEF FoldValue
<1>10. \A n \in 1..Len(hs) : h[n] = NextNumerator(h[n - 1], hs[n], c)
  <2> TAKE n \in 1..Len(hs)
  <2>0. n - 1 \in 0..Len(hs) /\ n \in 1..Len(hs)
    BY <1>0
  <2>1. h[n - 1] \in Residues(SharePrime)
    BY <2>0
  <2>2. hs[n] \in 1..Shares
    BY <1>0, <2>0
  <2> QED BY <1>2, <1>9, <2>1, <2>2
<1> QED BY <1>9, <1>10 DEF base

\* The denominator of a weight, factor by factor.
LEMMA DenominatorSteps ==
  ASSUME NEW hs \in Seq(1..Shares), NEW c \in Units
  PROVE  \E h \in [0..Len(hs) -> Units] :
           /\ h[0] = 1
           /\ \A n \in 1..Len(hs) : h[n] = NextDenominator(h[n - 1], hs[n], c)
           /\ Denominator(hs, c) = h[Len(hs)]
<1> DEFINE op == [p \in (Units) \X (1..Shares) |-> NextDenominator(p[1], p[2], c)]
           base == 1
           body(it) == [t \in SUBSET (1..Len(hs)) |->
                          IF t = {} THEN base
                          ELSE NextDenominator(it[t \ {Max(t)}], hs[Max(t)], c)]
           iter == CHOOSE it : it = body(it)
<1>0. Len(hs) \in Nat /\ DOMAIN hs = 1..Len(hs) /\ hs \in Seq(1..Shares)
  BY LenProperties
<1>1. base \in Units /\ op \in [(Units) \X (1..Shares) -> Units]
  <2>1. base \in Units
    BY PrimeFacts DEF Units
  <2>2. ASSUME NEW x \in Units, NEW y \in 1..Shares PROVE NextDenominator(x, y, c) \in Units
    <3>1. x \in Int /\ y \in Int /\ c \in Int /\ SharePrime \in Nat /\ SharePrime > 0
      BY <2>2, PrimeFacts DEF Units
    <3>2. CASE y = c
      BY <2>2, <3>2 DEF NextDenominator
    <3>3. CASE y # c
      <4>1. y \in 0..(SharePrime - 1) /\ c \in 0..(SharePrime - 1)
        BY <2>2, <3>1, PrimeFacts DEF Units
      <4>2. c - y \in Int /\ (c - y) % SharePrime # 0
        BY <3>3, <4>1, NonzeroDifference
      <4>3. x % SharePrime # 0
        BY <2>2, <3>1 DEF Units
      <4>4. (x * (c - y)) % SharePrime # 0
        BY <3>1, <4>2, <4>3, NonzeroProduct
      <4>5. x * (c - y) \in Int
        BY <3>1
      <4>6. (x * (c - y)) % SharePrime \in 0..(SharePrime - 1)
        BY <3>1, <4>5, ModRange
      <4> DEFINE r == (x * (c - y)) % SharePrime
      <4>7. r \in 0..(SharePrime - 1) /\ r # 0
        BY <4>4, <4>6
      <4> HIDE DEF r
      <4>8. r \in Units
        BY <3>1, <4>7 DEF Units
      <4> QED BY <3>3, <4>8 DEF NextDenominator, HolderPoint, r
    <3> QED BY <3>2, <3>3
  <2> QED BY <2>1, <2>2
<1>2. \A x \in Units, y \in 1..Shares : op[<<x, y>>] = NextDenominator(x, y, c)
  OBVIOUS
<1> HIDE DEF op, base
<1>3. PICK g \in [SUBSET (1..Len(hs)) -> Units] : FoldsTo(g, hs, base, op)
  BY <1>0, <1>1, FoldExists
<1>4. g = body(g)
  <2>1. \A t \in SUBSET (1..Len(hs)) :
          g[t] = IF t = {} THEN base ELSE NextDenominator(g[t \ {Max(t)}], hs[Max(t)], c)
    BY <1>0, <1>2, <1>3, FoldPlaces DEF FoldsTo
  <2> QED BY <2>1
<1>5. iter = body(iter)
  BY <1>4
<1>6. Denominator(hs, c) = iter[1..Len(hs)]
  BY <1>0 DEF Denominator, NextDenominator, FoldLeft, MapThenFoldSet, base
<1> HIDE DEF iter
<1>7. FoldsWithin(iter, hs, Units, base, op)
  <2>1. \A t \in SUBSET (1..Len(hs)) :
          iter[t] = IF t = {} THEN base ELSE NextDenominator(iter[t \ {Max(t)}], hs[Max(t)], c)
    BY <1>5
  <2> HIDE DEF body
  <2> QED BY <1>0, <1>2, <2>1, FoldPlaces DEF FoldsWithin
<1> HIDE DEF body
<1>8. FoldValue(iter[1..Len(hs)], hs, Units, base, op)
  BY <1>0, <1>1, <1>7, FoldSteps
<1>9. PICK h \in [0..Len(hs) -> Units] :
        /\ h[0] = base
        /\ \A n \in 1..Len(hs) : h[n] = op[<<h[n - 1], hs[n]>>]
        /\ Denominator(hs, c) = h[Len(hs)]
  BY <1>6, <1>8 DEF FoldValue
<1>10. \A n \in 1..Len(hs) : h[n] = NextDenominator(h[n - 1], hs[n], c)
  <2> TAKE n \in 1..Len(hs)
  <2>0. n - 1 \in 0..Len(hs) /\ n \in 1..Len(hs)
    BY <1>0
  <2>1. h[n - 1] \in Units
    BY <2>0
  <2>2. hs[n] \in 1..Shares
    BY <1>0, <2>0
  <2> QED BY <1>2, <1>9, <2>1, <2>2
<1> QED BY <1>9, <1>10 DEF base

\* Two congruences of fractions.
LEMMA FractionSplit ==
  ASSUME NEW w \in Int, NEW h \in Int, NEW d \in Int, (h - d) % SharePrime # 0
  PROVE  Cong(w * (-d) * Inv(h - d), 1 * w + (-1) * (w * h * Inv(h - d)), SharePrime)
<1> DEFINE p == SharePrime
           u == Inv(h - d)
<1>1. p \in Nat /\ h - d \in Int
  BY PrimeFacts
<1>2. u \in Int /\ Cong((h - d) * u, 1, p)
  BY <1>1, Inverses
<1> HIDE DEF p, u
<1>3. (h - d) * u \in Int /\ 1 \in Int /\ w * h * u \in Int
  BY <1>1, <1>2
<1>4. Cong(w * ((h - d) * u), w * 1, p)
  BY <1>1, <1>2, <1>3, CongTimes
<1>5. /\ w * ((h - d) * u) \in Int /\ w * 1 \in Int /\ (-1) * (w * h * u) \in Int
  BY <1>2, <1>3
<1>6. Cong((-1) * (w * h * u), (-1) * (w * h * u), p)
  BY <1>1, <1>5, CongRefl
<1>7. Cong(w * ((h - d) * u) + (-1) * (w * h * u), w * 1 + (-1) * (w * h * u), p)
  BY <1>1, <1>4, <1>5, <1>6, CongAdd
<1>8. w * ((h - d) * u) + (-1) * (w * h * u) = w * (-d) * u
  BY <1>2
<1>9. w * 1 = 1 * w
  OBVIOUS
<1> QED BY <1>7, <1>8, <1>9 DEF p, u

\* Partial fractions: what the weights with one more holder differ by.
LEMMA FractionProduct ==
  ASSUME NEW h \in Int, NEW d \in Int, NEW c \in Int, (h - d) % SharePrime # 0,
         (h - c) % SharePrime # 0, (d - c) % SharePrime # 0
  PROVE  Cong(Inv(h - d) * Inv(h - c), Inv(d - c) * (Inv(h - d) - Inv(h - c)), SharePrime)
<1> DEFINE p == SharePrime
           u == Inv(h - d)
           v == Inv(h - c)
           z == Inv(d - c)
           a == h - d
           b == h - c
           e == d - c
<1>1. p \in Nat /\ a \in Int /\ b \in Int /\ e \in Int /\ b + (-a) = e
  BY PrimeFacts
<1>2. u \in Int /\ Cong(a * u, 1, p)
  BY <1>1, Inverses
<1>3. v \in Int /\ Cong(b * v, 1, p)
  BY <1>1, Inverses
<1>4. z \in Int /\ Cong(e * z, 1, p)
  BY <1>1, Inverses
<1> HIDE DEF p, u, v, z, a, b, e
<1>5. /\ a * u \in Int /\ b * v \in Int /\ e * z \in Int /\ 1 \in Int /\ u * v \in Int /\ -v \in Int
  BY <1>1, <1>2, <1>3, <1>4
<1>6. Cong(u * (b * v), u * 1, p)
  BY <1>1, <1>2, <1>3, <1>5, CongTimes
<1>7. Cong((-v) * (a * u), (-v) * 1, p)
  BY <1>1, <1>2, <1>3, <1>5, CongTimes
<1>8. u * (b * v) \in Int /\ u * 1 \in Int /\ (-v) * (a * u) \in Int /\ (-v) * 1 \in Int
  BY <1>2, <1>3, <1>5
<1>9. Cong(u * (b * v) + (-v) * (a * u), u * 1 + (-v) * 1, p)
  BY <1>1, <1>6, <1>7, <1>8, CongAdd
<1>10. u * (b * v) + (-v) * (a * u) = (u * v) * e
  <2>1. u * (b * v) + (-v) * (a * u) = (u * v) * (b + (-a))
    BY <1>1, <1>2, <1>3
  <2> QED BY <1>1, <2>1
<1>11. u * 1 + (-v) * 1 = u - v /\ u - v \in Int /\ (u * v) * e \in Int
  BY <1>1, <1>2, <1>3, <1>5
<1>12. Cong((u * v) * e, u - v, p)
  BY <1>9, <1>10, <1>11
<1>13. Cong(z * ((u * v) * e), z * (u - v), p)
  BY <1>1, <1>4, <1>11, <1>12, CongTimes
<1>14. Cong((u * v) * (e * z), (u * v) * 1, p)
  BY <1>1, <1>4, <1>5, CongTimes
<1>15. /\ z * ((u * v) * e) = (u * v) * (e * z) /\ (u * v) * 1 = u * v
       /\ (u * v) * (e * z) \in Int /\ z * (u - v) \in Int
  BY <1>1, <1>4, <1>5, <1>11
<1>16. Cong(u * v, (u * v) * (e * z), p)
  <2>1. Cong((u * v) * (e * z), u * v, p)
    BY <1>14, <1>15
  <2> QED BY <1>1, <1>5, <1>15, <2>1, CongSym
<1>17. Cong((u * v) * (e * z), z * (u - v), p)
  BY <1>13, <1>15
<1>18. Cong(u * v, z * (u - v), p)
  BY <1>1, <1>5, <1>15, <1>16, <1>17, CongTrans
<1> QED BY <1>18 DEF p, u, v, z

\* Numbers that interpolate at 0 through the first n holders of hs: each is what its
\* numerator is of its denominator, they sum to 1, they weigh to 0 what the holders have
\* of any polynomial of fewer coefficients times their points, and they weigh their poles at c to what the numerator of c is of its denominator.
Moments(w, hs, f) == [i \in 1..Len(w) |-> w[i] * hs[i] * f[hs[i]]]
Poles(w, hs, c) == [i \in 1..Len(w) |-> w[i] * hs[i] * Inv(hs[i] - c)]
Outside(hs, n, c) == \A i \in 1..n : hs[i] # c
Interpolates(w, n, hs, num, den) ==
  /\ w \in Seq(Int) /\ Len(w) = n
  /\ \A i \in 1..n : Cong(w[i] * den[hs[i]][n], num[hs[i]][n], SharePrime)
  /\ Cong(TotalOf(w), 1, SharePrime)
  /\ \A f : Polynomial(f, n - 1) => Cong(TotalOf(Moments(w, hs, f)), 0, SharePrime)
  /\ \A c \in Units : Outside(hs, n, c) =>
       Cong(TotalOf(Poles(w, hs, c)) * den[c][n], num[c][n], SharePrime)

\* Holders in some order, and the products at each point as they grow.
Growing(hs, num, den) ==
  /\ hs \in Seq(1..Shares) /\ IsInjective(hs)
  /\ num \in [Units -> [0..Len(hs) -> 0..(SharePrime - 1)]]
  /\ den \in [Units -> [0..Len(hs) -> 1..(SharePrime - 1)]]
  /\ \A c \in Units : num[c][0] = 1 /\ den[c][0] = 1
  /\ \A c \in Units : \A n \in 1..Len(hs) :
       /\ num[c][n] = NextNumerator(num[c][n - 1], hs[n], c)
       /\ den[c][n] = NextDenominator(den[c][n - 1], hs[n], c)

\* The products with one more holder, told apart.
LEMMA GrowingFacts ==
  ASSUME NEW hs, NEW num, NEW den, Growing(hs, num, den), NEW n \in 0..(Len(hs) - 1)
  PROVE  /\ Len(hs) \in Nat /\ n \in Nat /\ n + 1 \in 1..Len(hs)
         /\ \A i \in 1..Len(hs) : hs[i] \in Units /\ hs[i] \in Int
         /\ Outside(hs, n, hs[n + 1])
         /\ \A c \in Units : /\ c \in Int
                             /\ num[c][n] \in Int /\ den[c][n] \in Int
                             /\ num[c][n + 1] \in Int /\ den[c][n + 1] \in Int
         /\ /\ num[hs[n + 1]][n + 1] = num[hs[n + 1]][n]
            /\ den[hs[n + 1]][n + 1] = den[hs[n + 1]][n]
         /\ \A c \in Units : c # hs[n + 1] =>
              /\ Cong(num[c][n + 1], num[c][n] * (-hs[n + 1]), SharePrime)
              /\ Cong(den[c][n + 1], den[c][n] * (c - hs[n + 1]), SharePrime)
<1>0. SharePrime \in Nat /\ SharePrime > 0 /\ Shares \in Nat /\ Shares < SharePrime
  BY PrimeFacts
<1>1. Len(hs) \in Nat /\ n \in Nat /\ n + 1 \in 1..Len(hs) /\ n \in 0..Len(hs) /\ n + 1 \in 0..Len(hs)
      /\ n + 1 - 1 = n
  BY LenProperties DEF Growing
<1>2. \A i \in 1..Len(hs) : hs[i] \in Units /\ hs[i] \in Int
  <2> TAKE i \in 1..Len(hs)
  <2>1. hs[i] \in 1..Shares
    BY ElementOfSeq DEF Growing
  <2> QED BY <1>0, <2>1 DEF Units
<1>3. Outside(hs, n, hs[n + 1])
  <2> SUFFICES ASSUME NEW i \in 1..n, hs[i] = hs[n + 1] PROVE FALSE
    BY DEF Outside
  <2>1. i \in DOMAIN hs /\ n + 1 \in DOMAIN hs
    BY <1>1, LenProperties DEF Growing
  <2>2. i = n + 1
    BY <2>1 DEF Growing, IsInjective
  <2> QED BY <1>1, <2>2
<1>4. \A c \in Units : /\ c \in Int
                       /\ num[c][n] \in Int /\ den[c][n] \in Int
                       /\ num[c][n + 1] \in Int /\ den[c][n + 1] \in Int
  <2> TAKE c \in Units
  <2>1. /\ num[c] \in [0..Len(hs) -> 0..(SharePrime - 1)]
        /\ den[c] \in [0..Len(hs) -> 1..(SharePrime - 1)]
    BY DEF Growing
  <2>2. /\ num[c][n] \in 0..(SharePrime - 1) /\ num[c][n + 1] \in 0..(SharePrime - 1)
        /\ den[c][n] \in 1..(SharePrime - 1) /\ den[c][n + 1] \in 1..(SharePrime - 1)
    BY <1>1, <2>1
  <2> QED BY <1>0, <2>2 DEF Units
<1>5. \A c \in Units :
        /\ num[c][n + 1] = NextNumerator(num[c][n], hs[n + 1], c)
        /\ den[c][n + 1] = NextDenominator(den[c][n], hs[n + 1], c)
  <2> TAKE c \in Units
  <2>1. /\ num[c][n + 1] = NextNumerator(num[c][n + 1 - 1], hs[n + 1], c)
        /\ den[c][n + 1] = NextDenominator(den[c][n + 1 - 1], hs[n + 1], c)
    BY <1>1 DEF Growing
  <2> QED BY <1>1, <2>1
<1>6. /\ num[hs[n + 1]][n + 1] = num[hs[n + 1]][n]
      /\ den[hs[n + 1]][n + 1] = den[hs[n + 1]][n]
  BY <1>1, <1>2, <1>5 DEF NextNumerator, NextDenominator
<1>7. \A c \in Units : c # hs[n + 1] =>
        /\ Cong(num[c][n + 1], num[c][n] * (-hs[n + 1]), SharePrime)
        /\ Cong(den[c][n + 1], den[c][n] * (c - hs[n + 1]), SharePrime)
  <2> SUFFICES ASSUME NEW c \in Units, c # hs[n + 1]
               PROVE  /\ Cong(num[c][n + 1], num[c][n] * (-hs[n + 1]), SharePrime)
                      /\ Cong(den[c][n + 1], den[c][n] * (c - hs[n + 1]), SharePrime)
    OBVIOUS
  <2> DEFINE x == num[c][n]
             y == den[c][n]
             d == hs[n + 1]
  <2>1. x \in Int /\ y \in Int /\ d \in Int /\ c \in Int /\ d # c
    BY <1>1, <1>2, <1>4
  <2>2. num[c][n + 1] = (x * (-d)) % SharePrime /\ den[c][n + 1] = (y * (c - d)) % SharePrime
    BY <1>5 DEF NextNumerator, NextDenominator, HolderPoint
  <2> HIDE DEF x, y, d
  <2>3. x * (-d) \in Int /\ y * (c - d) \in Int
    BY <2>1
  <2>4. Cong((x * (-d)) % SharePrime, x * (-d), SharePrime)
        /\ Cong((y * (c - d)) % SharePrime, y * (c - d), SharePrime)
    BY <1>0, <2>3, ModRange
  <2> QED BY <2>2, <2>4 DEF x, y, d
<1> QED BY <1>1, <1>2, <1>3, <1>4, <1>6, <1>7

\* Through one holder.
LEMMA InterpolatesOne ==
  ASSUME NEW hs, NEW num, NEW den, Growing(hs, num, den), Len(hs) >= 1
  PROVE  Interpolates(<<1>>, 1, hs, num, den)
<1> DEFINE w == <<1>>
           d == hs[1]
<1>0. SharePrime \in Nat /\ SharePrime > 0 /\ 1 \in Int /\ 0 \in 0..(Len(hs) - 1) /\ 0 + 1 = 1
  BY PrimeFacts, LenProperties DEF Growing
<1>1. /\ 1 \in 1..Len(hs) /\ d \in Units /\ d \in Int
      /\ num[d][1] = num[d][0] /\ den[d][1] = den[d][0]
      /\ \A c \in Units : c \in Int /\ num[c][1] \in Int /\ den[c][1] \in Int
      /\ \A c \in Units : c # d =>
           /\ Cong(num[c][1], num[c][0] * (-d), SharePrime)
           /\ Cong(den[c][1], den[c][0] * (c - d), SharePrime)
  <2> DEFINE n == 0
  <2>1. n \in 0..(Len(hs) - 1) /\ n + 1 = 1
    BY <1>0
  <2> HIDE DEF n
  <2>2. /\ n + 1 \in 1..Len(hs)
        /\ \A i \in 1..Len(hs) : hs[i] \in Units /\ hs[i] \in Int
        /\ num[hs[n + 1]][n + 1] = num[hs[n + 1]][n] /\ den[hs[n + 1]][n + 1] = den[hs[n + 1]][n]
        /\ \A c \in Units : c \in Int /\ num[c][n + 1] \in Int /\ den[c][n + 1] \in Int
        /\ \A c \in Units : c # hs[n + 1] =>
             /\ Cong(num[c][n + 1], num[c][n] * (-hs[n + 1]), SharePrime)
             /\ Cong(den[c][n + 1], den[c][n] * (c - hs[n + 1]), SharePrime)
    BY <2>1, GrowingFacts
  <2> QED BY <2>1, <2>2 DEF n
<1>2. \A c \in Units : num[c][0] = 1 /\ den[c][0] = 1
  BY DEF Growing
<1>3. w \in Seq(Int) /\ Len(w) = 1 /\ w[1] = 1
  OBVIOUS
<1>4. \A s \in Seq(Int) : Len(s) = 1 => TotalOf(s) = s[1]
  <2> TAKE s \in Seq(Int)
  <2> HAVE Len(s) = 1
  <2>1. PICK h \in [0..Len(s) -> Int] :
          h[0] = 0 /\ (\A n \in 1..Len(s) : h[n] = (h[n - 1] + s[n])) /\ TotalOf(s) = h[Len(s)]
    BY TotalSteps
  <2>2. 1 \in 1..Len(s) /\ s[1] \in Int
    BY ElementOfSeq
  <2>3. h[1] = h[1 - 1] + s[1]
    BY <2>1, <2>2
  <2> QED BY <2>1, <2>2, <2>3
<1>5. Cong(1, 1, SharePrime)
  BY <1>0, CongRefl
<1>6. Cong(TotalOf(w), 1, SharePrime)
  BY <1>3, <1>4, <1>5
<1>7. \A i \in 1..1 : Cong(w[i] * den[hs[i]][1], num[hs[i]][1], SharePrime)
  <2> TAKE i \in 1..1
  <2>1. i = 1 /\ 1 * 1 = 1
    OBVIOUS
  <2>2. w[1] * den[d][1] = 1 /\ num[d][1] = 1
    BY <1>1, <1>2, <1>3
  <2> QED BY <1>5, <2>1, <2>2
<1> HIDE DEF w
<1>8. ASSUME NEW c \in Units, Outside(hs, 1, c)
      PROVE  Cong(TotalOf(Poles(w, hs, c)) * den[c][1], num[c][1], SharePrime)
  <2>1. d # c /\ c \in Int /\ num[c][1] \in Int /\ den[c][1] \in Int
    BY <1>1, <1>8 DEF Outside
  <2>2. d \in 0..(SharePrime - 1) /\ c \in 0..(SharePrime - 1)
    BY <1>0, <1>1, <1>8 DEF Units
  <2>3. d - c \in Int /\ (d - c) % SharePrime # 0
    BY <2>1, <2>2, NonzeroDifference
  <2> DEFINE v == Inv(d - c)
             nc == num[c][1]
             dc == den[c][1]
  <2>4. v \in Int /\ Cong((d - c) * v, 1, SharePrime)
    BY <2>3, Inverses
  <2>5. Poles(w, hs, c) \in Seq(Int) /\ Len(Poles(w, hs, c)) = 1 /\ Poles(w, hs, c)[1] = d * v
    <3>1. w[1] * hs[1] * Inv(hs[1] - c) = d * v /\ d * v \in Int
      <4> HIDE DEF v
      <4>1. \A k, m \in Int : 1 * k * m = k * m /\ k * m \in Int
        OBVIOUS
      <4> QED BY <1>1, <1>3, <2>4, <4>1 DEF v
    <3>2. \A i \in 1..1 : w[i] * hs[i] * Inv(hs[i] - c) \in Int
      BY <3>1
    <3>3. Poles(w, hs, c) = [i \in 1..1 |-> w[i] * hs[i] * Inv(hs[i] - c)]
      BY <1>3 DEF Poles
    <3>4. Poles(w, hs, c) \in Seq(Int) /\ Len(Poles(w, hs, c)) = 1
      BY <3>2, <3>3, IsASeq, LenProperties
    <3>5. Poles(w, hs, c)[1] = w[1] * hs[1] * Inv(hs[1] - c)
      BY <3>3
    <3> QED BY <3>1, <3>4, <3>5
  <2>6. TotalOf(Poles(w, hs, c)) = d * v
    BY <1>4, <2>5
  <2>7. Cong(nc, -d, SharePrime) /\ Cong(dc, c - d, SharePrime) /\ nc \in Int /\ dc \in Int
    <3>1. 1 * (-d) = -d /\ 1 * (c - d) = c - d
      BY <1>1, <2>1
    <3> QED BY <1>1, <1>2, <1>8, <2>1, <3>1
  <2> HIDE DEF v, nc, dc, d
  <2>8. d \in Int /\ d * v \in Int /\ c - d \in Int /\ (d - c) * v \in Int /\ -d \in Int
    BY <1>1, <2>1, <2>3, <2>4
  <2>9. Cong((d * v) * dc, (d * v) * (c - d), SharePrime)
    BY <1>0, <2>7, <2>8, CongTimes
  <2>10. Cong((-d) * ((d - c) * v), (-d) * 1, SharePrime)
    BY <1>0, <2>4, <2>8, CongTimes
  <2>11. (d * v) * (c - d) = (-d) * ((d - c) * v) /\ (-d) * 1 = -d
    BY <2>1, <2>4, <2>8
  <2>12. (d * v) * (c - d) \in Int /\ (d * v) * dc \in Int
    BY <2>7, <2>8
  <2>13. Cong((d * v) * (c - d), -d, SharePrime)
    BY <2>10, <2>11
  <2>14. Cong((d * v) * dc, -d, SharePrime)
    BY <1>0, <2>8, <2>9, <2>12, <2>13, CongTrans
  <2>15. Cong(-d, nc, SharePrime)
    BY <1>0, <2>7, <2>8, CongSym
  <2>16. Cong((d * v) * dc, nc, SharePrime)
    BY <1>0, <2>7, <2>8, <2>12, <2>14, <2>15, CongTrans
  <2> QED BY <2>6, <2>16 DEF nc, dc
<1>9. \A c \in Units : Outside(hs, 1, c) =>
        Cong(TotalOf(Poles(w, hs, c)) * den[c][1], num[c][1], SharePrime)
  BY <1>8
<1>10. ASSUME NEW f, Polynomial(f, 1 - 1)
       PROVE  Cong(TotalOf(Moments(w, hs, f)), 0, SharePrime)
  <2> DEFINE x == f[d]
             M == Moments(w, hs, f)
  <2>1. 1 - 1 = 0 /\ 0 \in Nat /\ 0 \in Int
    OBVIOUS
  <2>2. f \in Maps /\ \A h \in Points : Cong(f[h], 0, SharePrime)
    BY <1>10, <2>1, PolynomialSteps
  <2>3. d \in Points
    <3>1. hs \in Seq(1..Shares) /\ 1 \in 1..Len(hs)
      BY <1>1 DEF Growing
    <3>2. d \in 1..Shares
      BY <3>1, ElementOfSeq
    <3> QED BY <3>2, PrimeFacts DEF Points
  <2>4. x \in Int /\ Cong(x, 0, SharePrime)
    BY <2>2, <2>3, PointNumber
  <2>5. M \in Seq(Int) /\ Len(M) = 1 /\ M[1] = d * x
    <3>1. w[1] * hs[1] * f[hs[1]] = d * x /\ d * x \in Int
      <4> HIDE DEF x
      <4>1. \A k, m \in Int : 1 * k * m = k * m /\ k * m \in Int
        OBVIOUS
      <4> QED BY <1>1, <1>3, <2>4, <4>1 DEF x
    <3>2. \A i \in 1..1 : w[i] * hs[i] * f[hs[i]] \in Int
      BY <3>1
    <3>3. M = [i \in 1..1 |-> w[i] * hs[i] * f[hs[i]]]
      BY <1>3 DEF Moments
    <3> HIDE DEF M
    <3>4. M \in Seq(Int) /\ Len(M) = 1
      BY <3>2, <3>3, IsASeq, LenProperties
    <3>5. M[1] = w[1] * hs[1] * f[hs[1]]
      BY <3>3
    <3> QED BY <3>1, <3>4, <3>5
  <2> HIDE DEF x, M, d
  <2>6. d \in Int
    BY <1>1
  <2>7. Cong(d * x, d * 0, SharePrime)
    BY <1>0, <2>1, <2>4, <2>6, CongTimes
  <2>8. d * 0 = 0
    BY <2>6
  <2>9. TotalOf(M) = d * x
    BY <1>4, <2>5
  <2> QED BY <2>7, <2>8, <2>9 DEF M
<1>11. \A f : Polynomial(f, 1 - 1) => Cong(TotalOf(Moments(w, hs, f)), 0, SharePrime)
  BY <1>10
<1> QED BY <1>3, <1>6, <1>7, <1>9, <1>11 DEF Interpolates, w

\* A number more of a sequence given by its places.
LEMMA AppendPlaces ==
  ASSUME NEW s \in Seq(Int), NEW n \in Nat, Len(s) = n + 1, NEW t \in Seq(Int), Len(t) = n,
         \A i \in 1..n : s[i] = t[i]
  PROVE  TotalOf(s) = TotalOf(t) + s[n + 1]
<1> DEFINE x == s[n + 1]
           r == Append(t, x)
<1>1. x \in Int
  BY ElementOfSeq
<1> HIDE DEF x
<1>2. r \in Seq(Int) /\ Len(r) = n + 1 /\ (\A i \in 1..n : r[i] = t[i]) /\ r[n + 1] = x
  BY <1>1, AppendProperties
<1> HIDE DEF r
<1>3. \A i \in 1..Len(s) : s[i] = r[i]
  <2> TAKE i \in 1..Len(s)
  <2>1. i \in 1..n \/ i = n + 1
    OBVIOUS
  <2> QED BY <1>2, <2>1 DEF x
<1>4. s = r
  BY <1>2, <1>3, SeqEqual
<1>5. TotalOf(r) = TotalOf(t) + x
  BY <1>1, TotalAppend DEF r
<1> QED BY <1>4, <1>5 DEF x

\* A moment of the weights with one more point, from the moments without it.
LEMMA MomentStep ==
  ASSUME NEW p \in Nat, NEW w \in Int, NEW h \in Int, NEW u \in Int, NEW d \in Int,
         NEW x \in Int, NEW y \in Int, NEW e \in Int,
         Cong((h - d) * u, 1, p), Cong(x, e + (h - d) * y, p)
  PROVE  Cong((w * (-d) * u) * h * x, (-(d * e)) * (w * h * u) + (-d) * (w * h * y), p)
<1>1. PICK i \in Int : (h - d) * u = 1 + i * p
  BY DEF Cong
<1>2. PICK j \in Int : x = (e + (h - d) * y) + j * p
  BY DEF Cong
<1> DEFINE b == (h - d) * u
           a == w * h * d
<1>3. /\ (w * (-d) * u) * h * (e + (h - d) * y) = -(a * u * e) - (a * y) * b
      /\ (w * (-d) * u) * h * (j * p) = -(a * u * j) * p
  OBVIOUS
<1>4. (w * (-d) * u) * h * x
        = (w * (-d) * u) * h * (e + (h - d) * y) + (w * (-d) * u) * h * (j * p)
  <2> DEFINE k == (w * (-d) * u) * h
             l == e + (h - d) * y
             n == j * p
  <2>1. k \in Int /\ l \in Int /\ n \in Int /\ x = l + n
    BY <1>2
  <2> HIDE DEF k, l, n
  <2>2. k * x = k * l + k * n
    BY <2>1
  <2> QED BY <2>2 DEF k, l, n
<1>5. (-(d * e)) * (w * h * u) + (-d) * (w * h * y) = -(a * u * e) - a * y
  OBVIOUS
<1>6. a \in Int /\ b = 1 + i * p
  BY <1>1
<1> HIDE DEF a, b
<1>7. -(a * u * e) - (a * y) * b + (-(a * u * j) * p)
        = (-(a * u * e) - a * y) + (-(a * y * i) - a * u * j) * p
  BY <1>6
<1>8. -(a * y * i) - a * u * j \in Int
  BY <1>6
<1>9. (w * (-d) * u) * h * x
        = ((-(d * e)) * (w * h * u) + (-d) * (w * h * y)) + (-(a * y * i) - a * u * j) * p
  BY <1>3, <1>4, <1>5, <1>7
<1> QED BY <1>8, <1>9 DEF Cong

\* Through one holder more.
LEMMA InterpolatesMore ==
  ASSUME NEW hs, NEW num, NEW den, Growing(hs, num, den), NEW n \in Nat, n >= 1,
         n + 1 <= Len(hs), NEW w, Interpolates(w, n, hs, num, den)
  PROVE  \E v : Interpolates(v, n + 1, hs, num, den)
<1> DEFINE d == hs[n + 1]
           Q == TotalOf(Poles(w, hs, d))
           t == [i \in 1..n |-> w[i] * (-d) * Inv(hs[i] - d)]
           v == Append(t, Q)
           p == SharePrime
<1>0. p \in Nat /\ p > 0 /\ n \in 0..(Len(hs) - 1) /\ Len(hs) \in Nat
  BY PrimeFacts, LenProperties DEF Growing
<1>1. /\ n + 1 \in 1..Len(hs)
      /\ \A i \in 1..Len(hs) : hs[i] \in Units /\ hs[i] \in Int
      /\ Outside(hs, n, d)
      /\ \A c \in Units : /\ c \in Int
                          /\ num[c][n] \in Int /\ den[c][n] \in Int
                          /\ num[c][n + 1] \in Int /\ den[c][n + 1] \in Int
      /\ num[d][n + 1] = num[d][n] /\ den[d][n + 1] = den[d][n]
      /\ \A c \in Units : c # d =>
           /\ Cong(num[c][n + 1], num[c][n] * (-d), p)
           /\ Cong(den[c][n + 1], den[c][n] * (c - d), p)
  <2> QED BY ONLY Growing(hs, num, den), n \in 0..(Len(hs) - 1), <1>0, GrowingFacts
<1>2. /\ w \in Seq(Int) /\ Len(w) = n
      /\ \A i \in 1..n : Cong(w[i] * den[hs[i]][n], num[hs[i]][n], p)
      /\ Cong(TotalOf(w), 1, p)
      /\ \A c \in Units : Outside(hs, n, c) =>
           Cong(TotalOf(Poles(w, hs, c)) * den[c][n], num[c][n], p)
  BY DEF Interpolates
<1>3. d \in Units /\ d \in Int
  BY <1>1
<1>4. \A i \in 1..n : w[i] \in Int /\ hs[i] \in Units /\ hs[i] \in Int /\ i \in 1..Len(hs)
  <2>1. \A i \in 1..n : i \in 1..Len(hs)
    BY <1>0
  <2> QED BY <1>1, <1>2, <2>1, ElementOfSeq
\* Where c is none of the first n.
<1>5. ASSUME NEW c \in Units, Outside(hs, n, c)
      PROVE  /\ \A i \in 1..n : /\ hs[i] - c \in Int /\ (hs[i] - c) % p # 0
                                /\ Inv(hs[i] - c) \in Int
                                /\ Cong((hs[i] - c) * Inv(hs[i] - c), 1, p)
             /\ Poles(w, hs, c) \in Seq(Int) /\ Len(Poles(w, hs, c)) = n
             /\ \A i \in 1..n : Poles(w, hs, c)[i] = w[i] * hs[i] * Inv(hs[i] - c)
             /\ TotalOf(Poles(w, hs, c)) \in Int
  <2>1. \A i \in 1..n : /\ hs[i] - c \in Int /\ (hs[i] - c) % p # 0
                        /\ Inv(hs[i] - c) \in Int
                        /\ Cong((hs[i] - c) * Inv(hs[i] - c), 1, p)
    <3> TAKE i \in 1..n
    <3>1. hs[i] # c /\ hs[i] \in 0..(p - 1) /\ c \in 0..(p - 1)
      BY <1>0, <1>4, <1>5 DEF Outside, Units
    <3>2. hs[i] - c \in Int /\ (hs[i] - c) % p # 0
      BY <3>1, NonzeroDifference
    <3> QED BY <3>2, Inverses
  <2>2. \A i \in 1..n : w[i] * hs[i] * Inv(hs[i] - c) \in Int
    <3> TAKE i \in 1..n
    <3>1. w[i] \in Int /\ hs[i] \in Int /\ Inv(hs[i] - c) \in Int
      BY <1>4, <2>1
    <3> DEFINE ra == w[i]
               rb == hs[i]
               rc == Inv(hs[i] - c)
    <3>2. ra \in Int /\ rb \in Int /\ rc \in Int
      BY <3>1
    <3> HIDE DEF ra, rb, rc
    <3>3. ra * rb * rc \in Int
      BY <3>2
    <3> QED BY <3>3 DEF ra, rb, rc
  <2>3. Poles(w, hs, c) = [i \in 1..n |-> w[i] * hs[i] * Inv(hs[i] - c)]
    BY <1>2 DEF Poles
  <2>4. Poles(w, hs, c) \in Seq(Int) /\ Len(Poles(w, hs, c)) = n
    BY <2>2, <2>3, IsASeq, LenProperties
  <2>5. \A i \in 1..n : Poles(w, hs, c)[i] = w[i] * hs[i] * Inv(hs[i] - c)
    BY <2>3
  <2> QED BY <2>1, <2>4, <2>5, TotalNumber
<1> DEFINE U(i) == Inv(hs[i] - d)
<1>6. /\ \A i \in 1..n : /\ hs[i] - d \in Int /\ (hs[i] - d) % p # 0
                         /\ U(i) \in Int /\ Cong((hs[i] - d) * U(i), 1, p)
      /\ Poles(w, hs, d) \in Seq(Int) /\ Len(Poles(w, hs, d)) = n
      /\ \A i \in 1..n : Poles(w, hs, d)[i] = w[i] * hs[i] * U(i)
      /\ Q \in Int
  BY <1>1, <1>3, <1>5
<1>7. \A i \in 1..n : w[i] * (-d) * U(i) \in Int
  <2> TAKE i \in 1..n
  <2> DEFINE ra == w[i]
             rc == U(i)
  <2>1. ra \in Int /\ rc \in Int /\ d \in Int
    BY <1>3, <1>4, <1>6
  <2> HIDE DEF ra, rc, d
  <2>2. ra * (-d) * rc \in Int
    BY <2>1
  <2> QED BY <2>2 DEF ra, rc, d
<1>8. t \in Seq(Int) /\ Len(t) = n /\ \A i \in 1..n : t[i] = w[i] * (-d) * U(i)
  BY <1>7, IsASeq, LenProperties
<1> HIDE DEF t, Q
<1>9. /\ v \in Seq(Int) /\ Len(v) = n + 1 /\ (\A i \in 1..n : v[i] = t[i]) /\ v[n + 1] = Q
      /\ TotalOf(v) = TotalOf(t) + Q
  BY <1>6, <1>8, AppendProperties, TotalAppend
<1> HIDE DEF v
<1>10. \A i \in 1..(n + 1) : v[i] \in Int
  BY <1>9, ElementOfSeq
\* They sum to 1.
<1>11. Cong(TotalOf(v), 1, p)
  <2> DEFINE P == Poles(w, hs, d)
  <2>1. \A i \in 1..Len(t) : Cong(t[i], 1 * w[i] + (-1) * P[i], p)
    <3> TAKE i \in 1..Len(t)
    <3>1. w[i] \in Int /\ hs[i] \in Int /\ d \in Int /\ (hs[i] - d) % p # 0
          /\ t[i] = w[i] * (-d) * U(i) /\ P[i] = w[i] * hs[i] * U(i)
      BY <1>3, <1>4, <1>6, <1>8
    <3>2. Cong(w[i] * (-d) * U(i), 1 * w[i] + (-1) * (w[i] * hs[i] * U(i)), p)
      BY <3>1, FractionSplit
    <3> QED BY <3>1, <3>2
  <2>2. P \in Seq(Int) /\ Len(P) = n /\ TotalOf(P) = Q
    BY <1>6 DEF Q
  <2> HIDE DEF P
  <2>3. 1 \in Int /\ -1 \in Int
    OBVIOUS
  <2>4. Len(t) = Len(w) /\ Len(t) = Len(P)
    BY <1>2, <1>8, <2>2
  <2>5. Cong(TotalOf(t), 1 * TotalOf(w) + (-1) * TotalOf(P), p)
    BY <1>0, <1>2, <1>8, <2>1, <2>2, <2>3, <2>4, TotalLinear
  <2> DEFINE x == TotalOf(t)
             y == TotalOf(w)
  <2>6. x \in Int /\ y \in Int /\ Cong(x, 1 * y + (-1) * Q, p) /\ Cong(y, 1, p) /\ Q \in Int
    BY <1>2, <1>6, <1>8, <2>2, <2>5, TotalNumber
  <2>7. TotalOf(v) = x + Q
    BY <1>9
  <2> HIDE DEF x, y, p
  <2>8. 1 * y + (-1) * Q \in Int /\ Cong(Q, Q, p)
    BY <1>0, <2>6, CongRefl
  <2>9. Cong(x + Q, (1 * y + (-1) * Q) + Q, p)
    BY <1>0, <2>6, <2>8, CongAdd
  <2>10. (1 * y + (-1) * Q) + Q = y /\ x + Q \in Int
    BY <2>6
  <2>11. Cong(x + Q, y, p)
    BY <2>9, <2>10
  <2>12. Cong(x + Q, 1, p)
    BY <1>0, <2>3, <2>6, <2>10, <2>11, CongTrans
  <2> QED BY <2>7, <2>12
\* They weigh polynomials to 0.
<1>12. ASSUME NEW f, Polynomial(f, n)
       PROVE  Cong(TotalOf(Moments(v, hs, f)), 0, p)
  <2> DEFINE P == Poles(w, hs, d)
             m == [i \in 1..n |-> t[i] * hs[i] * f[hs[i]]]
             M == Moments(v, hs, f)
             e == f[d]
  <2>0. /\ n - 1 \in Nat /\ (n - 1) + 1 = n /\ d \in Points
        /\ \A i \in 1..(n + 1) : hs[i] \in Points
    <3>1. hs \in Seq(1..Shares) /\ Shares \in Nat
      BY PrimeFacts DEF Growing
    <3>2. \A i \in 1..Len(hs) : hs[i] \in 1..Shares
      BY <3>1, ElementOfSeq
    <3>3. \A i \in 1..(n + 1) : i \in 1..Len(hs)
      BY <1>0
    <3>4. \A h \in 1..Shares : h \in Points
      BY <3>1 DEF Points
    <3>5. \A i \in 1..(n + 1) : hs[i] \in Points
      BY <3>2, <3>3, <3>4
    <3>6. n + 1 \in 1..(n + 1)
      OBVIOUS
    <3>7. d \in Points
      BY <3>5, <3>6
    <3>8. n - 1 \in Nat /\ (n - 1) + 1 = n
      OBVIOUS
    <3> QED BY <3>5, <3>7, <3>8
  <2>1. PICK q \in Maps : /\ Polynomial(q, n - 1)
                         /\ \A h \in Points : Cong(f[h], e + (h - d) * q[h], p)
    <3>1. Polynomial(f, (n - 1) + 1)
      BY <1>12, <2>0
    <3> HIDE DEF d
    <3> QED BY <2>0, <3>1, PolynomialDivide
  <2> DEFINE W == Moments(w, hs, q)
  <2>2. Cong(TotalOf(W), 0, p)
    <3>1. \A g : Polynomial(g, n - 1) => Cong(TotalOf(Moments(w, hs, g)), 0, p)
      BY DEF Interpolates
    <3> HIDE DEF p
    <3> QED BY <2>1, <3>1
  <2>3. f \in Maps /\ e \in Int
    <3>1. f \in Maps
      BY <1>12, PolynomialSteps
    <3> HIDE DEF d
    <3> QED BY <2>0, <3>1, PointNumber
  <2>4. \A i \in 1..(n + 1) : hs[i] \in Int /\ f[hs[i]] \in Int /\ q[hs[i]] \in Int
    <3> TAKE i \in 1..(n + 1)
    <3>1. hs[i] \in Points
      BY <2>0
    <3> QED BY <2>1, <2>3, <3>1, PointNumber
  <2>5. \A i \in 1..n : i \in 1..(n + 1)
    OBVIOUS
  <2>6. \A i \in 1..n : t[i] * hs[i] * f[hs[i]] \in Int /\ w[i] * hs[i] * q[hs[i]] \in Int
    <3> TAKE i \in 1..n
    <3> DEFINE ra == t[i]
               rb == hs[i]
               rc == f[hs[i]]
               rd == w[i]
               re == q[hs[i]]
    <3>1. ra \in Int /\ rb \in Int /\ rc \in Int /\ rd \in Int /\ re \in Int
      BY <1>4, <1>8, <2>4, <2>5, ElementOfSeq
    <3> HIDE DEF ra, rb, rc, rd, re
    <3>2. ra * rb * rc \in Int /\ rd * rb * re \in Int
      BY <3>1
    <3> QED BY <3>2 DEF ra, rb, rc, rd, re
  <2>7. m \in Seq(Int) /\ Len(m) = n /\ \A i \in 1..n : m[i] = t[i] * hs[i] * f[hs[i]]
    BY <2>6, IsASeq, LenProperties
  <2>8. W \in Seq(Int) /\ Len(W) = n /\ \A i \in 1..n : W[i] = w[i] * hs[i] * q[hs[i]]
    <3>1. W = [i \in 1..n |-> w[i] * hs[i] * q[hs[i]]]
      BY <1>2 DEF Moments
    <3> HIDE DEF W
    <3> QED BY <2>6, <3>1, IsASeq, LenProperties
  <2>9. \A i \in 1..(n + 1) : v[i] * hs[i] * f[hs[i]] \in Int
    <3> TAKE i \in 1..(n + 1)
    <3> DEFINE ra == v[i]
               rb == hs[i]
               rc == f[hs[i]]
    <3>1. ra \in Int /\ rb \in Int /\ rc \in Int
      BY <1>10, <2>4
    <3> HIDE DEF ra, rb, rc
    <3>2. ra * rb * rc \in Int
      BY <3>1
    <3> QED BY <3>2 DEF ra, rb, rc
  <2>10. M = [i \in 1..(n + 1) |-> v[i] * hs[i] * f[hs[i]]]
    BY <1>9 DEF Moments
  <2>11. M \in Seq(Int) /\ Len(M) = n + 1
    <3>1. n + 1 \in Nat
      OBVIOUS
    <3> HIDE DEF M
    <3> QED BY <2>9, <2>10, <3>1, IsASeq, LenProperties
  <2>12. (\A i \in 1..n : M[i] = m[i]) /\ M[n + 1] = Q * d * e
    <3>1. \A i \in 1..(n + 1) : M[i] = v[i] * hs[i] * f[hs[i]]
      BY <2>10
    <3>2. n + 1 \in 1..(n + 1)
      OBVIOUS
    <3> HIDE DEF M, m
    <3> QED BY <1>9, <2>5, <2>7, <3>1, <3>2
  <2>13. P \in Seq(Int) /\ Len(P) = n /\ TotalOf(P) = Q
    BY <1>6 DEF Q
  <2>14. \A i \in 1..n : Cong(m[i], (-(d * e)) * P[i] + (-d) * W[i], p)
    <3> TAKE i \in 1..n
    <3> DEFINE ra == w[i]
               rb == hs[i]
               rc == U(i)
               x == f[hs[i]]
               y == q[hs[i]]
    <3>1. /\ ra \in Int /\ rb \in Int /\ rc \in Int /\ d \in Int /\ x \in Int /\ y \in Int
          /\ t[i] = ra * (-d) * rc /\ P[i] = ra * rb * rc /\ m[i] = t[i] * rb * x
          /\ W[i] = ra * rb * y /\ Cong((rb - d) * rc, 1, p) /\ e \in Int
      BY <1>3, <1>4, <1>6, <1>8, <2>3, <2>4, <2>5, <2>7, <2>8
    <3>2. Cong(x, e + (rb - d) * y, p)
      BY <2>0, <2>1, <2>5
    <3> HIDE DEF ra, rb, rc, x, y, P, m, W, d, e
    <3>3. Cong((ra * (-d) * rc) * rb * x, (-(d * e)) * (ra * rb * rc) + (-d) * (ra * rb * y), p)
      BY <1>0, <3>1, <3>2, MomentStep
    <3> QED BY <3>1, <3>3
  <2> HIDE DEF m, M, P, W, e
  <2>15. TotalOf(M) = TotalOf(m) + Q * d * e
    BY <2>7, <2>11, <2>12, AppendPlaces
  <2>16. d \in Int /\ -d \in Int /\ 0 \in Int
    BY <1>3
  <2> HIDE DEF p, d
  <2> DEFINE c == -(d * e)
  <2>17. c \in Int
    BY <2>3, <2>16
  <2>18. \A i \in 1..Len(m) : Cong(m[i], c * P[i] + (-d) * W[i], p)
    BY <2>7, <2>14
  <2> HIDE DEF c
  <2>19. Len(m) = Len(P) /\ Len(m) = Len(W)
    BY <2>7, <2>8, <2>13
  <2>20. Cong(TotalOf(m), c * TotalOf(P) + (-d) * TotalOf(W), p)
    BY <1>0, <2>7, <2>8, <2>13, <2>16, <2>17, <2>18, <2>19, TotalLinear
  <2> DEFINE x == TotalOf(m)
             y == TotalOf(W)
  <2>21. x \in Int /\ y \in Int /\ Q \in Int /\ Cong(x, c * Q + (-d) * y, p) /\ Cong(y, 0, p)
    BY <1>6, <2>2, <2>7, <2>8, <2>13, <2>20, TotalNumber
  <2> HIDE DEF x, y
  <2>22. PICK i \in Int : x = (c * Q + (-d) * y) + i * p
    BY <2>21 DEF Cong
  <2>23. PICK j \in Int : y = 0 + j * p
    BY <2>21 DEF Cong
  <2>24. x + Q * d * e = 0 + (i - d * j) * p
    <3>1. c * Q = -(Q * d * e)
      BY <2>3, <2>16, <2>21 DEF c
    <3>2. (-d) * y = (-(d * j)) * p /\ d * j \in Int
      BY <1>0, <2>16, <2>23
    <3>3. Q * d * e \in Int
      BY <2>3, <2>16, <2>21
    <3> DEFINE k == Q * d * e
               l == d * j
    <3>4. c * Q = -k /\ k \in Int /\ l \in Int /\ (-d) * y = (-l) * p
      BY <3>1, <3>2, <3>3
    <3> HIDE DEF k, l
    <3>5. x + k = 0 + (i - l) * p
      BY <1>0, <2>22, <3>4
    <3> QED BY <3>5 DEF k, l
  <2>25. i - d * j \in Int
    BY <2>16
  <2>26. Cong(x + Q * d * e, 0, p)
    BY <2>24, <2>25 DEF Cong
  <2> QED BY <2>15, <2>26 DEF x, M
\* Each is what its numerator is of its denominator.
<1>13. \A i \in 1..(n + 1) : Cong(v[i] * den[hs[i]][n + 1], num[hs[i]][n + 1], p)
  <2>1. ASSUME NEW i \in 1..n
        PROVE  Cong(v[i] * den[hs[i]][n + 1], num[hs[i]][n + 1], p)
    <3> DEFINE h == hs[i]
               r == w[i]
               u == U(i)
               D == den[h][n]
               N == num[h][n]
               D1 == den[h][n + 1]
               N1 == num[h][n + 1]
    <3>1. /\ h \in Units /\ h \in Int /\ h # d /\ r \in Int /\ u \in Int /\ d \in Int
          /\ D \in Int /\ N \in Int /\ D1 \in Int /\ N1 \in Int
      BY <1>1, <1>3, <1>4, <1>6, <2>1 DEF Outside
    <3>2. Cong(N1, N * (-d), p) /\ Cong(D1, D * (h - d), p)
      BY <1>1, <3>1
    <3>3. Cong(r * D, N, p) /\ Cong((h - d) * u, 1, p) /\ v[i] = r * (-d) * u
      BY <1>2, <1>6, <1>8, <1>9, <2>1
    <3> HIDE DEF h, r, u, D, N, D1, N1, d, p
    <3>4. /\ r * (-d) * u \in Int /\ D * (h - d) \in Int /\ r * D \in Int /\ (h - d) * u \in Int
          /\ N * (-d) \in Int /\ 1 \in Int /\ -d \in Int
      BY <3>1
    <3>5. Cong((r * (-d) * u) * D1, (r * (-d) * u) * (D * (h - d)), p)
      BY <1>0, <3>1, <3>2, <3>4, CongTimes
    <3>6. Cong((r * D) * ((h - d) * u), N * 1, p)
      BY <1>0, <3>1, <3>3, <3>4, CongMul
    <3>7. (r * D) * ((h - d) * u) \in Int /\ N * 1 \in Int
      BY <3>1, <3>4
    <3>8. Cong((-d) * ((r * D) * ((h - d) * u)), (-d) * (N * 1), p)
      BY <1>0, <3>4, <3>6, <3>7, CongTimes
    <3>9. (-d) * ((r * D) * ((h - d) * u)) = (r * (-d) * u) * (D * (h - d))
          /\ (-d) * (N * 1) = N * (-d)
      BY <3>1
    <3>10. Cong((r * (-d) * u) * (D * (h - d)), N * (-d), p)
      BY <3>8, <3>9
    <3>11. (r * (-d) * u) * (D * (h - d)) \in Int /\ (r * (-d) * u) * D1 \in Int
      BY <3>1, <3>4
    <3>12. Cong((r * (-d) * u) * D1, N * (-d), p)
      BY <1>0, <3>4, <3>5, <3>10, <3>11, CongTrans
    <3>13. Cong(N * (-d), N1, p)
      BY <1>0, <3>1, <3>2, <3>4, CongSym
    <3>14. Cong((r * (-d) * u) * D1, N1, p)
      BY <1>0, <3>1, <3>4, <3>11, <3>12, <3>13, CongTrans
    <3> QED BY <3>3, <3>14 DEF h, D1, N1
  <2>2. Cong(v[n + 1] * den[hs[n + 1]][n + 1], num[hs[n + 1]][n + 1], p)
    <3>1. Cong(Q * den[d][n], num[d][n], p)
      BY <1>1, <1>2, <1>3 DEF Q
    <3>2. v[n + 1] = Q /\ den[d][n + 1] = den[d][n] /\ num[d][n + 1] = num[d][n]
      BY <1>1, <1>9
    <3>3. Cong(v[n + 1] * den[d][n + 1], num[d][n + 1], p)
      BY <3>1, <3>2
    <3> QED BY <3>3
  <2>3. \A i \in 1..(n + 1) : i \in 1..n \/ i = n + 1
    OBVIOUS
  <2> HIDE DEF p, d
  <2> QED BY <2>1, <2>2, <2>3
\* They weigh their poles.
<1>14. ASSUME NEW c \in Units, Outside(hs, n + 1, c)
       PROVE  Cong(TotalOf(Poles(v, hs, c)) * den[c][n + 1], num[c][n + 1], p)
  <2> DEFINE P == Poles(w, hs, d)
             R == Poles(w, hs, c)
             V(i) == Inv(hs[i] - c)
             m == [i \in 1..n |-> t[i] * hs[i] * V(i)]
             M == Poles(v, hs, c)
             z == Inv(d - c)
  <2>1. Outside(hs, n, c) /\ d # c /\ c \in Int
    <3>1. \A i \in 1..n : i \in 1..(n + 1)
      OBVIOUS
    <3>2. n + 1 \in 1..(n + 1)
      OBVIOUS
    <3> QED BY <1>1, <1>14, <3>1, <3>2 DEF Outside
  <2>2. /\ \A i \in 1..n : (hs[i] - c) % p # 0 /\ V(i) \in Int
        /\ R \in Seq(Int) /\ Len(R) = n
        /\ \A i \in 1..n : R[i] = w[i] * hs[i] * V(i)
        /\ TotalOf(R) \in Int
    BY <1>5, <1>14, <2>1
  <2>3. d - c \in Int /\ (d - c) % p # 0 /\ z \in Int /\ Cong((d - c) * z, 1, p)
    <3>1. d \in 0..(p - 1) /\ c \in 0..(p - 1)
      BY <1>0, <1>3, <1>14 DEF Units
    <3>2. d - c \in Int /\ (d - c) % p # 0
      BY <2>1, <3>1, NonzeroDifference
    <3> QED BY <3>2, Inverses
  <2>4. P \in Seq(Int) /\ Len(P) = n /\ TotalOf(P) = Q /\ \A i \in 1..n : P[i] = w[i] * hs[i] * U(i)
    BY <1>6 DEF Q
  <2>5. \A i \in 1..n : t[i] \in Int /\ hs[i] \in Int /\ t[i] * hs[i] * V(i) \in Int
    <3> TAKE i \in 1..n
    <3> DEFINE ra == t[i]
               rb == hs[i]
               rc == V(i)
    <3>1. ra \in Int /\ rb \in Int /\ rc \in Int
      BY <1>4, <1>8, <2>2, ElementOfSeq
    <3> HIDE DEF ra, rb, rc
    <3>2. ra * rb * rc \in Int
      BY <3>1
    <3> QED BY <3>1, <3>2 DEF ra, rb, rc
  <2>6. m \in Seq(Int) /\ Len(m) = n /\ \A i \in 1..n : m[i] = t[i] * hs[i] * V(i)
    BY <2>5, IsASeq, LenProperties
  <2>7. M = [i \in 1..(n + 1) |-> v[i] * hs[i] * V(i)]
    BY <1>9 DEF Poles
  <2>8. /\ \A i \in 1..n : v[i] * hs[i] * V(i) = m[i]
        /\ v[n + 1] * hs[n + 1] * V(n + 1) = Q * d * z
    BY <1>9, <2>6
  <2>9. Q * d * z \in Int
    <3>1. Q \in Int /\ d \in Int /\ z \in Int
      BY <1>3, <1>6, <2>3
    <3> HIDE DEF d, z
    <3> QED BY <3>1
  <2> HIDE DEF m, M, P, R, V, z
  <2>10. \A i \in 1..(n + 1) : v[i] * hs[i] * V(i) \in Int
    <3> TAKE i \in 1..(n + 1)
    <3>1. i \in 1..n \/ i = n + 1
      OBVIOUS
    <3>2. \A j \in 1..n : m[j] \in Int
      BY <2>6, ElementOfSeq
    <3> QED BY <2>8, <2>9, <3>1, <3>2
  <2>11. M \in Seq(Int) /\ Len(M) = n + 1 /\ \A i \in 1..(n + 1) : M[i] = v[i] * hs[i] * V(i)
    <3>1. n + 1 \in Nat
      OBVIOUS
    <3> QED BY <2>7, <2>10, <3>1, IsASeq, LenProperties
  <2>12. (\A i \in 1..n : M[i] = m[i]) /\ M[n + 1] = Q * d * z
    <3>1. \A i \in 1..n : i \in 1..(n + 1)
      OBVIOUS
    <3>2. n + 1 \in 1..(n + 1)
      OBVIOUS
    <3> QED BY <2>8, <2>11, <3>1, <3>2
  <2>13. TotalOf(M) = TotalOf(m) + Q * d * z
    BY <2>6, <2>11, <2>12, AppendPlaces
  <2>14. \A i \in 1..n : Cong(m[i], ((-d) * z) * P[i] + (d * z) * R[i], p)
    <3> TAKE i \in 1..n
    <3> DEFINE ra == w[i]
               h == hs[i]
               a == U(i)
               b == V(i)
    <3>1. /\ ra \in Int /\ h \in Int /\ a \in Int /\ b \in Int /\ d \in Int /\ z \in Int
          /\ m[i] = t[i] * h * b /\ t[i] = ra * (-d) * a
          /\ P[i] = ra * h * a /\ R[i] = ra * h * b
      BY <1>3, <1>4, <1>6, <1>8, <2>2, <2>3, <2>4, <2>6
    <3>2. Cong(a * b, z * (a - b), p)
      <4>1. h \in Int /\ d \in Int /\ c \in Int /\ (h - d) % p # 0 /\ (h - c) % p # 0 /\ (d - c) % p # 0
        BY <1>3, <1>4, <1>6, <2>1, <2>2, <2>3
      <4>2. Cong(Inv(h - d) * Inv(h - c), Inv(d - c) * (Inv(h - d) - Inv(h - c)), p)
        BY <4>1, FractionProduct
      <4> QED BY <4>2 DEF V, z
    <3> HIDE DEF ra, h, a, b, d, p
    <3>3. ra * h * (-d) \in Int /\ a * b \in Int /\ z * (a - b) \in Int
      BY <3>1
    <3>4. Cong((ra * h * (-d)) * (a * b), (ra * h * (-d)) * (z * (a - b)), p)
      BY <1>0, <3>2, <3>3, CongTimes
    <3>5. (ra * h * (-d)) * (a * b) = (ra * (-d) * a) * h * b
      BY <3>1
    <3>6. (ra * h * (-d)) * (z * (a - b)) = ((-d) * z) * (ra * h * a) + (d * z) * (ra * h * b)
      BY <3>1
    <3> QED BY <3>1, <3>4, <3>5, <3>6
  <2> DEFINE x == TotalOf(m)
             S == TotalOf(R)
             D == den[c][n]
             N == num[c][n]
             D1 == den[c][n + 1]
             N1 == num[c][n + 1]
  <2>15. /\ x \in Int /\ S \in Int /\ D \in Int /\ N \in Int /\ D1 \in Int /\ N1 \in Int
         /\ Cong(S * D, N, p) /\ Cong(N1, N * (-d), p) /\ Cong(D1, D * (c - d), p)
         /\ d \in Int /\ z \in Int /\ Q \in Int /\ c \in Int /\ Cong((d - c) * z, 1, p)
    BY <1>1, <1>2, <1>3, <1>6, <1>14, <2>1, <2>2, <2>3, <2>6, TotalNumber DEF R
  <2>16. Cong(x, ((-d) * z) * Q + (d * z) * S, p)
    <3>1. (-d) * z \in Int /\ d * z \in Int
      <4> HIDE DEF d
      <4> QED BY <2>15
    <3>2. TotalOf(P) = Q
      BY <2>4
    <3> HIDE DEF p, d
    <3>3. Len(m) = Len(P) /\ Len(m) = Len(R) /\ Len(m) = n
      BY <2>2, <2>4, <2>6
    <3>4. \A i \in 1..Len(m) : Cong(m[i], ((-d) * z) * P[i] + (d * z) * R[i], p)
      BY <2>14, <3>3
    <3>5. Cong(TotalOf(m), ((-d) * z) * TotalOf(P) + (d * z) * TotalOf(R), p)
      BY <1>0, <2>2, <2>4, <2>6, <3>1, <3>3, <3>4, TotalLinear
    <3> QED BY <3>2, <3>5
  <2> HIDE DEF x, S, D, N, D1, N1, d, p
  <2>17. /\ Q * d * z \in Int /\ ((-d) * z) * Q + (d * z) * S \in Int /\ d * z * S \in Int
         /\ x + Q * d * z \in Int
    BY <2>15
  <2>18. Cong(Q * d * z, Q * d * z, p)
    BY <1>0, <2>17, CongRefl
  <2>19. Cong(x + Q * d * z, (((-d) * z) * Q + (d * z) * S) + Q * d * z, p)
    BY <1>0, <2>15, <2>16, <2>17, <2>18, CongAdd
  <2>20. (((-d) * z) * Q + (d * z) * S) + Q * d * z = d * z * S
    BY <2>15
  <2>21. Cong(x + Q * d * z, d * z * S, p)
    BY <2>19, <2>20
  <2>22. D * (c - d) \in Int /\ S * D \in Int /\ (d - c) * z \in Int /\ 1 \in Int /\ -d \in Int
    BY <2>15
  <2>23. Cong((x + Q * d * z) * D1, (d * z * S) * (D * (c - d)), p)
    BY <1>0, <2>15, <2>17, <2>21, <2>22, CongMul
  <2>24. Cong((S * D) * ((d - c) * z), N * 1, p)
    BY <1>0, <2>15, <2>22, CongMul
  <2>25. (S * D) * ((d - c) * z) \in Int /\ N * 1 \in Int
    BY <2>15, <2>22
  <2>26. Cong((-d) * ((S * D) * ((d - c) * z)), (-d) * (N * 1), p)
    BY <1>0, <2>22, <2>24, <2>25, CongTimes
  <2>27. (-d) * ((S * D) * ((d - c) * z)) = (d * z * S) * (D * (c - d)) /\ (-d) * (N * 1) = N * (-d)
    BY <2>15
  <2>28. Cong((d * z * S) * (D * (c - d)), N * (-d), p)
    BY <2>26, <2>27
  <2>29. /\ (d * z * S) * (D * (c - d)) \in Int /\ (x + Q * d * z) * D1 \in Int /\ N * (-d) \in Int
    BY <2>15, <2>17, <2>22
  <2>30. Cong((x + Q * d * z) * D1, N * (-d), p)
    BY <1>0, <2>23, <2>28, <2>29, CongTrans
  <2>31. Cong(N * (-d), N1, p)
    BY <1>0, <2>15, <2>29, CongSym
  <2>32. Cong((x + Q * d * z) * D1, N1, p)
    BY <1>0, <2>15, <2>29, <2>30, <2>31, CongTrans
  <2> QED BY <2>13, <2>32 DEF x, M, D1, N1
<1>15. \A c \in Units : Outside(hs, n + 1, c) =>
         Cong(TotalOf(Poles(v, hs, c)) * den[c][n + 1], num[c][n + 1], p)
  BY <1>14
<1>16. Interpolates(v, n + 1, hs, num, den)
  <2>1. \A f : Polynomial(f, (n + 1) - 1) => Cong(TotalOf(Moments(v, hs, f)), 0, p)
    <3>1. (n + 1) - 1 = n
      OBVIOUS
    <3> QED BY <1>12, <3>1
  <2> HIDE DEF d
  <2> QED BY <1>9, <1>11, <1>13, <1>15, <2>1 DEF Interpolates
<1> QED BY <1>16

\* So the products interpolate lines for any number of holders.
LEMMA InterpolatesAll ==
  ASSUME NEW hs, NEW num, NEW den, Growing(hs, num, den), Len(hs) >= 1
  PROVE  \E w : Interpolates(w, Len(hs), hs, num, den)
<1> DEFINE Through(n) == n + 1 <= Len(hs) => \E w : Interpolates(w, n + 1, hs, num, den)
           P == {n \in Nat : Through(n)}
<1>0. Len(hs) \in Nat
  BY LenProperties DEF Growing
<1>1. Through(0)
  <2>1. 0 + 1 = 1
    OBVIOUS
  <2> QED BY <2>1, InterpolatesOne
<1>2. \A n \in Nat : Through(n) => Through(n + 1)
  <2> SUFFICES ASSUME NEW n \in Nat, Through(n), (n + 1) + 1 <= Len(hs)
               PROVE  \E w : Interpolates(w, (n + 1) + 1, hs, num, den)
    OBVIOUS
  <2>1. n + 1 \in Nat /\ n + 1 >= 1 /\ n + 1 <= Len(hs)
    BY <1>0
  <2>2. PICK w : Interpolates(w, n + 1, hs, num, den)
    BY <2>1
  <2> DEFINE m == n + 1
  <2>3. m \in Nat /\ m >= 1 /\ m + 1 <= Len(hs) /\ Interpolates(w, m, hs, num, den)
    BY <2>1, <2>2
  <2> HIDE DEF m, Through
  <2>4. \E v : Interpolates(v, m + 1, hs, num, den)
    BY <2>3, InterpolatesMore
  <2> QED BY <2>4 DEF m
<1> HIDE DEF Through
<1>3. 0 \in P /\ \A n \in Nat : n \in P => n + 1 \in P
  BY <1>1, <1>2
<1>4. \A n \in Nat : n \in P
  <2> HIDE DEF P
  <2> QED BY <1>3, NatSets
<1>5. Len(hs) - 1 \in Nat /\ (Len(hs) - 1) + 1 = Len(hs)
  BY <1>0
<1>6. Through(Len(hs) - 1)
  BY <1>4, <1>5
<1> QED BY <1>5, <1>6 DEF Through

\* The products at each point, of holders in any order.
LEMMA GrowingExists ==
  ASSUME NEW hs \in Seq(1..Shares), IsInjective(hs)
  PROVE  \E num, den :
           /\ Growing(hs, num, den)
           /\ \A c \in Units : /\ Numerator(hs, c) = num[c][Len(hs)]
                               /\ Denominator(hs, c) = den[c][Len(hs)]
<1> DEFINE NumOf(c, h) ==
             /\ h[0] = 1
             /\ \A n \in 1..Len(hs) : h[n] = NextNumerator(h[n - 1], hs[n], c)
             /\ Numerator(hs, c) = h[Len(hs)]
           DenOf(c, h) ==
             /\ h[0] = 1
             /\ \A n \in 1..Len(hs) : h[n] = NextDenominator(h[n - 1], hs[n], c)
             /\ Denominator(hs, c) = h[Len(hs)]
           NumSet == [0..Len(hs) -> 0..(SharePrime - 1)]
           DenSet == [0..Len(hs) -> 1..(SharePrime - 1)]
           num == [c \in Units |-> CHOOSE h \in NumSet : NumOf(c, h)]
           den == [c \in Units |-> CHOOSE h \in DenSet : DenOf(c, h)]
<1>1. \A c \in Units : \E h \in NumSet : NumOf(c, h)
  BY NumeratorSteps DEF Residues
<1>2. \A c \in Units : \E h \in DenSet : DenOf(c, h)
  <2> TAKE c \in Units
  <2>1. \E h \in [0..Len(hs) -> Units] :
          /\ h[0] = 1
          /\ \A n \in 1..Len(hs) : h[n] = NextDenominator(h[n - 1], hs[n], c)
          /\ Denominator(hs, c) = h[Len(hs)]
    BY DenominatorSteps
  <2>2. Units = 1..(SharePrime - 1)
    BY DEF Units
  <2> QED BY <2>1, <2>2
<1> HIDE DEF NumOf, DenOf, NumSet, DenSet
<1>3. \A c \in Units : num[c] \in NumSet /\ NumOf(c, num[c])
  BY <1>1
<1>4. \A c \in Units : den[c] \in DenSet /\ DenOf(c, den[c])
  BY <1>2
<1>5. num \in [Units -> NumSet] /\ den \in [Units -> DenSet]
  BY <1>3, <1>4
<1> HIDE DEF num, den
<1>6. Growing(hs, num, den)
  BY <1>3, <1>4, <1>5 DEF Growing, NumOf, DenOf, NumSet, DenSet
<1>7. \A c \in Units : /\ Numerator(hs, c) = num[c][Len(hs)]
                       /\ Denominator(hs, c) = den[c][Len(hs)]
  BY <1>3, <1>4 DEF NumOf, DenOf
<1> QED BY <1>6, <1>7

\* So the weights reconstruct uses sum to 1, and weigh such polynomials to 0.
LEMMA WeightsSum ==
  ASSUME NEW hs \in Seq(1..Shares), IsInjective(hs), Len(hs) >= 2
  PROVE  \E w \in Seq(Int) :
           /\ Len(w) = Len(hs)
           /\ \A i \in 1..Len(hs) : Weight(hs, hs[i]) \in Int /\ Cong(Weight(hs, hs[i]), w[i], SharePrime)
           /\ Cong(TotalOf(w), 1, SharePrime)
           /\ \A f : Polynomial(f, Len(hs) - 1) =>
                Cong(TotalOf(Moments(w, hs, f)), 0, SharePrime)
<1> DEFINE p == SharePrime
<1>0. Len(hs) \in Nat /\ Len(hs) >= 1 /\ p \in Nat /\ p > 2 /\ Shares < p /\ Shares \in Nat
  BY LenProperties, PrimeFacts
<1>1. PICK num, den :
        /\ Growing(hs, num, den)
        /\ \A c \in Units : /\ Numerator(hs, c) = num[c][Len(hs)]
                            /\ Denominator(hs, c) = den[c][Len(hs)]
  BY GrowingExists
<1>2. PICK w : Interpolates(w, Len(hs), hs, num, den)
  BY <1>0, <1>1, InterpolatesAll
<1>3. /\ w \in Seq(Int) /\ Len(w) = Len(hs)
      /\ \A i \in 1..Len(hs) : Cong(w[i] * den[hs[i]][Len(hs)], num[hs[i]][Len(hs)], p)
      /\ Cong(TotalOf(w), 1, p)
      /\ \A f : Polynomial(f, Len(hs) - 1) => Cong(TotalOf(Moments(w, hs, f)), 0, p)
  BY <1>2 DEF Interpolates
<1>4. ASSUME NEW i \in 1..Len(hs)
      PROVE  Weight(hs, hs[i]) \in Int /\ Cong(Weight(hs, hs[i]), w[i], p)
  <2> DEFINE c == hs[i]
             N == Numerator(hs, c)
             D == Denominator(hs, c)
             u == Inv(D)
             r == w[i]
  <2>1. c \in Units
    <3>1. c \in 1..Shares
      BY <1>4, ElementOfSeq
    <3> QED BY <1>0, <3>1 DEF Units
  <2>2. N \in 0..(p - 1) /\ D \in 1..(p - 1)
    <3>1. Len(hs) \in 0..Len(hs)
      BY <1>0
    <3>2. num[c] \in [0..Len(hs) -> 0..(p - 1)] /\ den[c] \in [0..Len(hs) -> 1..(p - 1)]
      BY <1>1, <2>1 DEF Growing
    <3> QED BY <1>1, <2>1, <3>1, <3>2
  <2>3. Cong(r * D, N, p) /\ r \in Int
    BY <1>1, <1>3, <1>4, <2>1, ElementOfSeq
  <2>4. Weight(hs, c) = (N * u) % p
    BY DEF Weight, Inv
  <2> HIDE DEF c, N, D, r
  <2>5. u \in Int /\ Cong(D * u, 1, p)
    <3>1. Inv(D) \in 0..(p - 1) /\ Cong(D * Inv(D), 1, p)
      BY <2>2, PrimeFacts DEF Inv
    <3> QED BY <1>0, <3>1
  <2> HIDE DEF u, p
  <2>6. N \in Int /\ D \in Int /\ p > 0 /\ 1 \in Int
    BY <1>0, <2>2
  <2>7. N * u \in Int /\ r * D \in Int /\ D * u \in Int /\ (r * D) * u \in Int /\ r * (D * u) \in Int
    BY <2>3, <2>5, <2>6
  <2>8. (N * u) % p \in Int /\ Cong((N * u) % p, N * u, p)
    <3> DEFINE y == N * u
    <3>1. y \in Int
      BY <2>7
    <3> HIDE DEF y
    <3>2. y % p \in 0..(p - 1) /\ Cong(y % p, y, p)
      BY <1>0, <2>6, <3>1, ModRange
    <3> QED BY <1>0, <3>2 DEF y
  <2>9. Cong(u, u, p)
    BY <1>0, <2>5, CongRefl
  <2>10. Cong((r * D) * u, N * u, p)
    BY <1>0, <2>3, <2>5, <2>6, <2>7, <2>9, CongMul
  <2>11. Cong(r * (D * u), r * 1, p)
    BY <1>0, <2>3, <2>5, <2>6, <2>7, CongTimes
  <2>12. (r * D) * u = r * (D * u) /\ r * 1 = r
    BY <2>3, <2>5, <2>6
  <2>13. Cong(N * u, r * (D * u), p)
    <3>1. Cong(N * u, (r * D) * u, p)
      BY <1>0, <2>7, <2>10, CongSym
    <3> QED BY <2>12, <3>1
  <2>14. Cong(N * u, r, p)
    <3>1. Cong(r * (D * u), r, p)
      BY <2>11, <2>12
    <3> QED BY <1>0, <2>3, <2>7, <2>13, <3>1, CongTrans
  <2>15. Cong((N * u) % p, r, p)
    BY <1>0, <2>3, <2>7, <2>8, <2>14, CongTrans
  <2> QED BY <2>4, <2>8, <2>15 DEF c, r
<1> QED BY <1>3, <1>4

\* A sum in a field, as the sum it is the residue of.
LEMMA SumResidues ==
  ASSUME NEW s \in Seq(Int), NEW q \in Nat, q > 0, NEW g \in [0..Len(s) -> Int], g[0] = 0,
         \A n \in 1..Len(s) : g[n] = Plus(g[n - 1], s[n], q)
  PROVE  Cong(g[Len(s)], TotalOf(s), q)
<1>0. Len(s) \in Nat /\ \A i \in 1..Len(s) : s[i] \in Int
  BY LenProperties
<1>2. PICK h \in [0..Len(s) -> Int] :
        /\ h[0] = 0
        /\ \A n \in 1..Len(s) : h[n] = (h[n - 1] + s[n])
        /\ TotalOf(s) = h[Len(s)]
  BY <1>0, TotalSteps
<1> DEFINE Near(n) == n <= Len(s) => Cong(g[n], h[n], q)
           P == {n \in Nat : Near(n)}
<1>3. Near(0)
  <2>1. 0 \in Int
    OBVIOUS
  <2> QED BY <1>0, <1>2, <2>1, CongRefl
<1>4. \A n \in Nat : Near(n) => Near(n + 1)
  <2> SUFFICES ASSUME NEW n \in Nat, Near(n), n + 1 <= Len(s) PROVE Cong(g[n + 1], h[n + 1], q)
    OBVIOUS
  <2>1. /\ n + 1 \in 1..Len(s) /\ n \in 0..Len(s) /\ n + 1 - 1 = n /\ n <= Len(s)
    BY <1>0
  <2>2. Cong(g[n], h[n], q)
    BY <2>1
  <2>3. g[n] \in Int /\ h[n] \in Int /\ s[n + 1] \in Int
    BY <1>0, <2>1
  <2>4. g[n + 1] = Plus(g[n], s[n + 1], q)
    <3>1. g[n + 1] = Plus(g[n + 1 - 1], s[n + 1], q)
      BY <2>1
    <3> QED BY <2>1, <3>1
  <2>5. h[n + 1] = h[n] + s[n + 1]
    <3>1. h[n + 1] = h[n + 1 - 1] + s[n + 1]
      BY <1>2, <2>1
    <3> QED BY <2>1, <3>1
  <2> HIDE DEF Near
  <2>6. g[n] + s[n + 1] \in Int /\ h[n] + s[n + 1] \in Int
    BY <2>3
  <2>7. Cong(g[n + 1], g[n] + s[n + 1], q) /\ g[n + 1] \in Int
    <3> DEFINE x == g[n] + s[n + 1]
    <3>1. x \in Int /\ g[n + 1] = x % q
      BY <2>4, <2>6 DEF Plus
    <3> HIDE DEF x
    <3>2. x % q \in 0..(q - 1) /\ Cong(x % q, x, q)
      BY <3>1, ModRange
    <3>3. x % q \in Int
      BY <3>2
    <3> QED BY <3>1, <3>2, <3>3 DEF x
  <2>8. Cong(s[n + 1], s[n + 1], q)
    BY <2>3, CongRefl
  <2>9. Cong(g[n] + s[n + 1], h[n] + s[n + 1], q)
    BY <2>2, <2>3, <2>8, CongAdd
  <2>10. Cong(g[n + 1], h[n] + s[n + 1], q)
    BY <2>6, <2>7, <2>9, CongTrans
  <2> QED BY <2>5, <2>10
<1> HIDE DEF Near
<1>5. 0 \in P /\ \A n \in Nat : n \in P => n + 1 \in P
  BY <1>3, <1>4
<1>6. \A n \in Nat : n \in P
  <2> HIDE DEF P
  <2> QED BY <1>5, NatSets
<1>7. Near(Len(s))
  BY <1>0, <1>6
<1> QED BY <1>0, <1>2, <1>7 DEF Near

Recovered(ys, hs) == FoldLeft(LAMBDA acc, j : (acc + ys[j] * Weight(hs, j)) % SharePrime, 0, hs)
NextShare(x, y, ys, hs) == (x + ys[y] * Weight(hs, y)) % SharePrime

\* What reconstruct computes, share by share.
LEMMA RecoveredSteps ==
  ASSUME NEW hs \in Seq(1..Shares), NEW ys \in [1..Shares -> Int],
         \A j \in 1..Shares : Weight(hs, j) \in Int
  PROVE  \E h \in [0..Len(hs) -> Residues(SharePrime)] :
           /\ h[0] = 0
           /\ \A n \in 1..Len(hs) : h[n] = NextShare(h[n - 1], hs[n], ys, hs)
           /\ Recovered(ys, hs) = h[Len(hs)]
<1> DEFINE op == [p \in (Residues(SharePrime)) \X (1..Shares) |-> NextShare(p[1], p[2], ys, hs)]
           base == 0
           body(it) == [t \in SUBSET (1..Len(hs)) |->
                          IF t = {} THEN base
                          ELSE NextShare(it[t \ {Max(t)}], hs[Max(t)], ys, hs)]
           iter == CHOOSE it : it = body(it)
<1>0. Len(hs) \in Nat /\ DOMAIN hs = 1..Len(hs) /\ hs \in Seq(1..Shares)
  BY LenProperties
<1>1. base \in Residues(SharePrime) /\ op \in [(Residues(SharePrime)) \X (1..Shares) -> Residues(SharePrime)]
  <2>1. base \in Residues(SharePrime)
    BY PrimeFacts DEF Residues
  <2>2. ASSUME NEW x \in Residues(SharePrime), NEW y \in 1..Shares PROVE NextShare(x, y, ys, hs) \in Residues(SharePrime)
    <3>1. x \in Int /\ ys[y] \in Int /\ Weight(hs, y) \in Int /\ SharePrime \in Nat /\ SharePrime > 0
      BY <2>2, PrimeFacts DEF Residues
    <3> DEFINE r == ys[y]
               k == Weight(hs, y)
    <3>2. r \in Int /\ k \in Int
      BY <3>1
    <3> HIDE DEF r, k
    <3>3. x + r * k \in Int
      BY <3>1, <3>2
    <3>4. (x + r * k) % SharePrime \in 0..(SharePrime - 1)
      BY <3>1, <3>3, ModRange
    <3> QED BY <3>4 DEF NextShare, Residues, r, k
  <2> QED BY <2>1, <2>2
<1>2. \A x \in Residues(SharePrime), y \in 1..Shares : op[<<x, y>>] = NextShare(x, y, ys, hs)
  OBVIOUS
<1> HIDE DEF op, base
<1>3. PICK g \in [SUBSET (1..Len(hs)) -> Residues(SharePrime)] : FoldsTo(g, hs, base, op)
  BY <1>0, <1>1, FoldExists
<1>4. g = body(g)
  <2>1. \A t \in SUBSET (1..Len(hs)) :
          g[t] = IF t = {} THEN base ELSE NextShare(g[t \ {Max(t)}], hs[Max(t)], ys, hs)
    BY <1>0, <1>2, <1>3, FoldPlaces DEF FoldsTo
  <2> QED BY <2>1
<1>5. iter = body(iter)
  BY <1>4
<1>6. Recovered(ys, hs) = iter[1..Len(hs)]
  BY <1>0 DEF Recovered, NextShare, FoldLeft, MapThenFoldSet, base
<1> HIDE DEF iter
<1>7. FoldsWithin(iter, hs, Residues(SharePrime), base, op)
  <2>1. \A t \in SUBSET (1..Len(hs)) :
          iter[t] = IF t = {} THEN base ELSE NextShare(iter[t \ {Max(t)}], hs[Max(t)], ys, hs)
    BY <1>5
  <2> HIDE DEF body
  <2> QED BY <1>0, <1>2, <2>1, FoldPlaces DEF FoldsWithin
<1> HIDE DEF body
<1>8. FoldValue(iter[1..Len(hs)], hs, Residues(SharePrime), base, op)
  BY <1>0, <1>1, <1>7, FoldSteps
<1>9. PICK h \in [0..Len(hs) -> Residues(SharePrime)] :
        /\ h[0] = base
        /\ \A n \in 1..Len(hs) : h[n] = op[<<h[n - 1], hs[n]>>]
        /\ Recovered(ys, hs) = h[Len(hs)]
  BY <1>6, <1>8 DEF FoldValue
<1>10. \A n \in 1..Len(hs) : h[n] = NextShare(h[n - 1], hs[n], ys, hs)
  <2> TAKE n \in 1..Len(hs)
  <2>0. n - 1 \in 0..Len(hs) /\ n \in 1..Len(hs)
    BY <1>0
  <2>1. h[n - 1] \in Residues(SharePrime)
    BY <2>0
  <2>2. hs[n] \in 1..Shares
    BY <2>0, ElementOfSeq
  <2> QED BY <1>2, <1>9, <2>1, <2>2
<1> QED BY <1>9, <1>10 DEF base

\* A weight is a number.
LEMMA WeightNumber ==
  ASSUME NEW hs \in Seq(1..Shares), NEW j \in 1..Shares
  PROVE  Weight(hs, j) \in Int
<1>0. Len(hs) \in 0..Len(hs) /\ SharePrime \in Nat /\ SharePrime > 0 /\ j \in Units
  BY LenProperties, PrimeFacts DEF Units
<1>1. Numerator(hs, j) \in Residues(SharePrime)
  <2>1. \E h \in [0..Len(hs) -> Residues(SharePrime)] : Numerator(hs, j) = h[Len(hs)]
    BY <1>0, NumeratorSteps
  <2> QED BY <1>0, <2>1
<1>2. Denominator(hs, j) \in Units
  <2>1. \E h \in [0..Len(hs) -> Units] : Denominator(hs, j) = h[Len(hs)]
    BY <1>0, DenominatorSteps
  <2> QED BY <1>0, <2>1
<1> DEFINE N == Numerator(hs, j)
           u == ModInverse(Denominator(hs, j), SharePrime)
<1>3. N \in Int /\ u \in Int
  <2>1. u \in 0..(SharePrime - 1)
    BY <1>2, PrimeFacts DEF Units
  <2> QED BY <1>0, <1>1, <2>1 DEF Residues
<1>4. Weight(hs, j) = (N * u) % SharePrime
  BY DEF Weight
<1> HIDE DEF N, u
<1>5. N * u \in Int
  BY <1>3
<1>6. (N * u) % SharePrime \in 0..(SharePrime - 1)
  BY <1>0, <1>5, ModRange
<1> QED BY <1>0, <1>4, <1>6

\* Any holders that reach the threshold recover the value at 0 of the polynomial their
\* shares lie on.
LEMMA Recovers ==
  ASSUME NEW ys \in [1..Shares -> Int], NEW f \in Maps, Polynomial(f, Threshold),
         \A h \in 1..Shares : Cong(ys[h], f[h], SharePrime),
         NEW H \in SUBSET (1..Shares), Cardinality(H) >= Threshold
  PROVE  ReconstructSecret(ys, H) \in Int /\ Cong(ReconstructSecret(ys, H), f[0], SharePrime)
<1> DEFINE hs == SetToSeq(H)
           p == SharePrime
           n == Cardinality(H)
<1>0. /\ p \in Nat /\ p > 0 /\ p > 2 /\ Shares \in Nat /\ Threshold \in Int /\ Threshold >= 2
  BY PrimeFacts
<1>1. IsFiniteSet(H)
  <2>1. 1 \in Int /\ Shares \in Int
    BY <1>0
  <2>2. IsFiniteSet(1..Shares)
    BY <2>1, FS_Interval
  <2> QED BY <2>2, FS_Subset
<1>2. n \in Nat /\ ExistsBijection(1..n, H)
  BY <1>1, FS_CardinalityType
<1>3. hs \in [1..n -> H] /\ IsInjective(hs)
  <2>1. \E g \in [1..n -> H] : IsInjective(g)
    BY <1>2 DEF ExistsBijection, Bijection, Injection
  <2> QED BY <2>1 DEF SetToSeq
<1>4. ReconstructSecret(ys, H) = Recovered(ys, hs)
  BY DEF ReconstructSecret, Recovered
<1> HIDE DEF hs
<1>5. hs \in Seq(1..Shares) /\ Len(hs) = n /\ n >= 2
  <2>1. \A i \in 1..n : hs[i] \in 1..Shares
    BY <1>3
  <2>2. n >= 2
    BY <1>0, <1>2
  <2> HIDE DEF n
  <2>3. hs \in [1..n -> 1..Shares]
    BY <1>3, <2>1
  <2>4. n \in Nat
    BY <1>2
  <2> DEFINE R == 1..Shares
  <2>5. hs \in [1..n -> R]
    BY <2>3
  <2> HIDE DEF R
  <2>6. hs \in Seq(R) /\ Len(hs) = n
    BY ONLY <2>4, <2>5
  <2> QED BY <2>2, <2>6 DEF R
<1> HIDE DEF n
<1>6. PICK w \in Seq(Int) :
        /\ Len(w) = n
        /\ \A i \in 1..n : Weight(hs, hs[i]) \in Int /\ Cong(Weight(hs, hs[i]), w[i], p)
        /\ Cong(TotalOf(w), 1, p)
        /\ \A l : Polynomial(l, n - 1) => Cong(TotalOf(Moments(w, hs, l)), 0, p)
  BY <1>3, <1>5, WeightsSum
<1>23. /\ 0 \in Points /\ 0 \in Int /\ n - 1 \in Nat /\ (n - 1) + 1 = n /\ Threshold <= n
       /\ Threshold \in Nat /\ n \in Nat /\ \A h \in 1..Shares : h \in Points
  <2>1. n \in Nat /\ n >= Threshold
    BY <1>2 DEF n
  <2>2. 0 \in Points /\ \A h \in 1..Shares : h \in Points
    BY <1>0 DEF Points
  <2> QED BY <1>0, <1>5, <2>1, <2>2
<1>24. PICK q \in Maps, S \in Int : Polynomial(q, n - 1) /\ Above(f, q, S)
  <2>1. Polynomial(f, n)
    BY <1>23, PolynomialUp
  <2>2. Polynomial(f, (n - 1) + 1)
    BY <1>23, <2>1
  <2> QED BY <1>23, <2>2, PolynomialSteps
<1> DEFINE T == 1
<1>28. T = 1 /\ T \in Int
  OBVIOUS
<1> HIDE DEF T
<1>25. Cong(S, f[0], p) /\ f[0] \in Int
  <2> DEFINE x == f[0]
             y == q[0]
  <2>1. x \in Int /\ y \in Int /\ Cong(x, y * 0 + S, p)
    BY <1>23, <1>24, PointNumber DEF Above
  <2> HIDE DEF x, y, p
  <2>2. y * 0 + S = S
    BY <1>24, <2>1
  <2>3. Cong(x, S, p)
    BY <2>1, <2>2
  <2>4. Cong(S, x, p)
    BY <1>0, <1>24, <2>1, <2>3, CongSym
  <2> QED BY <2>1, <2>4 DEF x
<1>7. PICK g \in [0..Len(hs) -> Residues(p)] :
        /\ g[0] = 0
        /\ \A k \in 1..Len(hs) : g[k] = NextShare(g[k - 1], hs[k], ys, hs)
        /\ Recovered(ys, hs) = g[Len(hs)]
  <2>1. \A j \in 1..Shares : Weight(hs, j) \in Int
    BY <1>5, WeightNumber
  <2> QED BY <1>5, <2>1, RecoveredSteps
<1> DEFINE s == [i \in 1..n |-> ys[hs[i]] * Weight(hs, hs[i])]
           m == Moments(w, hs, q)
<1>8. \A i \in 1..n : /\ hs[i] \in 1..Shares /\ hs[i] \in Int /\ ys[hs[i]] \in Int
                      /\ Weight(hs, hs[i]) \in Int /\ w[i] \in Int
                      /\ f[hs[i]] \in Int /\ q[hs[i]] \in Int
                      /\ Cong(ys[hs[i]], f[hs[i]], p)
                      /\ Cong(f[hs[i]], q[hs[i]] * hs[i] + S, p)
                      /\ Cong(Weight(hs, hs[i]), w[i], p)
  <2> TAKE i \in 1..n
  <2>1. hs[i] \in 1..Shares /\ w[i] \in Int
    BY <1>5, <1>6, ElementOfSeq
  <2>2. hs[i] \in Points
    BY <1>23, <2>1
  <2>3. f[hs[i]] \in Int /\ q[hs[i]] \in Int
    BY <1>24, <2>2, PointNumber
  <2>4. Cong(f[hs[i]], q[hs[i]] * hs[i] + S, p)
    BY <1>24, <2>2 DEF Above
  <2>5. hs[i] \in Int /\ ys[hs[i]] \in Int
    BY <1>0, <2>1
  <2> QED BY <1>6, <2>1, <2>3, <2>4, <2>5
<1>9. s \in Seq(Int) /\ Len(s) = n /\ \A i \in 1..n : s[i] = ys[hs[i]] * Weight(hs, hs[i])
  <2>1. \A i \in 1..n : ys[hs[i]] * Weight(hs, hs[i]) \in Int
    <3> TAKE i \in 1..n
    <3> DEFINE ra == ys[hs[i]]
               rb == Weight(hs, hs[i])
    <3>1. ra \in Int /\ rb \in Int
      BY <1>8
    <3> HIDE DEF ra, rb
    <3>2. ra * rb \in Int
      BY <3>1
    <3> QED BY <3>2 DEF ra, rb
  <2>2. n \in Nat
    BY <1>2 DEF n
  <2>3. s \in [1..n -> Int]
    BY <2>1
  <2>4. \A i \in 1..n : s[i] = ys[hs[i]] * Weight(hs, hs[i])
    OBVIOUS
  <2> HIDE DEF s
  <2>5. s \in Seq(Int) /\ Len(s) = n
    BY ONLY <2>2, <2>3
  <2> QED BY <2>4, <2>5
<1>10. m \in Seq(Int) /\ Len(m) = n /\ \A i \in 1..n : m[i] = w[i] * hs[i] * q[hs[i]]
  <2>1. \A i \in 1..n : w[i] * hs[i] * q[hs[i]] \in Int
    <3> TAKE i \in 1..n
    <3> DEFINE ra == w[i]
               rb == hs[i]
               rc == q[hs[i]]
    <3>1. ra \in Int /\ rb \in Int /\ rc \in Int
      BY <1>8
    <3> HIDE DEF ra, rb, rc
    <3>2. ra * rb * rc \in Int
      BY <3>1
    <3> QED BY <3>2 DEF ra, rb, rc
  <2>2. m = [i \in 1..n |-> w[i] * hs[i] * q[hs[i]]]
    BY <1>6 DEF Moments
  <2>3. m \in Seq(Int) /\ Len(m) = n
    BY <1>2, <2>1, <2>2, IsASeq, LenProperties DEF n
  <2> QED BY <2>2, <2>3
<1>26. Cong(TotalOf(m), 0, p)
  BY <1>6, <1>24
<1> HIDE DEF s, m, p
<1>11. g[Len(s)] \in Int /\ Cong(g[Len(s)], TotalOf(s), p)
  <2>0. Len(s) = Len(hs) /\ Len(s) \in 0..Len(hs)
    BY <1>2, <1>5, <1>9 DEF n
  <2>1. g \in [0..Len(s) -> Int]
    <3>1. \A k \in 0..Len(s) : g[k] \in Int
      <4> TAKE k \in 0..Len(s)
      <4>1. g[k] \in 0..(p - 1)
        BY <1>7, <2>0 DEF Residues
      <4> QED BY <1>0, <4>1
    <3>2. g = [k \in 0..Len(s) |-> g[k]]
      BY <1>7, <2>0
    <3> QED BY <3>1, <3>2
  <2>2. \A k \in 1..Len(s) : g[k] = Plus(g[k - 1], s[k], p)
    <3> TAKE k \in 1..Len(s)
    <3>1. g[k] = NextShare(g[k - 1], hs[k], ys, hs)
      BY <1>7, <2>0
    <3>2. s[k] = ys[hs[k]] * Weight(hs, hs[k])
      BY <1>9
    <3> QED BY <3>1, <3>2 DEF NextShare, Plus, p
  <2>3. Cong(g[Len(s)], TotalOf(s), p)
    BY <1>0, <1>7, <1>9, <2>1, <2>2, SumResidues
  <2>4. Len(s) \in 0..Len(s)
    BY <2>0
  <2> QED BY <2>1, <2>3, <2>4
<1>12. \A i \in 1..Len(s) : Cong(s[i], S * w[i] + T * m[i], p)
  <2> TAKE i \in 1..Len(s)
  <2> DEFINE ra == ys[hs[i]]
             rb == Weight(hs, hs[i])
             h == hs[i]
             r == w[i]
             x == f[hs[i]]
             y == q[hs[i]]
  <2>1. /\ ra \in Int /\ rb \in Int /\ h \in Int /\ r \in Int /\ x \in Int /\ y \in Int
        /\ Cong(ra, x, p) /\ Cong(x, y * h + S, p) /\ Cong(rb, r, p)
        /\ s[i] = ra * rb /\ m[i] = r * h * y
    BY <1>8, <1>9, <1>10
  <2> HIDE DEF ra, rb, h, r, x, y
  <2>2. y * h + S \in Int
    BY <1>24, <2>1
  <2>6. Cong(ra, y * h + S, p)
    BY <1>0, <2>1, <2>2, CongTrans
  <2>3. Cong(ra * rb, (y * h + S) * r, p)
    BY <1>0, <2>1, <2>2, <2>6, CongMul
  <2>4. (y * h + S) * r = S * r + T * (r * h * y)
    BY <1>24, <1>28, <2>1
  <2>5. Cong(s[i], S * r + T * m[i], p)
    BY <2>1, <2>3, <2>4
  <2> QED BY <2>5 DEF r
<1>13. Cong(TotalOf(s), S * TotalOf(w) + T * TotalOf(m), p)
  <2>1. Len(s) = Len(w) /\ Len(s) = Len(m)
    BY <1>6, <1>9, <1>10
  <2> QED BY <1>0, <1>6, <1>9, <1>10, <1>12, <1>24, <1>28, <2>1, TotalLinear
<1> DEFINE x == TotalOf(s)
           y == TotalOf(w)
           z == TotalOf(m)
           a == g[Len(s)]
<1>14. /\ x \in Int /\ y \in Int /\ z \in Int /\ a \in Int /\ 1 \in Int /\ 0 \in Int
       /\ Cong(a, x, p) /\ Cong(x, S * y + T * z, p) /\ Cong(y, 1, p) /\ Cong(z, 0, p)
  BY <1>6, <1>9, <1>10, <1>11, <1>13, <1>26, TotalNumber
<1>15. ReconstructSecret(ys, H) = a
  BY <1>4, <1>5, <1>7, <1>9
<1> HIDE DEF x, y, z, a
<1>16. Cong(S * y, S * 1, p) /\ Cong(T * z, T * 0, p)
  BY <1>0, <1>14, <1>24, <1>28, CongTimes
<1>17. S * y \in Int /\ S * 1 \in Int /\ T * z \in Int /\ T * 0 \in Int
  BY <1>14, <1>24, <1>28
<1>18. Cong(S * y + T * z, S * 1 + T * 0, p)
  BY <1>0, <1>16, <1>17, CongAdd
<1>19. S * 1 + T * 0 = S /\ S * y + T * z \in Int
  BY <1>17, <1>24, <1>28
<1>20. Cong(S * y + T * z, S, p)
  BY <1>18, <1>19
<1>21. Cong(x, S, p)
  BY <1>0, <1>14, <1>19, <1>20, CongTrans
<1>22. Cong(a, S, p)
  BY <1>0, <1>14, <1>21, CongTrans
<1>27. Cong(a, f[0], p)
  BY <1>0, <1>14, <1>22, <1>24, <1>25, CongTrans
<1> QED BY <1>14, <1>15, <1>27 DEF p

\* Through any values at different points there is a polynomial with as many
\* coefficients, and one more that vanishes at those points alone.
Through(f, g, hs, n, z) ==
  /\ Polynomial(f, n) /\ Polynomial(g, n + 1)
  /\ \A i \in 1..n : /\ Cong(f[hs[i]], z[hs[i]], SharePrime)
                     /\ Cong(g[hs[i]], 0, SharePrime)
  /\ \A h \in Points : Outside(hs, n, h) => g[h] % SharePrime # 0

\* A multiple of the vanishing polynomial corrects the value at the new point.
LEMMA CorrectStep ==
  ASSUME NEW p \in Nat, NEW f \in Int, NEW g \in Int, NEW z \in Int, NEW u \in Int, NEW e \in Int,
         Cong(g * u, 1, p), Cong(e, 1 * f + ((z - f) * u) * g, p)
  PROVE  Cong(e, z, p)
<1>1. PICK i \in Int : g * u = 1 + i * p
  BY DEF Cong
<1>2. PICK j \in Int : e = (1 * f + ((z - f) * u) * g) + j * p
  BY DEF Cong
<1>3. ((z - f) * u) * g = (z - f) * (g * u)
  OBVIOUS
<1> DEFINE x == g * u
<1>4. x = 1 + i * p /\ e = (1 * f + (z - f) * x) + j * p
  BY <1>1, <1>2, <1>3
<1> HIDE DEF x
<1>5. e = z + (j + (z - f) * i) * p
  BY <1>4
<1>6. j + (z - f) * i \in Int
  OBVIOUS
<1> QED BY <1>5, <1>6 DEF Cong

\* A multiple of a polynomial that vanishes at a point leaves the value there.
LEMMA KeepStep ==
  ASSUME NEW p \in Nat, NEW f \in Int, NEW g \in Int, NEW z \in Int, NEW c \in Int, NEW e \in Int,
         Cong(f, z, p), Cong(g, 0, p), Cong(e, 1 * f + c * g, p)
  PROVE  Cong(e, z, p)
<1>1. PICK i \in Int : f = z + i * p
  BY DEF Cong
<1>2. PICK j \in Int : g = 0 + j * p
  BY DEF Cong
<1>3. PICK k \in Int : e = (1 * f + c * g) + k * p
  BY DEF Cong
<1>4. e = z + (i + c * j + k) * p
  BY <1>1, <1>2, <1>3
<1>5. i + c * j + k \in Int
  OBVIOUS
<1> QED BY <1>4, <1>5 DEF Cong

\* Newton's step: one more point, corrected with the polynomial that vanishes at
\* the points before it.
LEMMA ThroughMore ==
  ASSUME NEW z \in Maps, NEW n \in Nat, NEW hs, \A i \in 1..(n + 1) : hs[i] \in Points,
         Outside(hs, n, hs[n + 1]), NEW f, NEW g, Through(f, g, hs, n, z)
  PROVE  \E e, l : Through(e, l, hs, n + 1, z)
<1> DEFINE d == hs[n + 1]
           fd == f[d]
           gd == g[d]
           zd == z[d]
           u == Inv(gd)
           c == (zd - fd) * u
           e == [h \in Points |-> 1 * f[h] + c * g[h]]
           m == [h \in Points |-> g[h] * h]
           l == [h \in Points |-> 1 * m[h] + (-d) * g[h]]
<1>0. /\ SharePrime \in Nat /\ SharePrime > 0 /\ n + 1 \in Nat /\ 0 \in Int /\ 1 \in Int
      /\ n + 1 \in 1..(n + 1) /\ \A i \in 1..n : i \in 1..(n + 1) /\ hs[i] \in Points
      /\ \A i \in 1..(n + 1) : i # n + 1 => i \in 1..n
  BY PrimeFacts
<1>1. /\ Polynomial(f, n) /\ Polynomial(g, n + 1) /\ f \in Maps /\ g \in Maps
  BY <1>0, PolynomialSteps DEF Through
<1>2. d \in Points /\ d \in Int /\ -d \in Int
  BY <1>0, PointNumber
<1>3. gd % SharePrime # 0 /\ gd \in Int /\ fd \in Int /\ zd \in Int
  BY <1>1, <1>2, PointNumber DEF Through
<1>4. u \in Int /\ Cong(gd * u, 1, SharePrime)
  BY <1>3, Inverses
<1> HIDE DEF d, u, fd, gd, zd
<1>5. c \in Int
  BY <1>3, <1>4
<1>6. \A h \in Points : /\ f[h] \in Int /\ g[h] \in Int /\ h \in Int
                       /\ 1 * f[h] + c * g[h] \in Int /\ g[h] * h \in Int
                       /\ 1 * (g[h] * h) + (-d) * g[h] \in Int
                       /\ 1 * (g[h] * h) + (-d) * g[h] = g[h] * (h - d)
  <2>1. \A h \in Points : f[h] \in Int /\ g[h] \in Int /\ h \in Int
    BY <1>1, PointNumber
  <2> HIDE DEF c
  <2>2. \A x, y, w \in Int : /\ 1 * x + c * y \in Int /\ y * w \in Int
                            /\ 1 * (y * w) + (-d) * y \in Int
                            /\ 1 * (y * w) + (-d) * y = y * (w - d)
    BY <1>2, <1>5
  <2> QED BY <2>1, <2>2
<1>7. /\ e \in Maps /\ m \in Maps /\ l \in Maps
      /\ \A h \in Points : /\ e[h] = 1 * f[h] + c * g[h] /\ m[h] = g[h] * h
                           /\ l[h] = 1 * m[h] + (-d) * g[h] /\ l[h] = g[h] * (h - d)
                           /\ e[h] \in Int /\ l[h] \in Int
  <2> HIDE DEF c
  <2>1. \A h \in Points : e[h] = 1 * f[h] + c * g[h] /\ m[h] = g[h] * h
    OBVIOUS
  <2>2. \A h \in Points : l[h] = 1 * m[h] + (-d) * g[h]
    OBVIOUS
  <2>3. \A h \in Points : l[h] = g[h] * (h - d) /\ l[h] \in Int /\ e[h] \in Int /\ m[h] \in Int
    BY <1>6, <2>1, <2>2
  <2>4. e = [h \in Points |-> e[h]] /\ m = [h \in Points |-> m[h]] /\ l = [h \in Points |-> l[h]]
    OBVIOUS
  <2> HIDE DEF e, m, l
  <2>5. e \in Maps /\ m \in Maps /\ l \in Maps
    BY <2>3, <2>4 DEF Maps
  <2> QED BY <2>1, <2>2, <2>3, <2>5
<1> HIDE DEF e, m, l, c
<1>8. Polynomial(e, n + 1)
  <2>1. Polynomial(f, n + 1)
    BY <1>1, PolynomialMore
  <2>2. \A h \in Points : Cong(e[h], 1 * f[h] + c * g[h], SharePrime)
    BY <1>0, <1>7, CongRefl
  <2> QED BY <1>0, <1>1, <1>5, <1>7, <2>1, <2>2, PolynomialSum
<1>9. Polynomial(l, (n + 1) + 1)
  <2>1. Above(m, g, 0)
    <3> SUFFICES ASSUME NEW h \in Points PROVE Cong(m[h], g[h] * h + 0, SharePrime)
      BY DEF Above
    <3>1. m[h] = g[h] * h + 0 /\ m[h] \in Int
      BY <1>6, <1>7
    <3> QED BY <1>0, <3>1, CongRefl
  <2>2. Polynomial(m, (n + 1) + 1)
    BY <1>0, <1>1, <1>7, <2>1, PolynomialSteps
  <2>3. Polynomial(g, (n + 1) + 1)
    BY <1>0, <1>1, PolynomialMore
  <2>4. \A h \in Points : Cong(l[h], 1 * m[h] + (-d) * g[h], SharePrime)
    BY <1>0, <1>7, CongRefl
  <2>5. (n + 1) + 1 \in Nat
    OBVIOUS
  <2> QED BY <1>0, <1>2, <1>7, <2>2, <2>3, <2>4, <2>5, PolynomialSum
<1>10. ASSUME NEW i \in 1..(n + 1)
       PROVE  /\ Cong(e[hs[i]], z[hs[i]], SharePrime)
              /\ Cong(l[hs[i]], 0, SharePrime)
  <2>1. CASE i = n + 1
    <3> DEFINE ed == e[d]
    <3>1. hs[i] = d
      BY <2>1 DEF d
    <3>2. ed = 1 * fd + ((zd - fd) * u) * gd /\ ed \in Int
      BY <1>2, <1>7 DEF fd, gd, c
    <3>3. l[d] = g[d] * (d - d) /\ g[d] \in Int
      BY <1>2, <1>6, <1>7
    <3>4. l[d] = 0
      <4>1. \A x \in Int : x * (d - d) = 0
        BY <1>2
      <4> QED BY <3>3, <4>1
    <3> HIDE DEF ed
    <3>5. Cong(ed, 1 * fd + ((zd - fd) * u) * gd, SharePrime)
      BY <1>0, <3>2, CongRefl
    <3>6. Cong(ed, zd, SharePrime)
      BY <1>0, <1>3, <1>4, <3>2, <3>5, CorrectStep
    <3>7. Cong(0, 0, SharePrime)
      BY <1>0, CongRefl
    <3> QED BY <3>1, <3>4, <3>6, <3>7 DEF ed, zd
  <2>2. CASE i # n + 1
    <3> DEFINE h == hs[i]
               x == f[h]
               y == g[h]
               w == z[h]
               v == e[h]
    <3>1. i \in 1..n /\ h \in Points /\ h \in Int
      BY <1>0, <2>2, PointNumber
    <3>2. Cong(x, w, SharePrime) /\ Cong(y, 0, SharePrime)
      BY <3>1 DEF Through
    <3>3. x \in Int /\ y \in Int /\ w \in Int /\ v \in Int /\ v = 1 * x + c * y
      BY <1>6, <1>7, <3>1, PointNumber
    <3>4. l[h] = y * (h - d) /\ l[h] \in Int
      BY <1>7, <3>1
    <3> HIDE DEF h, x, y, w, v
    <3>5. Cong(v, 1 * x + c * y, SharePrime)
      BY <1>0, <3>3, CongRefl
    <3>6. Cong(v, w, SharePrime)
      BY <1>0, <1>5, <3>2, <3>3, <3>5, KeepStep
    <3>7. PICK j \in Int : y = 0 + j * SharePrime
      BY <3>2 DEF Cong
    <3>8. y * (h - d) = 0 + (j * (h - d)) * SharePrime /\ j * (h - d) \in Int
      BY <1>0, <1>2, <3>1, <3>3, <3>7
    <3>9. Cong(l[h], 0, SharePrime)
      BY <3>4, <3>8 DEF Cong
    <3> QED BY <3>6, <3>9 DEF h, v, w
  <2> QED BY <2>1, <2>2
<1>11. ASSUME NEW h \in Points, Outside(hs, n + 1, h)
       PROVE  l[h] % SharePrime # 0
  <2>1. Outside(hs, n, h) /\ h # d
    BY <1>0, <1>11 DEF Outside, d
  <2> DEFINE y == g[h]
  <2>2. y % SharePrime # 0 /\ y \in Int
    BY <1>6, <2>1 DEF Through
  <2>3. h - d \in Int /\ (h - d) % SharePrime # 0
    <3>1. h \in 0..(SharePrime - 1) /\ d \in 0..(SharePrime - 1)
      BY <1>2, PointNumber
    <3> QED BY <2>1, <3>1, NonzeroDifference
  <2>4. l[h] = y * (h - d)
    BY <1>7
  <2> HIDE DEF y
  <2>5. (y * (h - d)) % SharePrime # 0
    BY <2>2, <2>3, NonzeroProduct
  <2> QED BY <2>4, <2>5
<1>12. Through(e, l, hs, n + 1, z)
  BY <1>8, <1>9, <1>10, <1>11 DEF Through
<1> QED BY <1>12

\* A polynomial with as many coefficients as points takes any values at them.
LEMMA ThroughAll ==
  ASSUME NEW z \in Maps, NEW k \in Nat, NEW hs \in [1..k -> Points], IsInjective(hs)
  PROVE  \E f : Polynomial(f, k) /\ \A i \in 1..k : Cong(f[hs[i]], z[hs[i]], SharePrime)
<1> DEFINE Exists(n) == n <= k => \E f, g : Through(f, g, hs, n, z)
           P == {n \in Nat : Exists(n)}
<1>0. SharePrime \in Nat /\ SharePrime > 1 /\ 0 \in Nat /\ 1 \in Int
  BY PrimeFacts
<1>1. Exists(0)
  <2> DEFINE f == [h \in Points |-> 0]
             g == [h \in Points |-> 1]
  <2>1. Polynomial(f, 0) /\ Polynomial(g, 0 + 1)
    BY <1>0, PolynomialPlain
  <2>2. \A h \in Points : g[h] % SharePrime # 0
    BY <1>0
  <2>3. \A i \in 1..0 : FALSE
    OBVIOUS
  <2> HIDE DEF f, g
  <2>4. Through(f, g, hs, 0, z)
    BY <2>1, <2>2, <2>3 DEF Through
  <2> QED BY <2>4
<1>2. \A n \in Nat : Exists(n) => Exists(n + 1)
  <2> SUFFICES ASSUME NEW n \in Nat, Exists(n), n + 1 <= k
               PROVE  \E f, g : Through(f, g, hs, n + 1, z)
    OBVIOUS
  <2>1. PICK f, g : Through(f, g, hs, n, z)
    <3>1. n <= k
      OBVIOUS
    <3> QED BY <3>1
  <2>2. \A i \in 1..(n + 1) : i \in 1..k /\ hs[i] \in Points
    OBVIOUS
  <2>3. Outside(hs, n, hs[n + 1])
    <3> SUFFICES ASSUME NEW i \in 1..n, hs[i] = hs[n + 1] PROVE FALSE
      BY DEF Outside
    <3>1. i \in DOMAIN hs /\ n + 1 \in DOMAIN hs
      OBVIOUS
    <3>2. i = n + 1
      BY <3>1 DEF IsInjective
    <3> QED BY <3>2
  <2> HIDE DEF Exists
  <2> QED BY <2>1, <2>2, <2>3, ThroughMore
<1> HIDE DEF Exists
<1>3. 0 \in P /\ \A n \in Nat : n \in P => n + 1 \in P
  BY <1>1, <1>2
<1>4. \A n \in Nat : n \in P
  <2> HIDE DEF P
  <2> QED BY <1>3, NatSets
<1>5. Exists(k) /\ k <= k
  BY <1>4
<1>6. PICK f, g : Through(f, g, hs, k, z)
  BY <1>5 DEF Exists
<1> QED BY <1>6 DEF Through

\* Fewer shares than the threshold are shares of every secret.
LEMMA SharesHide ==
  ASSUME NEW H \in SUBSET (1..Shares), Cardinality(H) < Threshold,
         NEW secret \in 0..(SharePrime - 1), NEW ys \in [1..Shares -> 0..(SharePrime - 1)]
  PROVE  \E coeffs \in Coefficients : \A h \in H : ShareOf(secret, coeffs, h) = ys[h]
<1> DEFINE p == SharePrime
           N == H \cup {0}
           k == Cardinality(N)
           z == [h \in Points |-> IF h = 0 THEN secret ELSE ys[h]]
<1>0. /\ SharePrime \in Nat /\ SharePrime > 0 /\ Shares \in Nat /\ Threshold \in Int /\ Threshold >= 2
      /\ Threshold \in Nat /\ 0 \in Points /\ \A h \in 1..Shares : h \in Points /\ h # 0
      /\ \A h \in Points : h # 0 => h \in 1..Shares
  BY PrimeFacts DEF Points
<1>1. IsFiniteSet(H)
  <2>1. IsFiniteSet(1..Shares)
    BY <1>0, FS_Interval
  <2> QED BY <2>1, FS_Subset
<1>2. IsFiniteSet(N) /\ k = Cardinality(H) + 1 /\ N \subseteq Points
  <2>1. 0 \notin H
    BY <1>0
  <2> QED BY <1>0, <1>1, <2>1, FS_AddElement
<1>3. k \in Nat /\ ExistsBijection(1..k, N) /\ k <= Threshold
  <2>1. Cardinality(H) \in Nat /\ k \in Nat /\ ExistsBijection(1..k, N)
    BY <1>1, <1>2, FS_CardinalityType
  <2> QED BY <1>0, <1>2, <2>1
<1>4. PICK hs \in [1..k -> N] : IsInjective(hs) /\ \A h \in N : \E i \in 1..k : hs[i] = h
  BY <1>3 DEF ExistsBijection, Bijection, Injection, Surjection
<1>5. hs \in [1..k -> Points]
  <2> HIDE DEF N
  <2> QED BY <1>2, <1>4
<1>6. /\ z \in Maps /\ z[0] = secret /\ \A h \in 1..Shares : z[h] = ys[h]
      /\ \A h \in Points : z[h] \in 0..(SharePrime - 1)
  <2>1. z[0] = secret /\ \A h \in 1..Shares : z[h] = ys[h]
    BY <1>0
  <2>2. \A h \in Points : z[h] \in 0..(SharePrime - 1)
    BY <1>0, <2>1
  <2>3. z = [h \in Points |-> z[h]]
    OBVIOUS
  <2> HIDE DEF z
  <2>4. \A h \in Points : z[h] \in Int
    BY <1>0, <2>2
  <2>5. z \in Maps
    BY <2>3, <2>4 DEF Maps
  <2> QED BY <2>1, <2>2, <2>5
<1> HIDE DEF z
<1>7. PICK f : Polynomial(f, k) /\ \A i \in 1..k : Cong(f[hs[i]], z[hs[i]], SharePrime)
  <2> HIDE DEF k
  <2> QED BY <1>3, <1>4, <1>5, <1>6, ThroughAll
<1>8. \A h \in N : Cong(f[h], z[h], SharePrime)
  BY <1>4, <1>7
<1>9. Polynomial(f, Threshold)
  <2> HIDE DEF k
  <2> QED BY <1>0, <1>3, <1>7, PolynomialUp
<1>10. PICK cs \in Seq(Residues(SharePrime)) :
         Len(cs) = Threshold /\ \A h \in Points : Cong(Evaluated(cs, h).y, f[h], SharePrime)
  BY <1>0, <1>9, EvaluatedFinds
<1>11. \A h \in N : Evaluated(cs, h).y = z[h]
  <2> TAKE h \in N
  <2> DEFINE x == Evaluated(cs, h).y
             y == f[h]
             w == z[h]
  <2>1. h \in Points /\ f \in Maps
    BY <1>0, <1>2, <1>9, PolynomialSteps
  <2>2. x \in 0..(SharePrime - 1) /\ w \in 0..(SharePrime - 1) /\ y \in Int
    <3>1. Evaluated(cs, h) \in Accumulated
      BY <1>10, <2>1, EvaluatedPower
    <3>2. x \in 0..(SharePrime - 1)
      BY <3>1 DEF Accumulated, Residues
    <3> QED BY <1>6, <2>1, <3>2, PointNumber
  <2>3. Cong(x, y, SharePrime) /\ Cong(y, w, SharePrime)
    BY <1>8, <1>10, <2>1
  <2> HIDE DEF x, y, w
  <2>4. x \in Int /\ w \in Int
    BY <1>0, <2>2
  <2>5. Cong(x, w, SharePrime)
    BY <1>0, <2>2, <2>3, <2>4, CongTrans
  <2>6. x = w
    BY <1>0, <2>2, <2>5, CongSame
  <2> QED BY <2>6 DEF x, w
<1> DEFINE coeffs == [i \in 1..(Threshold - 1) |-> cs[i + 1]]
<1>12. cs[1] = secret
  <2>1. Evaluated(cs, 0).y = cs[1]
    BY <1>0, <1>10, EvaluatedPower
  <2> QED BY <1>6, <1>11, <2>1
<1>13. coeffs \in Coefficients /\ <<secret>> \o coeffs = cs
  <2>1. \A i \in 1..(Threshold - 1) : i + 1 \in 1..Len(cs) /\ cs[i + 1] \in 0..(SharePrime - 1)
    <3> TAKE i \in 1..(Threshold - 1)
    <3>1. i + 1 \in 1..Len(cs)
      BY <1>0, <1>10
    <3>2. cs[i + 1] \in Residues(SharePrime)
      BY <3>1, ElementOfSeq
    <3> QED BY <3>1, <3>2 DEF Residues
  <2>2. coeffs \in Coefficients
    BY <2>1 DEF Coefficients
  <2> DEFINE n == Threshold - 1
             R == Residues(SharePrime)
  <2>3. n \in Nat /\ coeffs \in [1..n -> R]
    BY <1>0, <2>1 DEF Residues
  <2>4. \A i \in 1..n : coeffs[i] = cs[i + 1]
    OBVIOUS
  <2>5. <<secret>> \in Seq(R) /\ Len(<<secret>>) = 1 /\ <<secret>>[1] = secret
    <3>1. secret \in R
      BY DEF Residues
    <3> HIDE DEF R
    <3> QED BY <3>1
  <2> HIDE DEF coeffs, R
  <2>6. coeffs \in Seq(R) /\ Len(coeffs) = n
    <3> HIDE DEF n
    <3> QED BY ONLY <2>3, IsASeq, LenProperties
  <2> DEFINE t == <<secret>> \o coeffs
  <2>7. /\ t \in Seq(R) /\ Len(t) = 1 + n
        /\ \A i \in 1..(1 + n) : t[i] = IF i <= 1 THEN <<secret>>[i] ELSE coeffs[i - 1]
    BY <2>5, <2>6, ConcatProperties
  <2> HIDE DEF t
  <2>8. Len(t) = Len(cs) /\ \A i \in 1..Len(t) : t[i] = cs[i]
    <3>1. Len(t) = Len(cs)
      BY <1>0, <1>10, <2>7
    <3>2. ASSUME NEW i \in 1..Len(t) PROVE t[i] = cs[i]
      <4>1. CASE i = 1
        BY <1>12, <2>5, <2>7, <4>1
      <4>2. CASE i # 1
        <5>1. i - 1 \in 1..n /\ i - 1 + 1 = i /\ ~(i <= 1) /\ i \in 1..(1 + n)
          BY <1>0, <2>7, <4>2
        <5> QED BY <2>4, <2>7, <5>1
      <4> QED BY <4>1, <4>2
    <3> QED BY <3>1, <3>2
  <2>9. t = cs
    BY <1>10, <2>7, <2>8, SeqEqual DEF R
  <2> QED BY <2>2, <2>9 DEF t, coeffs
<1>14. \A h \in H : ShareOf(secret, coeffs, h) = ys[h]
  <2> TAKE h \in H
  <2>1. h \in N /\ h \in 1..Shares
    OBVIOUS
  <2>2. ShareOf(secret, coeffs, h) = Evaluated(cs, h).y
    BY <1>13 DEF ShareOf
  <2> QED BY <1>6, <1>11, <2>1, <2>2
<1> QED BY <1>13, <1>14

\* The sum of the encodings is a number.
LEMMA EncodedNumber ==
  ASSUME NEW rs \in Seq(Releases)
  PROVE  TotalOf(EncodedOf(rs, SharePrime)) \in Int
<1>0. SharePrime \in Nat /\ SharePrime > 0
  BY PrimeFacts
<1>1. \A i \in 1..Len(rs) : Encode(rs[i], SharePrime) \in Int
  <2> TAKE i \in 1..Len(rs)
  <2>1. rs[i] \in Releases
    BY ElementOfSeq
  <2>2. rs[i] \in Int
    BY <2>1, ReleaseFacts
  <2>3. Encode(rs[i], SharePrime) \in 0..(SharePrime - 1)
    BY <1>0, <2>2, Encoded
  <2> QED BY <1>0, <2>3
<1>2. Len(rs) \in Nat
  BY LenProperties
<1>3. EncodedOf(rs, SharePrime) \in Seq(Int)
  BY <1>1, <1>2, IsASeq DEF EncodedOf
<1> QED BY <1>3, TotalNumber

\* Any holders that reach the threshold recover what the clients released.
LEMMA HoldersRecover ==
  ASSUME AgInd, scheme = "shamir", released # <<>>,
         NEW H \in SUBSET (1..Shares), Cardinality(H) >= Threshold
  PROVE  Decode(ReconstructSecret(summed, H), SharePrime) = TotalOf(QuantaOf(released))
<1> DEFINE e == TotalOf(EncodedOf(released, SharePrime))
           r == ReconstructSecret(summed, H)
<1>0. /\ released \in Seq(Releases) /\ Len(released) <= MaxContributions /\ SharePrime \in Nat
      /\ SharePrime > 0 /\ summed \in [1..Shares -> 0..(SharePrime - 1)]
  BY PrimeFacts DEF AgInd, AgTyped
<1>1. CurveOf(contribs, released, drift, summed)
  BY HoldIs DEF AgInd
<1>2. PICK f \in Maps :
        /\ Polynomial(f, Threshold) /\ Cong(f[0], e, SharePrime)
        /\ \A h \in 1..Shares : Cong(summed[h], f[h], SharePrime)
  BY <1>1 DEF CurveOf
<1>3. e \in Int
  BY <1>0, EncodedNumber
<1> HIDE DEF e
<1>4. summed \in [1..Shares -> Int]
  <2>1. \A h \in 1..Shares : summed[h] \in Int
    <3> TAKE h \in 1..Shares
    <3>1. summed[h] \in 0..(SharePrime - 1)
      BY <1>0
    <3> QED BY <1>0, <3>1
  <2>2. summed = [h \in 1..Shares |-> summed[h]]
    BY <1>0
  <2> QED BY <2>1, <2>2
<1>5. r \in Int /\ Cong(r, e, SharePrime)
  <2> DEFINE x == f[0]
  <2>1. r \in Int /\ Cong(r, x, SharePrime)
    BY <1>2, <1>4, Recovers
  <2>2. 0 \in Points
    BY PrimeFacts DEF Points
  <2>3. x \in Int /\ Cong(x, e, SharePrime)
    BY <1>2, <2>2, PointNumber
  <2> HIDE DEF x, r
  <2> QED BY <1>0, <1>3, <2>1, <2>3, CongTrans
<1> HIDE DEF r
<1>6. Decode(r, SharePrime) = TotalOf(QuantaOf(released))
  <2>1. SharePrime \in {FieldQ, SharePrime}
    OBVIOUS
  <2> QED BY <1>0, <1>5, <2>1, QuantaFit DEF e
<1> QED BY <1>6 DEF r

\* What the holders of Shamir shares publish is the sum of the releases.
LEMMA HoldersPublish ==
  ASSUME AgInd, scheme = "shamir", outcome # Unpublished
  PROVE  /\ outcome.verified /\ drift = 0 /\ released # <<>>
         /\ outcome.sum = TotalOf(QuantaOf(released))
         /\ Absolute(10 * outcome.sum - SumOfReleased) <= 5 * outcome.clients
<1>1. /\ outcome = [verified |-> TRUE,
                    sum |-> Decode(ReconstructSecret(summed, 1..Threshold), SharePrime),
                    clients |-> Len(released)]
      /\ released # <<>>
  BY DEF AgInd, PublishedTrue
<1>2. drift = 0
  BY HoldIs DEF AgInd, CurveOf
<1>3. 1..Threshold \in SUBSET (1..Shares) /\ Cardinality(1..Threshold) >= Threshold
  <2>1. Threshold \in Int /\ Threshold >= 2 /\ Threshold <= Shares /\ Shares \in Int /\ 1 \in Int
    BY PrimeFacts
  <2>2. Cardinality(1..Threshold) = IF 1 > Threshold THEN 0 ELSE Threshold - 1 + 1
    BY <2>1, FS_Interval
  <2>3. \A i \in 1..Threshold : i \in 1..Shares
    BY <2>1
  <2> QED BY <2>1, <2>2, <2>3
<1> DEFINE d == TotalOf(QuantaOf(released))
           r == TotalOf(released)
           n == Len(released)
           e == TotalOf(EncodedOf(released, SharePrime))
<1>4. outcome.sum = d
  BY <1>1, <1>3, HoldersRecover
<1>5. d \in Int /\ r \in Int /\ -(5 * n) <= 10 * d - r /\ 10 * d - r <= 5 * n /\ n \in Nat
  <2>0. /\ released \in Seq(Releases) /\ Len(released) <= MaxContributions
        /\ SharePrime \in {FieldQ, SharePrime} /\ SharePrime \in Nat
    BY PrimeFacts DEF AgInd, AgTyped
  <2>1. e \in Int
    BY <2>0, EncodedNumber
  <2>2. Cong(e, e, SharePrime)
    <3> HIDE DEF e
    <3> QED BY <2>0, <2>1, CongRefl
  <2>3. d \in Int /\ r \in Int /\ -(5 * n) <= 10 * d - r /\ 10 * d - r <= 5 * n
    BY <1>1, <2>0, <2>1, <2>2, QuantaFit
  <2> QED BY <2>0, <2>3, LenProperties
<1>6. SumOfReleased = r
  BY DEF SumOfReleased, TotalOf
<1>7. outcome.clients = n /\ outcome.verified
  BY <1>1
<1> HIDE DEF d, r, n
<1>8. Absolute(10 * outcome.sum - SumOfReleased) <= 5 * outcome.clients
  BY <1>4, <1>5, <1>6, <1>7 DEF Absolute
<1> QED BY <1>1, <1>2, <1>4, <1>7, <1>8 DEF d

\* Under either scheme, what is published is proven.
LEMMA AgIndProven == AgInd => AggregateProven
<1> SUFFICES ASSUME AgInd PROVE AggregateProven
  OBVIOUS
<1>1. scheme \in {"two_server", "shamir"}
  BY DEF AgInd, AgTyped
<1>2. outcome # Unpublished =>
        /\ outcome.verified <=> drift = 0
        /\ outcome.verified =>
             Absolute(10 * outcome.sum - SumOfReleased) <= 5 * outcome.clients
  BY <1>1, ServersPublish, HoldersPublish
<1>3. \A s \in 0..(FieldQ - 1) :
        scheme = "two_server" /\ VerifyAgainstCommitments(s) =>
          s = (ServerSum("a") + ServerSum("b") - drift) % FieldQ
  BY ServersOnly
<1>4. drift = 0 /\ Len(contribs) = 1 => Reconstruct(1) = Quantise(released[1])
  BY ServersSee
<1>5. scheme = "shamir" /\ outcome # Unpublished =>
        \A H \in SUBSET (1..Shares) : Cardinality(H) >= Threshold =>
          Decode(ReconstructSecret(summed, H), SharePrime) = outcome.sum
  BY HoldersPublish, HoldersRecover
<1>6. scheme = "shamir" /\ released # <<>> =>
        \A H \in SUBSET (1..Shares), secret \in 0..(SharePrime - 1) :
          Cardinality(H) < Threshold => <<H, secret, [h \in H |-> summed[h]]>> \in Views
  <2>1. summed \in [1..Shares -> 0..(SharePrime - 1)]
    BY DEF AgInd, AgTyped
  <2>2. ASSUME NEW H \in SUBSET (1..Shares), NEW secret \in 0..(SharePrime - 1),
               Cardinality(H) < Threshold
        PROVE  <<H, secret, [h \in H |-> summed[h]]>> \in Views
    <3>1. PICK coeffs \in Coefficients : \A h \in H : ShareOf(secret, coeffs, h) = summed[h]
      BY <2>1, <2>2, SharesHide
    <3>2. [h \in H |-> summed[h]] = [h \in H |-> ShareOf(secret, coeffs, h)]
      BY <3>1
    <3>3. H \in {K \in SUBSET (1..Shares) : Cardinality(K) < Threshold}
      BY <2>2
    <3> QED BY <3>2, <3>3 DEF Views
  <2> QED BY <2>2
<1> QED BY <1>2, <1>3, <1>4, <1>5, <1>6 DEF AggregateProven

\* Secure aggregation proves what it publishes: whatever the masks, the noise and the
\* coefficients, and whichever shares the servers alter, an aggregate verifies exactly
\* when the alterations cancel, only the true sum verifies, any holders that reach the
\* threshold recover it, and what fewer of them hold hides it.
THEOREM AggregatesAlwaysProven == AgSpec => []AggregateProven
<1>1. AgSpec => []AgInd
  BY AgIndInit, AgIndStep, PTL DEF AgSpec
<1> QED BY <1>1, AgIndProven, PTL

-----------------------------------------------------------------------------
(* The composition.                                                        *)

\* A step of the whole is a step of each part, or leaves it alone.
LEMMA StepsOfParts ==
  [Next]_vars =>
    /\ [LcNext]_lcVars /\ [DegNext]_degVars /\ [LiveNext]_liveVars /\ [LoopNext]_loopVars
    /\ [A1Next]_a1Vars /\ [AuthNext]_authVars /\ [O1Next]_o1Vars /\ [AcNext]_acVars
    /\ [HsmNext]_hsmVars /\ [OpNext]_opVars /\ [NisNext]_nsVars /\ [ShNext]_shVars
    /\ [VaultNext]_vaultVars /\ [RegNext]_regVars /\ [KfNext]_kfVars /\ [CnNext]_cnVars
    /\ [KpNext]_kpVars /\ [AgNext]_agVars /\ [FedNext]_fedVars /\ [EnvNext]_envVars
    /\ [AnNext]_anVars
<1> SUFFICES ASSUME [Next]_vars
             PROVE  /\ [LcNext]_lcVars /\ [DegNext]_degVars /\ [LiveNext]_liveVars /\ [LoopNext]_loopVars
                    /\ [A1Next]_a1Vars /\ [AuthNext]_authVars /\ [O1Next]_o1Vars /\ [AcNext]_acVars
                    /\ [HsmNext]_hsmVars /\ [OpNext]_opVars /\ [NisNext]_nsVars /\ [ShNext]_shVars
                    /\ [VaultNext]_vaultVars /\ [RegNext]_regVars /\ [KfNext]_kfVars /\ [CnNext]_cnVars
                    /\ [KpNext]_kpVars /\ [AgNext]_agVars /\ [FedNext]_fedVars /\ [EnvNext]_envVars
                    /\ [AnNext]_anVars
  OBVIOUS
<1>1. CASE UNCHANGED vars
  <2>1. UNCHANGED <<lcVars, degVars, liveVars, loopVars, a1Vars, authVars, o1Vars,
                    acVars, hsmVars, opVars, nsVars, shVars, vaultVars, regVars,
                    kfVars, cnVars, kpVars, agVars, fedVars, envVars, anVars>>
    BY <1>1 DEF vars
  <2> QED BY <2>1
<1>2. CASE Next
  BY <1>2 DEF Next, In, Still
<1> QED BY <1>1, <1>2

\* The rApp in its place among the other parts: its words to systemd, the SMO and
\* the checkpoint stay true, and it is silent before it closes its clients.
THEOREM LifecycleTruthfulAlways == Spec => []LifecycleTruthful
<1>1. Init => LcInd
  BY LcIndInit DEF Init
<1>2. LcInd /\ [Next]_vars => LcInd'
  BY StepsOfParts, LcIndStep
<1>3. LcInd => LifecycleTruthful
  BY LcIndTruth DEF LifecycleTruthful, Of
<1> QED BY <1>1, <1>2, <1>3, PTL DEF Spec

\* Whichever part moves: an API request, a hardware key and an A1 token are each
\* honoured for exactly what they were issued for.
THEOREM CredentialsAlwaysSound == Spec => []CredentialsSound
<1> DEFINE Ind == AcInd /\ HsmInd /\ AuthInd
<1>1. Init => Ind
  BY AcIndInit, HsmIndInit, AuthIndInit DEF Init
<1>2. Ind /\ [Next]_vars => Ind'
  BY StepsOfParts, AcIndStep, HsmIndStep, AuthIndStep
<1>3. Ind => CredentialsSound
  BY AcIndSound, HsmIndHandles DEF CredentialsSound, Of, AuthInd
<1> QED BY <1>1, <1>2, <1>3, PTL DEF Spec

\* Whichever part moves: what the operator APIs answer is true of the chain, and a
\* chain that verifies is the one the time-stamping authorities signed.
THEOREM EvidenceAlwaysTruthful == Spec => []EvidenceTruthful
<1> DEFINE Ind == OpInd /\ AnInd
<1>1. Init => Ind
  BY OpIndInit, AnIndInit DEF Init
<1>2. Ind /\ [Next]_vars => Ind'
  BY StepsOfParts, OpIndStep, AnIndStep
<1>3. Ind => EvidenceTruthful
  BY AnIndHolds DEF EvidenceTruthful, Of, OpInd
<1> QED BY <1>1, <1>2, <1>3, PTL DEF Spec

\* Whichever part moves: no message of a topic is passed over unseen, what a sink
\* was given is delivered or reported, and an event says what its report said.
THEOREM TelemetryAlwaysKept == Spec => []TelemetryKept
<1> DEFINE Ind == KfInd /\ CnInd /\ KpInd
<1>1. Init => Ind
  BY KfIndInit, CnIndInit, KpIndInit DEF Init
<1>2. Ind /\ [Next]_vars => Ind'
  BY StepsOfParts, KfIndStep, CnIndStep, KpIndStep
<1>3. Ind => TelemetryKept
  BY KfIndKept, CnIndDelivers, KpIndFaithful DEF TelemetryKept, Of
<1> QED BY <1>1, <1>2, <1>3, PTL DEF Spec

\* Whichever part moves: a candidate model is promoted on what the shadow saw, and
\* the learner's masks and transitions are the loop's.
THEOREM LearningAlwaysOnTruth == Spec => []LearningOnTruth
<1> DEFINE Ind == ShInd /\ EnvInd
<1>1. Init => Ind
  BY ShIndInit, EnvIndInit DEF Init
<1>2. Ind /\ [Next]_vars => Ind'
  BY StepsOfParts, ShIndStep, EnvIndStep
<1>3. Ind => LearningOnTruth
  BY ShIndTruth, EnvIndTruth DEF LearningOnTruth, Of
<1> QED BY <1>1, <1>2, <1>3, PTL DEF Spec

\* Whichever part moves: a published aggregate is proven, a poisoner's influence is
\* bounded and found, and what was unlearned or erased has left no trace.
THEOREM FederationAlwaysSound == Spec => []FederationSound
<1> DEFINE Ind == AgInd /\ FedInd
<1>1. Init => Ind
  BY AgIndInit, FedIndInit DEF Init
<1>2. Ind /\ [Next]_vars => Ind'
  BY StepsOfParts, AgIndStep, FedIndStep
<1>3. Ind => FederationSound
  BY AgIndProven, FedIndInfluence, FedIndDetects, FedIndUnlearns, FedIndErases
  DEF FederationSound, Of
<1> QED BY <1>1, <1>2, <1>3, PTL DEF Spec

\* What each part keeps true for itself.
LoopsInd == LcInd /\ DegInd /\ LiveInd /\ LoopInd /\ VaultInd
SessionsInd == A1Ind /\ A1Counted /\ AuthInd /\ O1Ind /\ AcInd /\ HsmInd
RecordsInd == OpInd /\ OpBounded /\ NisInd /\ AnInd /\ AnBounded /\ RegInd /\ RegTakes
FeedsInd == KfInd /\ CnInd /\ KpInd
LearnersInd == ShInd /\ EnvInd /\ AgInd /\ FedInd

\* Every part keeps its values within their types, whichever moves: the sequences,
\* locks, calls and counters of all twenty-one, for any values of the constants.
THEOREM TypesAlwaysOK == Spec => []TypesOK
<1> DEFINE Ind == LoopsInd /\ SessionsInd /\ RecordsInd /\ FeedsInd /\ LearnersInd
<1>1. Init => Ind
  <2>1. Init => LoopsInd
    BY LcIndInit, DegIndInit, LiveIndInit, LoopIndInit, VaultIndInit DEF Init, LoopsInd
  <2>2. Init => SessionsInd
    BY A1IndInit, A1CountedInit, AuthIndInit, O1IndInit, AcIndInit, HsmIndInit
    DEF Init, SessionsInd
  <2>3. Init => AnBounded
    BY AnAssumption DEF Init, AnInit, AnBounded
  <2>4. Init => RecordsInd
    BY <2>3, OpIndInit, OpBoundedInit, NisIndInit, AnIndInit, RegIndInit, RegTakesInit
    DEF Init, RecordsInd
  <2>5. Init => FeedsInd
    BY KfIndInit, CnIndInit, KpIndInit DEF Init, FeedsInd
  <2>6. Init => LearnersInd
    BY ShIndInit, EnvIndInit, AgIndInit, FedIndInit DEF Init, LearnersInd
  <2> QED BY <2>1, <2>2, <2>4, <2>5, <2>6
<1>2. Ind /\ [Next]_vars => Ind'
  <2>1. LoopsInd /\ [Next]_vars => LoopsInd'
    BY StepsOfParts, LcIndStep, DegIndStep, LiveIndStep, LoopIndStep, VaultIndStep
    DEF LoopsInd
  <2>2. SessionsInd /\ [Next]_vars => SessionsInd'
    BY StepsOfParts, A1IndStep, A1CountedStep, AuthIndStep, O1IndStep, AcIndStep, HsmIndStep
    DEF SessionsInd
  <2>3. RecordsInd /\ [Next]_vars => RecordsInd'
    BY StepsOfParts, OpIndStep, OpBoundedStep, NisIndStep, AnIndStep, AnBoundedStep,
       RegIndStep, RegTakesStep DEF RecordsInd
  <2>4. FeedsInd /\ [Next]_vars => FeedsInd'
    BY StepsOfParts, KfIndStep, CnIndStep, KpIndStep DEF FeedsInd
  <2>5. LearnersInd /\ [Next]_vars => LearnersInd'
    BY StepsOfParts, ShIndStep, EnvIndStep, AgIndStep, FedIndStep DEF LearnersInd
  <2> QED BY <2>1, <2>2, <2>3, <2>4, <2>5
<1>3. Ind => TypesOK
  <2> SUFFICES ASSUME Ind PROVE TypesOK
    OBVIOUS
  <2>1. LcTypeOK /\ DegTypeOK /\ LiveTypeOK /\ LoopTypeOK /\ VaultTypeOK
    BY LcIndTypes, DegIndTypes, LiveIndTypes, LoopIndTypes, VaultIndTypes DEF LoopsInd
  <2>2. A1TypeOK /\ AuthTypeOK /\ O1TypeOK /\ AcTypeOK /\ HsmTypeOK
    BY A1IndTypes, AuthIndTypes, O1IndTypes, AcIndTypes, HsmIndTypes DEF SessionsInd
  <2>3. OpTypeOK /\ NisTypeOK /\ AnTypeOK /\ RegTypeOK
    BY OpIndTypes, NisIndTypes, AnIndTypes, RegIndTypes DEF RecordsInd
  <2>4. KfTypeOK /\ CnTypeOK /\ KpTypeOK
    BY KfIndTypes, CnIndTypes, KpIndTypes DEF FeedsInd
  <2>5. ShTypeOK /\ EnvTypeOK /\ AgTypeOK /\ FedTypeOK
    BY ShIndTypes, EnvIndTypes, AgIndTypes, FedIndTypes DEF LearnersInd
  <2> QED BY <2>1, <2>2, <2>3, <2>4, <2>5 DEF TypesOK, Of
<1> QED BY <1>1, <1>2, <1>3, PTL DEF Spec
=============================================================================
