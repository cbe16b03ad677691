-------------------------- MODULE Sumcheck_proofs --------------------------
(***************************************************************************)
(* Proofs about Sumcheck for every prime field, every set of requests and  *)
(* traces, and every prover.  First the field and sums over it, then the   *)
(* multilinear extension: it is linear in every coordinate, so the sum     *)
(* below a prefix of a point is a line in the next coordinate and the sum  *)
(* of that line's values at 0 and 1.  Two lines meet in one point.  Then   *)
(* the verifiers, the inductive invariant and the theorems.                *)
(*                                                                         *)
(* What a sum, a product or a table of claims computes is a recursive      *)
(* function; facts about it are proved for the set of naturals that have   *)
(* them, by Induct.                                                        *)
(***************************************************************************)
EXTENDS Sumcheck, WellFoundedInduction, TLAPS

-----------------------------------------------------------------------------
\* Induction, residues and lines.

\* A set of naturals with 0 and the successor of each of its members has them all.
LEMMA Least ==
  ASSUME NEW S, S \subseteq Nat, S # {}
  PROVE  \E m \in S : \A n \in S : m <= n
<1>1. PICK m \in S : \A n \in S : ~(<<n, m>> \in OpToRel(<, Nat))
  BY NatLessThanWellFounded, WFMin
<1>2. OpToRel(<, Nat) = {ss \in Nat \X Nat : ss[1] < ss[2]}
  BY DEF OpToRel
<1>3. ASSUME NEW n \in S PROVE m <= n
  <2>1. ~(<<n, m>> \in {ss \in Nat \X Nat : ss[1] < ss[2]})
    BY <1>1, <1>2
  <2>2. m \in Nat /\ n \in Nat
    OBVIOUS
  <2> QED  BY <2>1, <2>2
<1> QED  BY <1>3

\* Induction over the naturals, for a set that holds 0 and every successor.
LEMMA Induct ==
  ASSUME NEW S, 0 \in S, \A n \in Nat : n \in S => n + 1 \in S
  PROVE  \A n \in Nat : n \in S
<1> SUFFICES ASSUME Nat \ S # {} PROVE FALSE
  OBVIOUS
<1>1. PICK m \in Nat \ S : \A n \in Nat \ S : m <= n
  BY Least
<1>2. m # 0 /\ m - 1 \in Nat
  OBVIOUS
<1>3. m - 1 \in S
  BY <1>1, <1>2
<1> QED  BY <1>2, <1>3, <1>1

\* Recursion over 1..n: a function that takes its value at k from the one at k-1.
Iterates(n, V, e, F, f) ==
  f \in [0 .. n -> V] /\ f[0] = e /\ \A k \in 1 .. n : f[k] = F[k][f[k - 1]]

\* A recursion over 1..n with steps in V has a solution: the recursive tables of sums,
\* products and claims take values in their sets.
LEMMA Recursion ==
  ASSUME NEW n \in Nat, NEW V, NEW e \in V, NEW F \in [1 .. n -> [V -> V]]
  PROVE  \E f : Iterates(n, V, e, F, f)
<1> DEFINE Good(m, f) == f[0] = e /\ \A k \in 1 .. m : f[k] = F[k][f[k - 1]]
           S == {m \in Nat : m <= n => \E f \in [0 .. m -> V] : Good(m, f)}
<1>1. 0 \in S
  <2>1. [k \in 0 .. 0 |-> e] \in [0 .. 0 -> V] /\ Good(0, [k \in 0 .. 0 |-> e])
    OBVIOUS
  <2> QED  BY <2>1
<1>2. ASSUME NEW m \in Nat, m \in S PROVE m + 1 \in S
  <2> SUFFICES ASSUME m + 1 <= n PROVE \E f \in [0 .. m + 1 -> V] : Good(m + 1, f)
    OBVIOUS
  <2>1. PICK f \in [0 .. m -> V] : Good(m, f)
    BY <1>2
  <2> DEFINE g == [k \in 0 .. m + 1 |-> IF k <= m THEN f[k] ELSE F[m + 1][f[m]]]
  <2>2. m + 1 \in 1 .. n /\ f[m] \in V
    OBVIOUS
  <2>3. g \in [0 .. m + 1 -> V]
    BY <2>2
  <2>4. Good(m + 1, g)
    <3>1. g[0] = e
      BY <2>1
    <3>2. ASSUME NEW k \in 1 .. m + 1 PROVE g[k] = F[k][g[k - 1]]
      <4>1. k - 1 \in 0 .. m /\ k \in 0 .. m + 1
        OBVIOUS
      <4>2. g[k - 1] = f[k - 1]
        BY <4>1
      <4>3. CASE k = m + 1
        <5>1. k - 1 = m /\ ~(k <= m)
          BY <4>3
        <5>2. g[k] = F[m + 1][f[m]]
          BY <4>1, <5>1
        <5> QED  BY <4>2, <4>3, <5>1, <5>2
      <4>4. CASE k <= m
        BY <4>2, <4>4, <2>1
      <4> QED  BY <4>3, <4>4
    <3> QED  BY <3>1, <3>2
  <2> QED  BY <2>3, <2>4
<1> HIDE DEF S
<1>3. \A m \in Nat : m \in S
  BY <1>1, <1>2, Induct
<1> QED  BY <1>3 DEF S, Iterates

-----------------------------------------------------------------------------
\* Division by the order of the field, which every operation of p3_field ends in.
LEMMA DivMod ==
  ASSUME NEW a \in Int
  PROVE  /\ a % P \in Elements
         /\ a = P * (a \div P) + (a % P)
         /\ a \div P \in Int
BY FieldAssumption DEF Elements

\* The residue is the only element of the field that differs by a multiple.
LEMMA ModUnique ==
  ASSUME NEW a \in Int, NEW q \in Int, NEW r \in Elements, a = q * P + r
  PROVE  a % P = r
BY FieldAssumption DEF Elements

\* Numbers that differ by a multiple of P are one field element.
LEMMA SameMod ==
  ASSUME NEW a \in Int, NEW b \in Int, NEW q \in Int, a = b + q * P
  PROVE  a % P = b % P
<1>1. a = (q + (b \div P)) * P + (b % P)
  BY DivMod, FieldAssumption
<1> QED  BY <1>1, DivMod, ModUnique

\* Field elements and the order of the field are numbers.
LEMMA ElementsAreNat == Elements \subseteq Nat /\ Elements \subseteq Int /\ P \in Nat /\ P \in Int
BY FieldAssumption DEF Elements

\* A sum may be reduced before it is added to.
LEMMA ModAdd == \A a, b \in Int : ((a % P) + b) % P = (a + b) % P
<1> TAKE a, b \in Int
<1> DEFINE q == a \div P
           r == a % P
<1>1. q \in Int /\ r \in Int /\ a = P * q + r
  BY DivMod, ElementsAreNat
<1> HIDE DEF q, r
<1>2. r + b = (a + b) + (-q) * P /\ r + b \in Int /\ a + b \in Int /\ -q \in Int
  BY <1>1, ElementsAreNat
<1>3. (r + b) % P = (a + b) % P
  BY <1>1, <1>2, SameMod
<1> QED  BY <1>3 DEF r

\* The arithmetic identity behind ModMul.
LEMMA MulShift == \A a, p, q, r \in Int : a * r = a * (p * q + r) + (-(a * q)) * p
OBVIOUS

\* A factor may be reduced before it is multiplied.
LEMMA ModMul == \A a, b \in Int : (a * (b % P)) % P = (a * b) % P
<1> TAKE a, b \in Int
<1> DEFINE q == b \div P
           r == b % P
<1>1. q \in Int /\ r \in Int /\ b = P * q + r
  BY DivMod, ElementsAreNat
<1> HIDE DEF q, r
<1>2. a * r \in Int /\ a * b \in Int /\ -(a * q) \in Int
  BY <1>1
<1>3. a * r = a * b + (-(a * q)) * P
  BY <1>1, MulShift, ElementsAreNat
<1>4. (a * r) % P = (a * b) % P
  BY <1>2, <1>3, SameMod
<1> QED  BY <1>4 DEF r

\* Addition, subtraction and multiplication stay in the field.
LEMMA Typed ==
  ASSUME NEW a \in Elements, NEW b \in Elements
  PROVE  Plus(a, b) \in Elements /\ Minus(a, b) \in Elements /\ Times(a, b) \in Elements
BY DivMod, FieldAssumption DEF Plus, Minus, Times, Elements

\* The value at x of the line through a at 0 and b at 1.
Blend(a, b, x) == Plus(a, Times(x, Minus(b, a)))

\* The line through a round's pair that the handler evaluates at the challenge.
LEMMA LineIsBlend == \A pair, x : Line(pair, x) = Blend(pair[1], pair[2], x)
BY DEF Line, Blend

\* A blend is the residue of the same expression over the integers.
LEMMA BlendMod ==
  ASSUME NEW a \in Int, NEW b \in Int, NEW x \in Int
  PROVE  Blend(a, b, x) = (a + x * (b - a)) % P
<1> DEFINE d == b - a
<1>1. d \in Int /\ x * d \in Int
  OBVIOUS
<1>2. Times(x, Minus(b, a)) = (x * d) % P
  BY <1>1, ModMul DEF Times, Minus
<1>3. (a + ((x * d) % P)) % P = (a + x * d) % P
  <2>1. \A y \in Int : (a + (y % P)) % P = (a + y) % P
    <3> TAKE y \in Int
    <3>1. y % P \in Int
      BY DivMod, ElementsAreNat
    <3>2. a + (y % P) = (y % P) + a /\ a + y = y + a
      BY <3>1
    <3> QED  BY <3>2, ModAdd
  <2> QED  BY <1>1, <2>1
<1> QED  BY <1>2, <1>3 DEF Blend, Plus

\* A blend of residues is the blend of the numbers.
LEMMA BlendResidues ==
  ASSUME NEW u \in Int, NEW v \in Int, NEW x \in Int
  PROVE  Blend(u % P, v % P, x) = Blend(u, v, x)
<1> DEFINE p == u \div P
           q == v \div P
           r == u % P
           t == v % P
<1>1. p \in Int /\ q \in Int /\ r \in Int /\ t \in Int /\ u = P * p + r /\ v = P * q + t
  BY DivMod, ElementsAreNat
<1> HIDE DEF p, q, r, t
<1>2. \A pp, qq, rr, tt, PP, xx \in Int :
        rr + xx * (tt - rr) =
          ((PP * pp + rr) + xx * ((PP * qq + tt) - (PP * pp + rr)))
            + (-(pp + xx * (qq - pp))) * PP
  OBVIOUS
<1>3. r + x * (t - r) = (u + x * (v - u)) + (-(p + x * (q - p))) * P
  BY <1>1, <1>2, ElementsAreNat
<1>4. r + x * (t - r) \in Int /\ u + x * (v - u) \in Int /\ -(p + x * (q - p)) \in Int
  BY <1>1
<1>5. (r + x * (t - r)) % P = (u + x * (v - u)) % P
  BY <1>3, <1>4, SameMod
<1>6. Blend(r, t, x) = (r + x * (t - r)) % P
  BY <1>1, BlendMod
<1>7. Blend(u, v, x) = (u + x * (v - u)) % P
  BY <1>1, BlendMod
<1>8. Blend(r, t, x) = Blend(u, v, x)
  BY <1>5, <1>6, <1>7, Zenon
<1> QED  BY <1>8 DEF r, t

\* A sum of two residues is the residue of the sum.
LEMMA ModAdd2 == \A a, b \in Int : ((a % P) + (b % P)) % P = (a + b) % P
<1> TAKE a, b \in Int
<1>1. a % P \in Int /\ b % P \in Int
  BY DivMod, ElementsAreNat
<1>2. ((a % P) + (b % P)) % P = (a + (b % P)) % P
  BY <1>1, ModAdd
<1>3. a + (b % P) = (b % P) + a /\ a + b = b + a
  BY <1>1
<1> QED  BY <1>2, <1>3, ModAdd

\* The sum of two lines at a point is the line of the sums at that point.
LEMMA BlendSum ==
  ASSUME NEW a \in Elements, NEW b \in Elements, NEW c \in Elements, NEW d \in Elements,
         NEW x \in Elements
  PROVE  Plus(Blend(a, b, x), Blend(c, d, x)) = Blend(Plus(a, c), Plus(b, d), x)
<1>0. a \in Int /\ b \in Int /\ c \in Int /\ d \in Int /\ x \in Int
  BY ElementsAreNat
<1>1. Plus(Blend(a, b, x), Blend(c, d, x)) = ((a + x * (b - a)) + (c + x * (d - c))) % P
  <2>1. Blend(a, b, x) = (a + x * (b - a)) % P /\ a + x * (b - a) \in Int
    BY <1>0, BlendMod
  <2>2. Blend(c, d, x) = (c + x * (d - c)) % P /\ c + x * (d - c) \in Int
    BY <1>0, BlendMod
  <2> QED  BY <2>1, <2>2, ModAdd2, Zenon DEF Plus
<1>2. Blend(Plus(a, c), Plus(b, d), x) = Blend(a + c, b + d, x)
  BY <1>0, BlendResidues DEF Plus
<1>3. Blend(a + c, b + d, x) = ((a + c) + x * ((b + d) - (a + c))) % P
  BY <1>0, BlendMod
<1>4. (a + x * (b - a)) + (c + x * (d - c)) = (a + c) + x * ((b + d) - (a + c))
  BY <1>0
<1> QED  BY <1>1, <1>2, <1>3, <1>4

\* A multiple of a line at a point is the line of the multiples at that point.
LEMMA BlendScale ==
  ASSUME NEW a \in Elements, NEW b \in Elements, NEW c \in Elements, NEW x \in Elements
  PROVE  /\ Times(c, Blend(a, b, x)) = Blend(Times(c, a), Times(c, b), x)
         /\ Times(Blend(a, b, x), c) = Blend(Times(a, c), Times(b, c), x)
<1>0. a \in Int /\ b \in Int /\ c \in Int /\ x \in Int
  BY ElementsAreNat
<1>1. Blend(a, b, x) = (a + x * (b - a)) % P /\ a + x * (b - a) \in Int
  BY <1>0, BlendMod
<1>2. Times(c, Blend(a, b, x)) = (c * (a + x * (b - a))) % P
  BY <1>0, <1>1, ModMul, Zenon DEF Times
<1>3. Blend(Times(c, a), Times(c, b), x) = Blend(c * a, c * b, x)
  BY <1>0, BlendResidues DEF Times
<1>4. Blend(c * a, c * b, x) = (c * a + x * (c * b - c * a)) % P
  BY <1>0, BlendMod
<1>5. c * (a + x * (b - a)) = c * a + x * (c * b - c * a)
  BY <1>0
<1>6. Times(c, Blend(a, b, x)) = Blend(Times(c, a), Times(c, b), x)
  BY <1>2, <1>3, <1>4, <1>5, Zenon
<1>7. Blend(a, b, x) \in Int
  BY <1>1, DivMod, ElementsAreNat
<1>8. \A y \in Int : Times(y, c) = Times(c, y)
  BY <1>0 DEF Times
<1> QED  BY <1>0, <1>6, <1>7, <1>8

\* The line from a to a, from 0 to 1 (a set bit's factor of a basis) and from 1 to 0
\* (the factor of a clear bit).
LEMMA BlendEnds ==
  ASSUME NEW a \in Elements, NEW x \in Elements
  PROVE  /\ Blend(a, a, x) = a
         /\ Blend(0, 1, x) = x
         /\ Blend(Minus(1, 0), Minus(1, 1), x) = Minus(1, x)
<1>0. a \in Int /\ x \in Int
  BY ElementsAreNat
<1>1. \A y \in Elements : y % P = y
  BY FieldAssumption DEF Elements
<1>2. Blend(a, a, x) = (a + x * (a - a)) % P /\ a + x * (a - a) = a
  BY <1>0, BlendMod
<1>3. Blend(0, 1, x) = (0 + x * (1 - 0)) % P /\ 0 + x * (1 - 0) = x
  BY <1>0, BlendMod
<1>4. Blend(Minus(1, 0), Minus(1, 1), x) = Blend(1 - 0, 1 - 1, x)
  BY <1>0, BlendResidues DEF Minus
<1>5. Blend(1 - 0, 1 - 1, x) = ((1 - 0) + x * ((1 - 1) - (1 - 0))) % P
  BY <1>0, BlendMod
<1>6. (1 - 0) + x * ((1 - 1) - (1 - 0)) = 1 - x
  BY <1>0
<1> QED  BY <1>1, <1>2, <1>3, <1>4, <1>5, <1>6 DEF Minus

\* A point of a line is a field element.
LEMMA BlendTyped ==
  ASSUME NEW a \in Elements, NEW b \in Elements, NEW x \in Elements
  PROVE  Blend(a, b, x) \in Elements
BY Typed DEF Blend

\* Addition is commutative and associative; 0 and 1 are neutral.
LEMMA FieldLaws ==
  ASSUME NEW a \in Elements, NEW b \in Elements, NEW c \in Elements
  PROVE  /\ Plus(a, b) = Plus(b, a)
         /\ Plus(Plus(a, b), c) = Plus(a, Plus(b, c))
         /\ Plus(0, a) = a /\ Times(1, a) = a /\ Times(a, 1) = a /\ Times(0, a) = 0
         /\ 0 \in Elements /\ 1 \in Elements
<1>0. a \in Int /\ b \in Int /\ c \in Int
  BY ElementsAreNat
<1>1. \A y \in Elements : y % P = y
  BY FieldAssumption DEF Elements
<1>2. 0 \in Elements /\ 1 \in Elements
  BY FieldAssumption DEF Elements
<1>3. Plus(a, b) = Plus(b, a)
  BY <1>0 DEF Plus
<1>4. Plus(Plus(a, b), c) = ((a + b) + c) % P
  BY <1>0, ModAdd DEF Plus
<1>5. Plus(a, Plus(b, c)) = ((b + c) + a) % P
  <2>1. Plus(b, c) \in Int
    BY Typed, ElementsAreNat
  <2>2. Plus(a, Plus(b, c)) = (((b + c) % P) + a) % P
    BY <1>0, <2>1 DEF Plus
  <2> QED  BY <1>0, <2>2, ModAdd
<1>6. (b + c) + a = (a + b) + c
  BY <1>0
<1>7. 0 + a = a /\ 1 * a = a /\ a * 1 = a /\ 0 * a = 0
  BY <1>0
<1> QED  BY <1>1, <1>2, <1>3, <1>4, <1>5, <1>6, <1>7 DEF Plus, Times

\* Four summands may be added in either order of the middle two.
LEMMA PlusSwap ==
  ASSUME NEW a \in Elements, NEW b \in Elements, NEW c \in Elements, NEW d \in Elements
  PROVE  Plus(Plus(a, b), Plus(c, d)) = Plus(Plus(a, c), Plus(b, d))
<1>1. Plus(b, Plus(c, d)) = Plus(c, Plus(b, d))
  BY FieldLaws, Typed
<1>2. Plus(c, d) \in Elements /\ Plus(b, d) \in Elements
  BY Typed
<1> QED  BY <1>1, <1>2, FieldLaws

-----------------------------------------------------------------------------
\* Sums and products of vectors (Total, Product).

\* A sum by its partial ones.
Sums(s, n, t) ==
  /\ t \in [0 .. n -> Elements]
  /\ t[0] = 0 /\ Total(s) = t[n]
  /\ \A k \in 1 .. n : t[k] = Plus(t[k - 1], s[k])

\* A product by its partial ones.
Products(s, n, t) ==
  /\ t \in [0 .. n -> Elements]
  /\ t[0] = 1 /\ Product(s) = t[n]
  /\ \A k \in 1 .. n : t[k] = Times(t[k - 1], s[k])

\* Total is the last of its partial sums.
LEMMA TotalIs ==
  ASSUME NEW s \in Seq(Elements), NEW n \in Nat, n = Len(s)
  PROVE  \E t : Sums(s, n, t)
<1> DEFINE F == [k \in 1 .. n |-> [y \in Elements |-> Plus(y, s[k])]]
<1>0. n \in Nat /\ (\A k \in 1 .. n : s[k] \in Elements) /\ 0 \in Elements
  BY FieldAssumption DEF Elements
<1>1. F \in [1 .. n -> [Elements -> Elements]]
  BY <1>0, Typed
<1>2. \A k \in 1 .. n, y \in Elements : F[k][y] = Plus(y, s[k])
  OBVIOUS
<1> HIDE DEF F
<1>3. PICK t \in [0 .. n -> Elements] : t[0] = 0 /\ \A k \in 1 .. n : t[k] = F[k][t[k - 1]]
  <2>1. PICK t : Iterates(n, Elements, 0, F, t)
    <3> HIDE DEF F
    <3> QED  BY <1>0, <1>1, Recursion
  <2> QED  BY <2>1 DEF Iterates
<1>4. \A k \in 1 .. n : t[k] = Plus(t[k - 1], s[k])
  <2> TAKE k \in 1 .. n
  <2>1. t[k - 1] \in Elements
    BY <1>0
  <2> QED  BY <2>1, <1>2, <1>3
<1>5. t = [k \in 0 .. n |-> IF k = 0 THEN 0 ELSE Plus(t[k - 1], s[k])]
  <2>1. \A k \in 0 .. n : t[k] = IF k = 0 THEN 0 ELSE Plus(t[k - 1], s[k])
    BY <1>0, <1>3, <1>4
  <2> QED  BY <2>1
<1>6. \E g : g = [k \in 0 .. Len(s) |-> IF k = 0 THEN 0 ELSE Plus(g[k - 1], s[k])]
             /\ Total(s) = g[Len(s)]
  BY <1>5 DEF Total
<1>7. PICK g : g = [k \in 0 .. n |-> IF k = 0 THEN 0 ELSE Plus(g[k - 1], s[k])]
             /\ Total(s) = g[n]
  BY <1>6
<1>8. g[0] = 0 /\ \A k \in 1 .. n : g[k] = Plus(g[k - 1], s[k])
  <2>1. g[0] = 0
    BY <1>0, <1>7
  <2>2. ASSUME NEW k \in 1 .. n PROVE g[k] = Plus(g[k - 1], s[k])
    BY <1>0, <1>7
  <2> QED  BY <2>1, <2>2
<1> DEFINE S == {m \in Nat : m <= n => t[m] = g[m]}
<1>9. 0 \in S
  BY <1>3, <1>8
<1>10. ASSUME NEW m \in Nat, m \in S PROVE m + 1 \in S
  BY <1>0, <1>4, <1>8, <1>10
<1>11. \A m \in Nat : m \in S
  <2> HIDE DEF S
  <2> QED  BY <1>9, <1>10, Induct
<1>12. t[n] = g[n]
  BY <1>0, <1>11
<1> QED  BY <1>3, <1>4, <1>7, <1>12 DEF Sums
\* Product is the last of its partial products.
LEMMA ProductIs ==
  ASSUME NEW s \in Seq(Elements), NEW n \in Nat, n = Len(s)
  PROVE  \E t : Products(s, n, t)
<1> DEFINE F == [k \in 1 .. n |-> [y \in Elements |-> Times(y, s[k])]]
<1>0. n \in Nat /\ (\A k \in 1 .. n : s[k] \in Elements) /\ 1 \in Elements
  BY FieldAssumption DEF Elements
<1>1. F \in [1 .. n -> [Elements -> Elements]]
  BY <1>0, Typed
<1>2. \A k \in 1 .. n, y \in Elements : F[k][y] = Times(y, s[k])
  OBVIOUS
<1> HIDE DEF F
<1>3. PICK t \in [0 .. n -> Elements] : t[0] = 1 /\ \A k \in 1 .. n : t[k] = F[k][t[k - 1]]
  <2>1. PICK t : Iterates(n, Elements, 1, F, t)
    <3> HIDE DEF F
    <3> QED  BY <1>0, <1>1, Recursion
  <2> QED  BY <2>1 DEF Iterates
<1>4. \A k \in 1 .. n : t[k] = Times(t[k - 1], s[k])
  <2> TAKE k \in 1 .. n
  <2>1. t[k - 1] \in Elements
    BY <1>0
  <2> QED  BY <2>1, <1>2, <1>3
<1>5. t = [k \in 0 .. n |-> IF k = 0 THEN 1 ELSE Times(t[k - 1], s[k])]
  <2>1. \A k \in 0 .. n : t[k] = IF k = 0 THEN 1 ELSE Times(t[k - 1], s[k])
    BY <1>0, <1>3, <1>4
  <2> QED  BY <2>1
<1>6. \E g : g = [k \in 0 .. Len(s) |-> IF k = 0 THEN 1 ELSE Times(g[k - 1], s[k])]
             /\ Product(s) = g[Len(s)]
  BY <1>5 DEF Product
<1>7. PICK g : g = [k \in 0 .. n |-> IF k = 0 THEN 1 ELSE Times(g[k - 1], s[k])]
             /\ Product(s) = g[n]
  BY <1>6
<1>8. g[0] = 1 /\ \A k \in 1 .. n : g[k] = Times(g[k - 1], s[k])
  <2>1. g[0] = 1
    BY <1>0, <1>7
  <2>2. ASSUME NEW k \in 1 .. n PROVE g[k] = Times(g[k - 1], s[k])
    BY <1>0, <1>7
  <2> QED  BY <2>1, <2>2
<1> DEFINE S == {m \in Nat : m <= n => t[m] = g[m]}
<1>9. 0 \in S
  BY <1>3, <1>8
<1>10. ASSUME NEW m \in Nat, m \in S PROVE m + 1 \in S
  BY <1>0, <1>4, <1>8, <1>10
<1>11. \A m \in Nat : m \in S
  <2> HIDE DEF S
  <2> QED  BY <1>9, <1>10, Induct
<1>12. t[n] = g[n]
  BY <1>0, <1>11
<1> QED  BY <1>3, <1>4, <1>7, <1>12 DEF Products

\* A sum of field elements is one; a sum of one term is that term.
LEMMA TotalTyped ==
  ASSUME NEW s \in Seq(Elements)
  PROVE  Total(s) \in Elements /\ (Len(s) = 1 => Total(s) = s[1])
<1> DEFINE n == Len(s)
<1>1. PICK t : Sums(s, n, t)
  BY TotalIs
<1>2. ASSUME Len(s) = 1 PROVE Total(s) = s[1]
  <2>1. s[1] \in Elements /\ Total(s) = Plus(0, s[1])
    BY <1>1, <1>2 DEF Sums
  <2> QED  BY <2>1, FieldLaws
<1> QED  BY <1>1, <1>2 DEF Sums

\* A product of field elements is one.
LEMMA ProductTyped ==
  ASSUME NEW s \in Seq(Elements)
  PROVE  Product(s) \in Elements
<1> DEFINE n == Len(s)
<1>1. PICK t : Products(s, n, t)
  BY ProductIs
<1> QED  BY <1>1 DEF Products

\* A sum of points of lines is the point of the line of the sums.
LEMMA TotalBlend ==
  ASSUME NEW a \in Seq(Elements), NEW b \in Seq(Elements), NEW c \in Seq(Elements),
         NEW x \in Elements, Len(b) = Len(a), Len(c) = Len(a),
         \A k \in 1 .. Len(a) : c[k] = Blend(a[k], b[k], x)
  PROVE  Total(c) = Blend(Total(a), Total(b), x)
<1> DEFINE n == Len(a)
<1>0. n \in Nat /\ Len(b) = n /\ Len(c) = n
      /\ \A k \in 1 .. n : a[k] \in Elements /\ b[k] \in Elements
  OBVIOUS
<1>1. PICK ta : Sums(a, n, ta)
  BY <1>0, TotalIs
<1>2. PICK tb : Sums(b, n, tb)
  BY <1>0, TotalIs
<1>3. PICK tc : Sums(c, n, tc)
  BY <1>0, TotalIs
<1>a. \A m \in Nat : m <= n => ta[m] \in Elements /\ tb[m] \in Elements /\ tc[m] \in Elements
  BY <1>1, <1>2, <1>3 DEF Sums
<1>z. /\ ta[0] = 0 /\ tb[0] = 0 /\ tc[0] = 0
      /\ Total(a) = ta[n] /\ Total(b) = tb[n] /\ Total(c) = tc[n]
  BY <1>1, <1>2, <1>3 DEF Sums
<1>b. \A m \in Nat : m + 1 <= n =>
        /\ ta[m + 1] = Plus(ta[m], a[m + 1]) /\ tb[m + 1] = Plus(tb[m], b[m + 1])
        /\ tc[m + 1] = Plus(tc[m], c[m + 1])
        /\ a[m + 1] \in Elements /\ b[m + 1] \in Elements
  <2> TAKE m \in Nat
  <2> HAVE m + 1 <= n
  <2>1. m + 1 \in 1 .. n /\ (m + 1) - 1 = m
    BY <1>0
  <2> QED  BY <1>0, <1>1, <1>2, <1>3, <2>1 DEF Sums
<1> DEFINE S == {m \in Nat : m <= n => tc[m] = Blend(ta[m], tb[m], x)}
<1>4. 0 \in S
  <2>1. 0 \in Elements /\ Blend(0, 0, x) = 0
    BY BlendEnds, FieldAssumption DEF Elements
  <2> QED  BY <1>0, <1>z, <2>1
<1>5. ASSUME NEW m \in Nat, m \in S PROVE m + 1 \in S
  <2> SUFFICES ASSUME m + 1 <= n PROVE tc[m + 1] = Blend(ta[m + 1], tb[m + 1], x)
    OBVIOUS
  <2>1. /\ ta[m] \in Elements /\ tb[m] \in Elements
        /\ a[m + 1] \in Elements /\ b[m + 1] \in Elements
        /\ tc[m] = Blend(ta[m], tb[m], x)
    BY <1>0, <1>5, <1>a, <1>b
  <2>2. /\ ta[m + 1] = Plus(ta[m], a[m + 1]) /\ tb[m + 1] = Plus(tb[m], b[m + 1])
        /\ tc[m + 1] = Plus(tc[m], c[m + 1]) /\ c[m + 1] = Blend(a[m + 1], b[m + 1], x)
    BY <1>0, <1>b
  <2>3. Plus(Blend(ta[m], tb[m], x), Blend(a[m + 1], b[m + 1], x)) =
          Blend(Plus(ta[m], a[m + 1]), Plus(tb[m], b[m + 1]), x)
    <3>1. \A p, q, r, t \in Elements :
            Plus(Blend(p, q, x), Blend(r, t, x)) = Blend(Plus(p, r), Plus(q, t), x)
      BY BlendSum
    <3>2. \A r, t \in Elements :
            Plus(Blend(ta[m], tb[m], x), Blend(r, t, x)) = Blend(Plus(ta[m], r), Plus(tb[m], t), x)
      BY <2>1, <3>1, Zenon
    <3> QED  BY <2>1, <3>2, Zenon
  <2> QED  BY <2>1, <2>2, <2>3, Zenon
<1>6. \A m \in Nat : m \in S
  <2> HIDE DEF S
  <2> QED  BY <1>4, <1>5, Induct
<1> QED  BY <1>0, <1>z, <1>6

\* The sum of the sums is the sum of all.
LEMMA TotalPlus ==
  ASSUME NEW a \in Seq(Elements), NEW b \in Seq(Elements), NEW c \in Seq(Elements),
         Len(b) = Len(a), Len(c) = Len(a),
         \A k \in 1 .. Len(a) : c[k] = Plus(a[k], b[k])
  PROVE  Total(c) = Plus(Total(a), Total(b))
<1> DEFINE n == Len(a)
<1>0. n \in Nat /\ Len(b) = n /\ Len(c) = n
      /\ \A k \in 1 .. n : a[k] \in Elements /\ b[k] \in Elements
  OBVIOUS
<1>1. PICK ta : Sums(a, n, ta)
  BY <1>0, TotalIs
<1>2. PICK tb : Sums(b, n, tb)
  BY <1>0, TotalIs
<1>3. PICK tc : Sums(c, n, tc)
  BY <1>0, TotalIs
<1>a. \A m \in Nat : m <= n => ta[m] \in Elements /\ tb[m] \in Elements /\ tc[m] \in Elements
  BY <1>1, <1>2, <1>3 DEF Sums
<1>z. /\ ta[0] = 0 /\ tb[0] = 0 /\ tc[0] = 0
      /\ Total(a) = ta[n] /\ Total(b) = tb[n] /\ Total(c) = tc[n]
  BY <1>1, <1>2, <1>3 DEF Sums
<1>b. \A m \in Nat : m + 1 <= n =>
        /\ ta[m + 1] = Plus(ta[m], a[m + 1]) /\ tb[m + 1] = Plus(tb[m], b[m + 1])
        /\ tc[m + 1] = Plus(tc[m], c[m + 1])
        /\ a[m + 1] \in Elements /\ b[m + 1] \in Elements
  <2> TAKE m \in Nat
  <2> HAVE m + 1 <= n
  <2>1. m + 1 \in 1 .. n /\ (m + 1) - 1 = m
    BY <1>0
  <2> QED  BY <1>0, <1>1, <1>2, <1>3, <2>1 DEF Sums
<1> DEFINE S == {m \in Nat : m <= n => tc[m] = Plus(ta[m], tb[m])}
<1>4. 0 \in S
  <2>1. 0 \in Elements /\ Plus(0, 0) = 0
    BY FieldLaws, FieldAssumption DEF Elements
  <2> QED  BY <1>0, <1>z, <2>1
<1>5. ASSUME NEW m \in Nat, m \in S PROVE m + 1 \in S
  <2> SUFFICES ASSUME m + 1 <= n PROVE tc[m + 1] = Plus(ta[m + 1], tb[m + 1])
    OBVIOUS
  <2>1. /\ ta[m] \in Elements /\ tb[m] \in Elements
        /\ a[m + 1] \in Elements /\ b[m + 1] \in Elements
        /\ tc[m] = Plus(ta[m], tb[m])
    BY <1>0, <1>5, <1>a, <1>b
  <2>2. /\ ta[m + 1] = Plus(ta[m], a[m + 1]) /\ tb[m + 1] = Plus(tb[m], b[m + 1])
        /\ tc[m + 1] = Plus(tc[m], c[m + 1]) /\ c[m + 1] = Plus(a[m + 1], b[m + 1])
    BY <1>0, <1>b
  <2>3. \A p, q, r, t \in Elements :
          Plus(Plus(p, q), Plus(r, t)) = Plus(Plus(p, r), Plus(q, t))
    BY PlusSwap
  <2>4. \A r, t \in Elements :
          Plus(Plus(ta[m], tb[m]), Plus(r, t)) = Plus(Plus(ta[m], r), Plus(tb[m], t))
    BY <2>1, <2>3, Zenon
  <2> QED  BY <2>1, <2>2, <2>4, Zenon
<1>6. \A m \in Nat : m \in S
  <2> HIDE DEF S
  <2> QED  BY <1>4, <1>5, Induct
<1> QED  BY <1>0, <1>z, <1>6

\* A sum may be taken in pairs.
LEMMA TotalPairs ==
  ASSUME NEW a \in Seq(Elements), NEW c \in Seq(Elements), Len(a) = 2 * Len(c),
         \A k \in 1 .. Len(c) : c[k] = Plus(a[2 * k - 1], a[2 * k])
  PROVE  Total(a) = Total(c)
<1> DEFINE n == Len(c)
<1>0. n \in Nat /\ Len(a) = 2 * n /\ \A k \in 1 .. 2 * n : a[k] \in Elements
  OBVIOUS
<1>1. PICK ta : Sums(a, 2 * n, ta)
  <2>1. 2 * n \in Nat
    BY <1>0
  <2> QED  BY <1>0, <2>1, TotalIs, Zenon
<1>2. PICK tc : Sums(c, n, tc)
  BY <1>0, TotalIs
<1>a. \A m \in Nat : m <= 2 * n => ta[m] \in Elements
  BY <1>1 DEF Sums
<1> USE <1>1, <1>2 DEF Sums
<1> DEFINE S == {m \in Nat : m <= n => tc[m] = ta[2 * m]}
<1>3. 0 \in S
  BY <1>0, <1>1, <1>2
<1>4. ASSUME NEW m \in Nat, m \in S PROVE m + 1 \in S
  <2> SUFFICES ASSUME m + 1 <= n PROVE tc[m + 1] = ta[2 * (m + 1)]
    OBVIOUS
  <2>1. /\ m + 1 \in 1 .. n /\ 2 * m + 1 \in 1 .. 2 * n /\ 2 * m + 2 \in 1 .. 2 * n
        /\ 2 * m \in 0 .. 2 * n
        /\ (m + 1) - 1 = m /\ (2 * m + 1) - 1 = 2 * m /\ (2 * m + 2) - 1 = 2 * m + 1
        /\ 2 * (m + 1) = 2 * m + 2 /\ 2 * (m + 1) - 1 = 2 * m + 1
    BY <1>0
  <2>2. /\ ta[2 * m + 1] = Plus(ta[2 * m], a[2 * m + 1])
        /\ ta[2 * m + 2] = Plus(ta[2 * m + 1], a[2 * m + 2])
    BY <1>1, <2>1
  <2>3. tc[m + 1] = Plus(tc[m], c[m + 1])
    BY <1>2, <2>1
  <2>4. c[m + 1] = Plus(a[2 * m + 1], a[2 * m + 2])
    BY <2>1
  <2>5. tc[m] = ta[2 * m]
    BY <1>0, <1>4
  <2>6. ta[2 * m] \in Elements /\ a[2 * m + 1] \in Elements /\ a[2 * m + 2] \in Elements
    BY <1>0, <1>a, <2>1
  <2> QED  BY <2>1, <2>2, <2>3, <2>4, <2>5, <2>6, FieldLaws
<1>5. \A m \in Nat : m \in S
  <2> HIDE DEF S
  <2> QED  BY <1>3, <1>4, Induct
<1> QED  BY <1>0, <1>1, <1>2, <1>5

\* A product is a point of a line if one factor is and the others stay.
LEMMA ProductBlend ==
  ASSUME NEW a \in Seq(Elements), NEW b \in Seq(Elements), NEW c \in Seq(Elements),
         NEW x \in Elements, Len(b) = Len(a), Len(c) = Len(a), NEW j \in 1 .. Len(a),
         c[j] = Blend(a[j], b[j], x),
         \A k \in 1 .. Len(a) : k # j => b[k] = a[k] /\ c[k] = a[k]
  PROVE  Product(c) = Blend(Product(a), Product(b), x)
<1> DEFINE n == Len(a)
<1>0. n \in Nat /\ Len(b) = n /\ Len(c) = n /\ j \in Nat
      /\ \A k \in 1 .. n : a[k] \in Elements /\ b[k] \in Elements
  OBVIOUS
<1>1. PICK ta : Products(a, n, ta)
  BY <1>0, ProductIs
<1>2. PICK tb : Products(b, n, tb)
  BY <1>0, ProductIs
<1>3. PICK tc : Products(c, n, tc)
  BY <1>0, ProductIs
<1>a. \A m \in Nat : m <= n => ta[m] \in Elements /\ tb[m] \in Elements /\ tc[m] \in Elements
  BY <1>1, <1>2, <1>3 DEF Products
<1>z. /\ ta[0] = 1 /\ tb[0] = 1 /\ tc[0] = 1
      /\ Product(a) = ta[n] /\ Product(b) = tb[n] /\ Product(c) = tc[n]
  BY <1>1, <1>2, <1>3 DEF Products
<1>b. \A m \in Nat : m + 1 <= n =>
        /\ ta[m + 1] = Times(ta[m], a[m + 1]) /\ tb[m + 1] = Times(tb[m], b[m + 1])
        /\ tc[m + 1] = Times(tc[m], c[m + 1])
        /\ a[m + 1] \in Elements /\ b[m + 1] \in Elements
  <2> TAKE m \in Nat
  <2> HAVE m + 1 <= n
  <2>1. m + 1 \in 1 .. n /\ (m + 1) - 1 = m
    BY <1>0
  <2> QED  BY <1>0, <1>1, <1>2, <1>3, <2>1 DEF Products
<1> DEFINE S == {m \in Nat : m <= n =>
                   IF m < j THEN ta[m] = tb[m] /\ ta[m] = tc[m]
                   ELSE tc[m] = Blend(ta[m], tb[m], x)}
<1>4. 0 \in S
  BY <1>0, <1>z
<1>5. ASSUME NEW m \in Nat, m \in S PROVE m + 1 \in S
  <2> SUFFICES ASSUME m + 1 <= n
               PROVE  IF m + 1 < j THEN ta[m + 1] = tb[m + 1] /\ ta[m + 1] = tc[m + 1]
                      ELSE tc[m + 1] = Blend(ta[m + 1], tb[m + 1], x)
    OBVIOUS
  <2>1. /\ ta[m] \in Elements /\ tb[m] \in Elements
        /\ a[m + 1] \in Elements /\ b[m + 1] \in Elements
    BY <1>0, <1>a, <1>b
  <2>2. /\ ta[m + 1] = Times(ta[m], a[m + 1]) /\ tb[m + 1] = Times(tb[m], b[m + 1])
        /\ tc[m + 1] = Times(tc[m], c[m + 1])
    BY <1>0, <1>b
  <2>3. CASE m + 1 < j
    <3>1. m < j /\ m + 1 # j /\ m + 1 \in 1 .. n
      BY <1>0, <2>3
    <3>2. b[m + 1] = a[m + 1] /\ c[m + 1] = a[m + 1]
      BY <3>1
    <3> QED  BY <1>0, <1>5, <2>2, <2>3, <3>1, <3>2
  <2>4. CASE m + 1 = j
    <3>1. m < j
      BY <1>0, <2>4
    <3>2. ta[m] = tb[m] /\ ta[m] = tc[m]
      BY <1>0, <1>5, <3>1
    <3>3. c[m + 1] = Blend(a[m + 1], b[m + 1], x)
      BY <2>4
    <3>4. ~(m + 1 < j)
      BY <1>0, <2>4
    <3>5. Times(ta[m], Blend(a[m + 1], b[m + 1], x)) =
            Blend(Times(ta[m], a[m + 1]), Times(ta[m], b[m + 1]), x)
      <4>1. \A p, q, r \in Elements :
              /\ Times(r, Blend(p, q, x)) = Blend(Times(r, p), Times(r, q), x)
              /\ Times(Blend(p, q, x), r) = Blend(Times(p, r), Times(q, r), x)
        BY BlendScale
      <4> QED  BY <2>1, <4>1, Zenon
    <3> QED  BY <2>2, <3>2, <3>3, <3>4, <3>5, Zenon
  <2>5. CASE m + 1 > j
    <3>1. ~(m < j) /\ ~(m + 1 < j) /\ m + 1 # j /\ m + 1 \in 1 .. n
      BY <1>0, <2>5
    <3>2. b[m + 1] = a[m + 1] /\ c[m + 1] = a[m + 1]
      BY <3>1
    <3>3. tc[m] = Blend(ta[m], tb[m], x)
      BY <1>0, <1>5, <3>1
    <3>4. Times(Blend(ta[m], tb[m], x), a[m + 1]) =
            Blend(Times(ta[m], a[m + 1]), Times(tb[m], a[m + 1]), x)
      <4>1. \A p, q, r \in Elements :
              /\ Times(r, Blend(p, q, x)) = Blend(Times(r, p), Times(r, q), x)
              /\ Times(Blend(p, q, x), r) = Blend(Times(p, r), Times(q, r), x)
        BY BlendScale
      <4> QED  BY <2>1, <4>1, Zenon
    <3> QED  BY <2>2, <3>1, <3>2, <3>3, <3>4, Zenon
  <2> QED  BY <1>0, <2>3, <2>4, <2>5
<1>6. \A m \in Nat : m \in S
  <2> HIDE DEF S
  <2> QED  BY <1>4, <1>5, Induct
<1>7. ~(n < j) /\ n <= n
  BY <1>0
<1>8. tc[n] = Blend(ta[n], tb[n], x)
  BY <1>0, <1>6, <1>7
<1> QED  BY <1>z, <1>8

-----------------------------------------------------------------------------
\* Powers of two, logarithms and bits of an index.

\* A function over 1..n is a sequence of length n.
LEMMA SeqOf ==
  ASSUME NEW n \in Nat, NEW V, NEW f \in [1 .. n -> V]
  PROVE  f \in Seq(V) /\ Len(f) = n
OBVIOUS

\* The powers of two there are: the prover computes each.
LEMMA PowersOfTwo ==
  \A r \in 0 .. 30 : 2^r \in Nat /\ 2^r > 0 /\ (r > 0 => 2^r = 2 * 2^(r - 1))
<1> TAKE r \in 0 .. 30
<1>1. CASE r = 0  BY <1>1
<1>2. CASE r = 1  BY <1>2
<1>3. CASE r = 2  BY <1>3
<1>4. CASE r = 3  BY <1>4
<1>5. CASE r = 4  BY <1>5
<1>6. CASE r = 5  BY <1>6
<1>7. CASE r = 6  BY <1>7
<1>8. CASE r = 7  BY <1>8
<1>9. CASE r = 8  BY <1>9
<1>10. CASE r = 9  BY <1>10
<1>11. CASE r = 10 BY <1>11
<1>12. CASE r = 11 BY <1>12
<1>13. CASE r = 12 BY <1>13
<1>14. CASE r = 13 BY <1>14
<1>15. CASE r = 14 BY <1>15
<1>16. CASE r = 15 BY <1>16
<1>17. CASE r = 16 BY <1>17
<1>18. CASE r = 17 BY <1>18
<1>19. CASE r = 18 BY <1>19
<1>20. CASE r = 19 BY <1>20
<1>21. CASE r = 20 BY <1>21
<1>22. CASE r = 21 BY <1>22
<1>23. CASE r = 22 BY <1>23
<1>24. CASE r = 23 BY <1>24
<1>25. CASE r = 24 BY <1>25
<1>26. CASE r = 25 BY <1>26
<1>27. CASE r = 26 BY <1>27
<1>28. CASE r = 27 BY <1>28
<1>29. CASE r = 28 BY <1>29
<1>30. CASE r = 29 BY <1>30
<1>31. CASE r = 30 BY <1>31
<1> QED  BY <1>1, <1>2, <1>3, <1>4, <1>5, <1>6, <1>7, <1>8, <1>9, <1>10, <1>11, <1>12,
         <1>13, <1>14, <1>15, <1>16, <1>17, <1>18, <1>19, <1>20, <1>21, <1>22, <1>23, <1>24,
         <1>25, <1>26, <1>27, <1>28, <1>29, <1>30, <1>31

\* The logarithm of a power of two, which num_vars of an oracle is.
LEMMA LogIs ==
  ASSUME NEW n, IsPowerOfTwo(n)
  PROVE  Log2(n) \in 0 .. 30 /\ n = 2^Log2(n)
BY DEF IsPowerOfTwo, Log2

\* Dividing by a double is halving first.
LEMMA DivDouble ==
  ASSUME NEW j \in Nat, NEW b \in {0, 1}, NEW m \in Nat, m > 0
  PROVE  (2 * j + b) \div (2 * m) = j \div m
<1> DEFINE q == j \div m
           r == j % m
<1>1. q \in Int /\ r \in Int /\ j = m * q + r /\ 0 <= r /\ r < m
  OBVIOUS
<1> HIDE DEF q, r
<1>2. 2 * j + b = (2 * m) * q + (2 * r + b) /\ 0 <= 2 * r + b /\ 2 * r + b < 2 * m
  BY <1>1
<1>3. (2 * j + b) \div (2 * m) = q
  BY <1>1, <1>2
<1> QED  BY <1>3 DEF q

\* The low bit of a corner's number is its first coordinate, the others are
\* those of half the number.
LEMMA Bits ==
  ASSUME NEW j \in Nat, NEW b \in {0, 1}
  PROVE  /\ Bit(2 * j + b, 0) = b
         /\ \A i \in 1 .. 30 : Bit(2 * j + b, i) = Bit(j, i - 1)
         /\ \A i \in 0 .. 30 : Bit(j, i) \in {0, 1}
<1>1. Bit(2 * j + b, 0) = b
  <2>1. 2^0 = 1 /\ (2 * j + b) \div 1 = 2 * j + b /\ (2 * j + b) % 2 = b
    OBVIOUS
  <2> QED  BY <2>1 DEF Bit
<1>2. ASSUME NEW i \in 1 .. 30 PROVE Bit(2 * j + b, i) = Bit(j, i - 1)
  <2>1. i \in 0 .. 30 /\ i - 1 \in 0 .. 30 /\ i > 0
    OBVIOUS
  <2>2. 2^i = 2 * 2^(i - 1)
    BY <2>1, PowersOfTwo, Zenon
  <2>3. 2^(i - 1) \in Nat /\ 2^(i - 1) > 0
    BY <2>1, PowersOfTwo, Zenon
  <2>4. (2 * j + b) \div (2 * 2^(i - 1)) = j \div 2^(i - 1)
    <3>1. \A m \in Nat : m > 0 => (2 * j + b) \div (2 * m) = j \div m
      BY DivDouble
    <3> QED  BY <2>3, <3>1, Zenon
  <2> QED  BY <2>2, <2>4, Zenon DEF Bit
<1>3. ASSUME NEW i \in 0 .. 30 PROVE Bit(j, i) \in {0, 1}
  <2>1. 2^i \in Nat /\ 2^i > 0
    BY PowersOfTwo
  <2> DEFINE m == 2^i
  <2>2. j \div m \in Int
    <3> HIDE DEF m
    <3>1. m \in Nat /\ m > 0
      BY <2>1 DEF m
    <3> QED  BY <3>1
  <2> QED  BY <2>2 DEF Bit
<1> QED  BY <1>1, <1>2, <1>3

-----------------------------------------------------------------------------
\* The multilinear extension (oracle.rs, evaluate_mle).

\* A basis polynomial takes a value in the field.
LEMMA BasisTyped ==
  ASSUME NEW idx, NEW point \in Seq(Elements)
  PROVE  Basis(idx, point) \in Elements
<1> DEFINE f == [i \in 1 .. Len(point) |-> IF Bit(idx, i - 1) = 1 THEN point[i]
                                  ELSE Minus(1, point[i])]
<1>1. f \in [1 .. Len(point) -> Elements]
  <2>1. \A e \in Elements : Minus(1, e) \in Elements
    BY Typed, FieldLaws
  <2> QED  BY <2>1
<1>2. f \in Seq(Elements)
  BY <1>1, SeqOf
<1>3. Basis(idx, point) = Product(f)
  BY DEF Basis
<1> QED  BY <1>2, <1>3, ProductTyped

\* evaluate_mle returns a field element.
LEMMA EvaluateTyped ==
  ASSUME NEW vs \in Seq(Elements), NEW point \in Seq(Elements)
  PROVE  EvaluateMle(vs, point) \in Elements
<1> DEFINE f == [k \in 1 .. Len(vs) |-> Times(vs[k], Basis(k - 1, point))]
<1>1. f \in [1 .. Len(vs) -> Elements]
  BY Typed, BasisTyped
<1>2. f \in Seq(Elements)
  BY <1>1, SeqOf
<1>3. EvaluateMle(vs, point) = Total(f)
  <2>1. DOMAIN vs = 1 .. Len(vs)
    OBVIOUS
  <2> QED  BY <2>1, Zenon DEF EvaluateMle
<1> QED  BY <1>2, <1>3, TotalTyped

\* Three points that differ in one coordinate, which is 0, 1 and x.
OnLine(p0, p1, px, j, x) ==
  /\ p0 \in Seq(Elements) /\ p1 \in Seq(Elements) /\ px \in Seq(Elements)
  /\ Len(p1) = Len(p0) /\ Len(px) = Len(p0)
  /\ j \in 1 .. Len(p0) /\ x \in Elements
  /\ p0[j] = 0 /\ p1[j] = 1 /\ px[j] = x
  /\ \A i \in 1 .. Len(p0) : i # j => p1[i] = p0[i] /\ px[i] = p0[i]

\* A basis polynomial is linear in every coordinate of the point.
LEMMA BasisBlend ==
  ASSUME NEW p0, NEW p1, NEW px, NEW j, NEW x, OnLine(p0, p1, px, j, x), NEW idx
  PROVE  Basis(idx, px) = Blend(Basis(idx, p0), Basis(idx, p1), x)
<1> USE DEF OnLine
<1> DEFINE n == Len(p0)
           f(p) == [i \in 1 .. n |-> IF Bit(idx, i - 1) = 1 THEN p[i] ELSE Minus(1, p[i])]
<1>0. \A e \in Elements : Minus(1, e) \in Elements
  BY Typed, FieldLaws
<1>1. /\ f(p0) \in [1 .. n -> Elements] /\ f(p1) \in [1 .. n -> Elements]
      /\ f(px) \in [1 .. n -> Elements]
  BY <1>0
<1>2. n \in Nat
  OBVIOUS
<1>3. /\ f(p0) \in Seq(Elements) /\ Len(f(p0)) = n
      /\ f(p1) \in Seq(Elements) /\ Len(f(p1)) = n
      /\ f(px) \in Seq(Elements) /\ Len(f(px)) = n
  <2> HIDE DEF f, n
  <2> QED  BY <1>1, <1>2, SeqOf
<1>4. f(px)[j] = Blend(f(p0)[j], f(p1)[j], x)
  BY BlendEnds
<1>5. \A k \in 1 .. n : k # j => f(p1)[k] = f(p0)[k] /\ f(px)[k] = f(p0)[k]
  OBVIOUS
<1>6. /\ Basis(idx, p0) = Product(f(p0)) /\ Basis(idx, p1) = Product(f(p1))
      /\ Basis(idx, px) = Product(f(px))
  <2>1. DOMAIN p0 = 1 .. n /\ DOMAIN p1 = 1 .. n /\ DOMAIN px = 1 .. n
    OBVIOUS
  <2> QED  BY <2>1, Zenon DEF Basis
<1>7. x \in Elements /\ j \in 1 .. n
  OBVIOUS
<1>8. Product(f(px)) = Blend(Product(f(p0)), Product(f(p1)), x)
  <2> DEFINE a == f(p0)
             b == f(p1)
             c == f(px)
  <2>1. /\ a \in Seq(Elements) /\ b \in Seq(Elements) /\ c \in Seq(Elements)
        /\ Len(a) = n /\ Len(b) = n /\ Len(c) = n
        /\ c[j] = Blend(a[j], b[j], x) /\ x \in Elements /\ j \in 1 .. n
        /\ \A k \in 1 .. n : k # j => b[k] = a[k] /\ c[k] = a[k]
    BY <1>3, <1>4, <1>5, <1>7
  <2> HIDE DEF a, b, c
  <2>2. j \in 1 .. Len(a) /\ \A k \in 1 .. Len(a) : k # j => b[k] = a[k] /\ c[k] = a[k]
    BY <2>1
  <2>3. Product(c) = Blend(Product(a), Product(b), x)
    BY <2>1, <2>2, ProductBlend
  <2> QED  BY <2>3 DEF a, b, c
<1> QED  BY <1>6, <1>8, Zenon

\* The extension is linear in every coordinate.
LEMMA EvaluateBlend ==
  ASSUME NEW p0, NEW p1, NEW px, NEW j, NEW x, OnLine(p0, p1, px, j, x),
         NEW vs \in Seq(Elements)
  PROVE  EvaluateMle(vs, px) = Blend(EvaluateMle(vs, p0), EvaluateMle(vs, p1), x)
<1> DEFINE n == Len(vs)
           f(p) == [k \in 1 .. n |-> Times(vs[k], Basis(k - 1, p))]
<1>1. p0 \in Seq(Elements) /\ p1 \in Seq(Elements) /\ px \in Seq(Elements) /\ x \in Elements
  BY DEF OnLine
<1>2. \A k \in 1 .. n : /\ vs[k] \in Elements
                        /\ Basis(k - 1, p0) \in Elements /\ Basis(k - 1, p1) \in Elements
                        /\ Basis(k - 1, px) \in Elements
  BY <1>1, BasisTyped
<1>3. /\ f(p0) \in [1 .. n -> Elements] /\ f(p1) \in [1 .. n -> Elements]
      /\ f(px) \in [1 .. n -> Elements]
  BY <1>2, Typed
<1>4. n \in Nat
  OBVIOUS
<1>5. /\ f(p0) \in Seq(Elements) /\ Len(f(p0)) = n
      /\ f(p1) \in Seq(Elements) /\ Len(f(p1)) = n
      /\ f(px) \in Seq(Elements) /\ Len(f(px)) = n
  <2> HIDE DEF f, n
  <2> QED  BY <1>3, <1>4, SeqOf
<1>6. \A k \in 1 .. n : f(px)[k] = Blend(f(p0)[k], f(p1)[k], x)
  <2> TAKE k \in 1 .. n
  <2>1. f(px)[k] = Times(vs[k], Blend(Basis(k - 1, p0), Basis(k - 1, p1), x))
    BY BasisBlend
  <2>2. \A a, b, c \in Elements : Times(c, Blend(a, b, x)) = Blend(Times(c, a), Times(c, b), x)
    BY <1>1, BlendScale
  <2>3. Times(vs[k], Blend(Basis(k - 1, p0), Basis(k - 1, p1), x)) =
          Blend(Times(vs[k], Basis(k - 1, p0)), Times(vs[k], Basis(k - 1, p1)), x)
    BY <1>2, <2>2, Zenon
  <2>4. f(p0)[k] = Times(vs[k], Basis(k - 1, p0)) /\ f(p1)[k] = Times(vs[k], Basis(k - 1, p1))
    OBVIOUS
  <2> QED  BY <2>1, <2>3, <2>4, Zenon
<1>7. Total(f(px)) = Blend(Total(f(p0)), Total(f(p1)), x)
  <2> DEFINE a == f(p0)
             b == f(p1)
             c == f(px)
  <2>1. /\ a \in Seq(Elements) /\ b \in Seq(Elements) /\ c \in Seq(Elements)
        /\ Len(a) = n /\ Len(b) = n /\ Len(c) = n /\ x \in Elements
        /\ \A k \in 1 .. n : c[k] = Blend(a[k], b[k], x)
    BY <1>1, <1>5, <1>6
  <2> HIDE DEF a, b, c
  <2>2. Total(c) = Blend(Total(a), Total(b), x)
    BY <2>1, TotalBlend
  <2> QED  BY <2>2 DEF a, b, c
<1>8. /\ EvaluateMle(vs, p0) = Total(f(p0)) /\ EvaluateMle(vs, p1) = Total(f(p1))
      /\ EvaluateMle(vs, px) = Total(f(px))
  <2>1. DOMAIN vs = 1 .. n
    OBVIOUS
  <2> QED  BY <2>1, Zenon DEF EvaluateMle
<1> QED  BY <1>7, <1>8, Zenon

-----------------------------------------------------------------------------
\* The sum below a prefix (sumcheck.rs, hypercube_sum).

\* HypercubeSum of any oracle.
Below(vs, p) ==
  Total([k \in 1 .. 2^(Log2(Len(vs)) - Len(p)) |->
           EvaluateMle(vs, p \o Corner(k - 1, Log2(Len(vs)) - Len(p)))])

\* The model's sum is that of its own oracle.
LEMMA SumIsBelow == \A p : HypercubeSum(p) = Below(values, p)
BY DEF HypercubeSum, NVars, Below

\* A table of values an extension can be taken of.
Oracle(vs) == vs \in Seq(Elements) /\ IsPowerOfTwo(Len(vs))

\* The corner of the hypercube with a number is a point.
LEMMA CornerTyped ==
  ASSUME NEW idx \in Nat, NEW m \in 0 .. 31
  PROVE  Corner(idx, m) \in Seq(Elements) /\ Len(Corner(idx, m)) = m
<1>1. \A i \in 1 .. m : Bit(idx, i - 1) \in Elements
  <2>1. {0, 1} \subseteq Elements
    BY FieldAssumption DEF Elements
  <2>2. \A i \in 0 .. 30 : Bit(idx, i) \in {0, 1}
    <3>1. \A b \in {0, 1} : \A i \in 0 .. 30 : Bit(idx, i) \in {0, 1}
      BY Bits
    <3> QED  BY <3>1
  <2> TAKE i \in 1 .. m
  <2>3. i - 1 \in 0 .. 30
    OBVIOUS
  <2> QED  BY <2>1, <2>2, <2>3
<1>2. Corner(idx, m) \in [1 .. m -> Elements]
  BY <1>1 DEF Corner
<1> QED  BY <1>2, SeqOf

\* The corner of twice a number and a bit is the bit and the corner of the number.
LEMMA CornerSplit ==
  ASSUME NEW p \in Seq(Elements), NEW b \in {0, 1}, NEW m \in 1 .. 30, NEW j \in Nat
  PROVE  p \o Corner(2 * j + b, m) = Append(p, b) \o Corner(j, m - 1)
<1> DEFINE n == Len(p)
<1>0. n \in Nat /\ 2 * j + b \in Nat /\ m - 1 \in 0 .. 31 /\ m \in 0 .. 31 /\ b \in Elements
  BY FieldAssumption DEF Elements
<1>1. /\ Corner(2 * j + b, m) \in Seq(Elements) /\ Len(Corner(2 * j + b, m)) = m
      /\ Corner(j, m - 1) \in Seq(Elements) /\ Len(Corner(j, m - 1)) = m - 1
  <2>1. \A y \in Nat, k \in 0 .. 31 : Corner(y, k) \in Seq(Elements) /\ Len(Corner(y, k)) = k
    BY CornerTyped
  <2> QED  BY <1>0, <2>1, Zenon
<1>2. \A i \in 1 .. m : Corner(2 * j + b, m)[i] = Bit(2 * j + b, i - 1)
  BY DEF Corner
<1>3. \A i \in 1 .. m - 1 : Corner(j, m - 1)[i] = Bit(j, i - 1)
  BY DEF Corner
<1>4. Corner(2 * j + b, m)[1] = b
  <2>1. Bit(2 * j + b, 0) = b
    BY Bits
  <2> QED  BY <1>2, <2>1
<1>5. \A i \in 2 .. m : Corner(2 * j + b, m)[i] = Corner(j, m - 1)[i - 1]
  <2> TAKE i \in 2 .. m
  <2>1. i - 1 \in 1 .. 30 /\ i - 1 \in 1 .. m - 1 /\ i \in 1 .. m /\ (i - 1) - 1 = i - 2
    OBVIOUS
  <2>2. Bit(2 * j + b, i - 1) = Bit(j, (i - 1) - 1)
    <3>1. \A k \in 1 .. 30 : Bit(2 * j + b, k) = Bit(j, k - 1)
      BY Bits
    <3> QED  BY <2>1, <3>1, Zenon
  <2> QED  BY <1>2, <1>3, <2>1, <2>2
<1> DEFINE c == Corner(2 * j + b, m)
           d == Corner(j, m - 1)
<1>6. /\ c \in Seq(Elements) /\ d \in Seq(Elements) /\ Len(c) = m /\ Len(d) = m - 1 /\ c[1] = b
      /\ \A i \in 2 .. m : c[i] = d[i - 1]
  BY <1>1, <1>4, <1>5
<1> HIDE DEF c, d
<1>7. /\ p \o c \in Seq(Elements) /\ Append(p, b) \o d \in Seq(Elements)
      /\ Len(p \o c) = n + m /\ Len(Append(p, b) \o d) = n + m
  BY <1>0, <1>6
<1>8. \A i \in 1 .. n + m : (p \o c)[i] = (Append(p, b) \o d)[i]
  <2> TAKE i \in 1 .. n + m
  <2>1. CASE i <= n
    BY <1>0, <1>6, <2>1
  <2>2. CASE i = n + 1
    <3>1. (p \o c)[i] = c[1]
      BY <1>0, <1>6, <2>2
    <3>2. Append(p, b) \in Seq(Elements) /\ Len(Append(p, b)) = n + 1 /\ Append(p, b)[n + 1] = b
      BY <1>0
    <3>3. (Append(p, b) \o d)[i] = Append(p, b)[n + 1]
      BY <1>0, <1>6, <2>2, <3>2
    <3>4. c[1] = b
      BY <1>6
    <3>5. (Append(p, b) \o d)[i] = b
      BY <3>2, <3>3, Zenon
    <3>6. (p \o c)[i] = b
      BY <3>1, <3>4, Zenon
    <3> QED  BY <3>5, <3>6, Zenon
  <2>3. CASE i > n + 1
    <3>1. (p \o c)[i] = c[i - n]
      BY <1>0, <1>6, <2>3
    <3>2. (Append(p, b) \o d)[i] = d[i - (n + 1)]
      BY <1>0, <1>6, <2>3
    <3>3. i - n \in 2 .. m /\ (i - n) - 1 = i - (n + 1)
      BY <1>0, <2>3
    <3> QED  BY <1>6, <3>1, <3>2, <3>3
  <2>4. i <= n \/ i = n + 1 \/ i > n + 1
    BY <1>0
  <2> HIDE DEF n
  <2> QED  BY <2>1, <2>2, <2>3, <2>4, Zenon
<1>9. p \o c = Append(p, b) \o d
  <2> DEFINE u == p \o c
             v == Append(p, b) \o d
  <2>1. u \in Seq(Elements) /\ v \in Seq(Elements) /\ Len(u) = n + m /\ Len(v) = n + m
        /\ \A i \in 1 .. n + m : u[i] = v[i]
    BY <1>7, <1>8
  <2> HIDE DEF u, v
  <2>2. u = v
    BY <2>1
  <2> QED  BY <2>2 DEF u, v
<1> QED  BY <1>9 DEF c, d

\* Below is typed; on a whole point it is the extension.
LEMMA BelowTyped ==
  ASSUME NEW vs, Oracle(vs), NEW p \in Seq(Elements), Len(p) <= Log2(Len(vs))
  PROVE  /\ Below(vs, p) \in Elements
         /\ Len(p) = Log2(Len(vs)) => Below(vs, p) = EvaluateMle(vs, p)
<1> DEFINE m == Log2(Len(vs)) - Len(p)
           N == 2^m
           f == [k \in 1 .. N |-> EvaluateMle(vs, p \o Corner(k - 1, m))]
<1>1. m \in 0 .. 30 /\ (Len(p) = Log2(Len(vs)) => m = 0)
  <2>1. Log2(Len(vs)) \in 0 .. 30 /\ Len(p) \in Nat
    BY LogIs DEF Oracle
  <2>2. \A a \in 0 .. 30, b \in Nat : b <= a => a - b \in 0 .. 30 /\ (b = a => a - b = 0)
    OBVIOUS
  <2> HIDE DEF N, f
  <2> QED  BY <2>1, <2>2, Zenon
<1>2. N \in Nat
  <2>1. \A r \in 0 .. 30 : 2^r \in Nat
    BY PowersOfTwo
  <2> HIDE DEF m
  <2> QED  BY <1>1, <2>1, Zenon
<1>3. Below(vs, p) = Total(f)
  BY DEF Below
<1>4. \A k \in 1 .. N : p \o Corner(k - 1, m) \in Seq(Elements)
  <2> HIDE DEF m, N
  <2> TAKE k \in 1 .. N
  <2>1. k - 1 \in Nat /\ m \in 0 .. 31
    BY <1>1, <1>2
  <2>2. Corner(k - 1, m) \in Seq(Elements)
    BY <2>1, CornerTyped
  <2> DEFINE c == Corner(k - 1, m)
  <2>3. c \in Seq(Elements)
    BY <2>2
  <2> HIDE DEF c
  <2>4. p \o c \in Seq(Elements)
    BY <2>3
  <2> QED  BY <2>4 DEF c
<1>5. f \in [1 .. N -> Elements]
  <2> HIDE DEF m, N
  <2>1. vs \in Seq(Elements)
    BY DEF Oracle
  <2>2. \A q \in Seq(Elements) : EvaluateMle(vs, q) \in Elements
    BY <2>1, EvaluateTyped
  <2>3. \A k \in 1 .. N : EvaluateMle(vs, p \o Corner(k - 1, m)) \in Elements
    BY <1>4, <2>2, Zenon
  <2> QED  BY <2>3
<1>6. f \in Seq(Elements) /\ Len(f) = N
  <2> HIDE DEF f, N
  <2> QED  BY <1>2, <1>5, SeqOf
<1>7. Total(f) \in Elements /\ (Len(f) = 1 => Total(f) = f[1])
  <2> HIDE DEF f
  <2> QED  BY <1>6, TotalTyped
<1>8. ASSUME Len(p) = Log2(Len(vs)) PROVE Below(vs, p) = EvaluateMle(vs, p)
  <2>1. m = 0
    BY <1>1, <1>8
  <2>2. N = 1
    <3> HIDE DEF m
    <3> QED  BY <2>1
  <2>3. f[1] = EvaluateMle(vs, p \o Corner(0, 0))
    <3>1. 1 \in 1 .. N /\ 1 - 1 = 0
      BY <2>2
    <3> HIDE DEF m, N
    <3> QED  BY <2>1, <3>1
  <2>4. Corner(0, 0) = <<>>
    BY DEF Corner
  <2>5. p \o <<>> = p
    OBVIOUS
  <2>6. Total(f) = f[1]
    <3> HIDE DEF f, N
    <3> QED  BY <1>6, <1>7, <2>2
  <2> QED  BY <1>3, <2>3, <2>4, <2>5, <2>6, Zenon
<1> QED  BY <1>3, <1>7, <1>8, Zenon

\* The three ways to go on at a prefix, and their corners.
LEMMA AppendLine ==
  ASSUME NEW p \in Seq(Elements), NEW x \in Elements, NEW c \in Seq(Elements)
  PROVE  OnLine(Append(p, 0) \o c, Append(p, 1) \o c, Append(p, x) \o c, Len(p) + 1, x)
<1>0. 0 \in Elements /\ 1 \in Elements
  BY FieldAssumption DEF Elements
<1>1. \A e \in Elements :
        LET q == Append(p, e) \o c
        IN /\ q \in Seq(Elements) /\ Len(q) = Len(p) + 1 + Len(c)
           /\ q[Len(p) + 1] = e
           /\ \A i \in 1 .. Len(p) + 1 + Len(c) :
                i # Len(p) + 1 => q[i] = IF i <= Len(p) THEN p[i] ELSE c[i - (Len(p) + 1)]
  <2> TAKE e \in Elements
  <2> DEFINE a == Append(p, e)
             q == a \o c
  <2>1. /\ a \in Seq(Elements) /\ Len(a) = Len(p) + 1 /\ a[Len(p) + 1] = e
        /\ \A i \in 1 .. Len(p) : a[i] = p[i]
    OBVIOUS
  <2> HIDE DEF a
  <2>2. q \in Seq(Elements) /\ Len(q) = Len(p) + 1 + Len(c)
    BY <2>1
  <2>3. q[Len(p) + 1] = e
    BY <2>1
  <2>4. \A i \in 1 .. Len(p) + 1 + Len(c) :
                i # Len(p) + 1 => q[i] = IF i <= Len(p) THEN p[i] ELSE c[i - (Len(p) + 1)]
    BY <2>1
  <2> QED  BY <2>2, <2>3, <2>4 DEF a
<1> DEFINE P0 == Append(p, 0) \o c
           P1 == Append(p, 1) \o c
           Px == Append(p, x) \o c
           n == Len(p) + 1 + Len(c)
           j == Len(p) + 1
<1>2. /\ P0 \in Seq(Elements) /\ Len(P0) = n /\ P0[j] = 0
      /\ \A i \in 1 .. n : i # j => P0[i] = IF i <= Len(p) THEN p[i] ELSE c[i - j]
  BY <1>0, <1>1
<1>3. /\ P1 \in Seq(Elements) /\ Len(P1) = n /\ P1[j] = 1
      /\ \A i \in 1 .. n : i # j => P1[i] = IF i <= Len(p) THEN p[i] ELSE c[i - j]
  BY <1>0, <1>1
<1>4. /\ Px \in Seq(Elements) /\ Len(Px) = n /\ Px[j] = x
      /\ \A i \in 1 .. n : i # j => Px[i] = IF i <= Len(p) THEN p[i] ELSE c[i - j]
  BY <1>1
<1>5. j \in 1 .. n
  OBVIOUS
<1> HIDE DEF P0, P1, Px, n, j
<1>6. OnLine(P0, P1, Px, j, x)
  BY <1>2, <1>3, <1>4, <1>5 DEF OnLine
<1> QED  BY <1>6 DEF P0, P1, Px, j

\* A vector over corners: its length and entries.
LEMMA VectorIs ==
  ASSUME NEW vs, Oracle(vs), NEW p \in Seq(Elements), NEW m \in 0 .. 30
  PROVE  LET f == [k \in 1 .. 2^m |-> EvaluateMle(vs, p \o Corner(k - 1, m))]
         IN /\ f \in Seq(Elements) /\ Len(f) = 2^m
            /\ \A k \in 1 .. 2^m : /\ f[k] = EvaluateMle(vs, p \o Corner(k - 1, m))
                                   /\ Corner(k - 1, m) \in Seq(Elements)
<1> DEFINE N == 2^m
           f == [k \in 1 .. N |-> EvaluateMle(vs, p \o Corner(k - 1, m))]
<1>2. N \in Nat
  BY PowersOfTwo
<1> SUFFICES /\ f \in Seq(Elements) /\ Len(f) = N
             /\ \A k \in 1 .. N : /\ f[k] = EvaluateMle(vs, p \o Corner(k - 1, m))
                                   /\ Corner(k - 1, m) \in Seq(Elements)
  OBVIOUS
<1> HIDE DEF N
<1>3. \A k \in 1 .. N : Corner(k - 1, m) \in Seq(Elements)
  <2> TAKE k \in 1 .. N
  <2>1. k - 1 \in Nat /\ m \in 0 .. 31
    BY <1>2
  <2> QED  BY <2>1, CornerTyped
<1>4. \A k \in 1 .. N : EvaluateMle(vs, p \o Corner(k - 1, m)) \in Elements
  <2>1. \A c \in Seq(Elements) : p \o c \in Seq(Elements)
    OBVIOUS
  <2>2. \A q \in Seq(Elements) : EvaluateMle(vs, q) \in Elements
    BY EvaluateTyped DEF Oracle
  <2> QED  BY <1>3, <2>1, <2>2, Zenon
<1>5. f \in [1 .. N -> Elements]
  BY <1>4
<1>6. f \in Seq(Elements) /\ Len(f) = N
  <2> HIDE DEF f
  <2> QED  BY <1>2, <1>5, SeqOf
<1> QED  BY <1>3, <1>6

\* The sum below a prefix, and below the prefix with one more coordinate, as sums of
\* vectors of which the first is twice as long.
LEMMA BelowVectors ==
  ASSUME NEW vs, Oracle(vs), NEW p \in Seq(Elements), Len(p) < Log2(Len(vs)), NEW e \in Elements
  PROVE  LET m == Log2(Len(vs)) - Len(p) - 1
         IN /\ m \in 0 .. 29
            /\ Below(vs, Append(p, e)) =
                 Total([k \in 1 .. 2^m |-> EvaluateMle(vs, Append(p, e) \o Corner(k - 1, m))])
            /\ Below(vs, p) =
                 Total([k \in 1 .. 2^(m + 1) |-> EvaluateMle(vs, p \o Corner(k - 1, m + 1))])
<1> DEFINE n == Log2(Len(vs))
<1>1. n \in 0 .. 30 /\ Len(p) \in Nat
  BY LogIs DEF Oracle
<1>2. Len(Append(p, e)) = Len(p) + 1
  OBVIOUS
<1>3. Len(p) < n
  OBVIOUS
<1>4. \A a \in 0 .. 30, b \in Nat : b < a =>
        a - b - 1 \in 0 .. 29 /\ a - (b + 1) = a - b - 1 /\ a - b = (a - b - 1) + 1
  OBVIOUS
<1>5. /\ n - Len(p) - 1 \in 0 .. 29
      /\ n - Len(Append(p, e)) = n - Len(p) - 1
      /\ n - Len(p) = (n - Len(p) - 1) + 1
  <2> HIDE DEF n
  <2> QED  BY <1>1, <1>2, <1>3, <1>4, Zenon
<1> QED  BY <1>5, Zenon DEF Below

\* The sum below a prefix is linear in its last coordinate.
LEMMA BelowBlend ==
  ASSUME NEW vs, Oracle(vs), NEW p \in Seq(Elements), Len(p) < Log2(Len(vs)), NEW x \in Elements
  PROVE  Below(vs, Append(p, x)) = Blend(Below(vs, Append(p, 0)), Below(vs, Append(p, 1)), x)
<1> DEFINE m == Log2(Len(vs)) - Len(p) - 1
           N == 2^m
           f(e) == [k \in 1 .. N |-> EvaluateMle(vs, Append(p, e) \o Corner(k - 1, m))]
<1>0. 0 \in Elements /\ 1 \in Elements
  BY FieldAssumption DEF Elements
<1>1. m \in 0 .. 29
  BY <1>0, BelowVectors
<1>2. \A e \in Elements : Below(vs, Append(p, e)) = Total(f(e))
  BY BelowVectors
<1>3. \A e \in Elements :
        /\ f(e) \in Seq(Elements) /\ Len(f(e)) = N
        /\ \A k \in 1 .. N : /\ f(e)[k] = EvaluateMle(vs, Append(p, e) \o Corner(k - 1, m))
                             /\ Corner(k - 1, m) \in Seq(Elements)
  <2>1. m \in 0 .. 30
    BY <1>1
  <2> HIDE DEF m
  <2> TAKE e \in Elements
  <2>2. Append(p, e) \in Seq(Elements)
    OBVIOUS
  <2> QED  BY <2>1, <2>2, VectorIs
<1> DEFINE a == f(0)
           b == f(1)
           c == f(x)
<1>4. /\ a \in Seq(Elements) /\ b \in Seq(Elements) /\ c \in Seq(Elements)
      /\ Len(a) = N /\ Len(b) = N /\ Len(c) = N
  <2> HIDE DEF f, N
  <2> QED  BY <1>0, <1>3, Zenon
<1>5. \A k \in 1 .. N : c[k] = Blend(a[k], b[k], x)
  <2> TAKE k \in 1 .. N
  <2> DEFINE d == Corner(k - 1, m)
  <2>1. d \in Seq(Elements)
    <3> HIDE DEF N, f
    <3> QED  BY <1>0, <1>3, Zenon
  <2>2. /\ a[k] = EvaluateMle(vs, Append(p, 0) \o d) /\ b[k] = EvaluateMle(vs, Append(p, 1) \o d)
        /\ c[k] = EvaluateMle(vs, Append(p, x) \o d)
    <3> HIDE DEF N, f
    <3> QED  BY <1>0, <1>3, Zenon
  <2> HIDE DEF d, a, b, c
  <2>3. OnLine(Append(p, 0) \o d, Append(p, 1) \o d, Append(p, x) \o d, Len(p) + 1, x)
    BY <2>1, AppendLine
  <2> DEFINE q0 == Append(p, 0) \o d
             q1 == Append(p, 1) \o d
             qx == Append(p, x) \o d
  <2>4. OnLine(q0, q1, qx, Len(p) + 1, x)
    BY <2>3
  <2>5. vs \in Seq(Elements)
    BY DEF Oracle
  <2> HIDE DEF q0, q1, qx
  <2>6. EvaluateMle(vs, qx) = Blend(EvaluateMle(vs, q0), EvaluateMle(vs, q1), x)
    BY <2>4, <2>5, EvaluateBlend
  <2> QED  BY <2>2, <2>6, Zenon DEF q0, q1, qx
<1>6. Total(c) = Blend(Total(a), Total(b), x)
  <2> HIDE DEF a, b, c, N
  <2>1. \A k \in 1 .. Len(a) : c[k] = Blend(a[k], b[k], x)
    BY <1>4, <1>5, Zenon
  <2>2. Len(b) = Len(a) /\ Len(c) = Len(a)
    BY <1>4, Zenon
  <2>3. a \in Seq(Elements) /\ b \in Seq(Elements) /\ c \in Seq(Elements)
    BY <1>4, Zenon
  <2> HIDE DEF m
  <2> QED  BY <2>1, <2>2, <2>3, TotalBlend
<1> HIDE DEF f
<1> QED  BY <1>0, <1>2, <1>6, Zenon

\* It is the sum of the two sums one coordinate further.
LEMMA BelowSplit ==
  ASSUME NEW vs, Oracle(vs), NEW p \in Seq(Elements), Len(p) < Log2(Len(vs))
  PROVE  Below(vs, p) = Plus(Below(vs, Append(p, 0)), Below(vs, Append(p, 1)))
<1> DEFINE m == Log2(Len(vs)) - Len(p) - 1
           N == 2^m
           M == 2^(m + 1)
           f(e) == [k \in 1 .. N |-> EvaluateMle(vs, Append(p, e) \o Corner(k - 1, m))]
           g == [k \in 1 .. M |-> EvaluateMle(vs, p \o Corner(k - 1, m + 1))]
           s == [k \in 1 .. N |-> Plus(f(0)[k], f(1)[k])]
<1>0. 0 \in Elements /\ 1 \in Elements
  BY FieldAssumption DEF Elements
<1>1. m \in 0 .. 29
  BY <1>0, BelowVectors
<1>2. \A e \in Elements : Below(vs, Append(p, e)) = Total(f(e)) /\ Below(vs, p) = Total(g)
  BY BelowVectors
<1>3. N \in Nat /\ M \in Nat /\ M = 2 * N
  <2> HIDE DEF m, N, M, f, g, s
  <2>1. m \in 0 .. 30 /\ m + 1 \in 0 .. 30 /\ m + 1 > 0 /\ (m + 1) - 1 = m
    BY <1>1
  <2> USE DEF N, M
  <2> QED  BY <2>1, PowersOfTwo, Zenon
<1>4. \A e \in Elements :
        /\ f(e) \in Seq(Elements) /\ Len(f(e)) = N
        /\ \A k \in 1 .. N : /\ f(e)[k] = EvaluateMle(vs, Append(p, e) \o Corner(k - 1, m))
                             /\ Corner(k - 1, m) \in Seq(Elements)
  <2>1. m \in 0 .. 30
    BY <1>1
  <2> HIDE DEF m
  <2> TAKE e \in Elements
  <2>2. Append(p, e) \in Seq(Elements)
    OBVIOUS
  <2> QED  BY <2>1, <2>2, VectorIs
<1>5. /\ g \in Seq(Elements) /\ Len(g) = M
      /\ \A k \in 1 .. M : g[k] = EvaluateMle(vs, p \o Corner(k - 1, m + 1))
  <2> HIDE DEF m, N, M, f, g, s
  <2>1. m + 1 \in 0 .. 30
    BY <1>1
  <2> USE DEF M, g
  <2> QED  BY <2>1, VectorIs
<1> DEFINE a == f(0)
           b == f(1)
<1>6. /\ a \in Seq(Elements) /\ b \in Seq(Elements) /\ Len(a) = N /\ Len(b) = N
      /\ \A k \in 1 .. N : /\ a[k] = EvaluateMle(vs, Append(p, 0) \o Corner(k - 1, m))
                           /\ b[k] = EvaluateMle(vs, Append(p, 1) \o Corner(k - 1, m))
  <2> HIDE DEF f, N
  <2> QED  BY <1>0, <1>4, Zenon
<1>7. /\ s \in Seq(Elements) /\ Len(s) = N
      /\ \A k \in 1 .. N : s[k] = Plus(a[k], b[k])
  <2>1. \A k \in 1 .. N : Plus(a[k], b[k]) \in Elements
    <3> HIDE DEF a, b, N
    <3>1. \A k \in 1 .. N : a[k] \in Elements /\ b[k] \in Elements
      BY <1>6
    <3> QED  BY <3>1, Typed
  <2>2. s \in [1 .. N -> Elements]
    <3> HIDE DEF f, N
    <3> QED  BY <2>1
  <2>3. s \in Seq(Elements) /\ Len(s) = N
    <3> HIDE DEF s, N
    <3> QED  BY <1>3, <2>2, SeqOf
  <2> HIDE DEF f, N
  <2> QED  BY <2>3
<1>8. \A k \in 1 .. N : s[k] = Plus(g[2 * k - 1], g[2 * k])
  <2> TAKE k \in 1 .. N
  <2>1. /\ 2 * k - 1 \in 1 .. M /\ 2 * k \in 1 .. M /\ k - 1 \in Nat
        /\ (2 * k - 1) - 1 = 2 * (k - 1) + 0 /\ 2 * k - 1 = 2 * (k - 1) + 1
        /\ m + 1 \in 1 .. 30 /\ (m + 1) - 1 = m
    <3> HIDE DEF M, N, m
    <3> QED  BY <1>1, <1>3
  <2>2. /\ p \o Corner(2 * (k - 1) + 0, m + 1) = Append(p, 0) \o Corner(k - 1, m)
        /\ p \o Corner(2 * (k - 1) + 1, m + 1) = Append(p, 1) \o Corner(k - 1, m)
    <3> HIDE DEF m
    <3>1. \A bb \in {0, 1}, mm \in 1 .. 30, j \in Nat :
            p \o Corner(2 * j + bb, mm) = Append(p, bb) \o Corner(j, mm - 1)
      BY CornerSplit
    <3>2. \A bb \in {0, 1}, j \in Nat :
            p \o Corner(2 * j + bb, m + 1) = Append(p, bb) \o Corner(j, m)
      BY <2>1, <3>1, Zenon
    <3>3. 0 \in {0, 1} /\ 1 \in {0, 1}
      OBVIOUS
    <3> QED  BY <2>1, <3>2, <3>3, Zenon
  <2>3. g[2 * k - 1] = EvaluateMle(vs, p \o Corner((2 * k - 1) - 1, m + 1))
    <3> HIDE DEF g, M
    <3> QED  BY <1>5, <2>1, Zenon
  <2>4. g[2 * k] = EvaluateMle(vs, p \o Corner(2 * k - 1, m + 1))
    <3> HIDE DEF g, M
    <3> QED  BY <1>5, <2>1, Zenon
  <2>5. g[2 * k - 1] = a[k] /\ g[2 * k] = b[k]
    <3> HIDE DEF g, a, b, M, N, m
    <3> QED  BY <1>6, <2>1, <2>2, <2>3, <2>4, Zenon
  <2>6. s[k] = Plus(a[k], b[k])
    <3> HIDE DEF s, a, b, N
    <3> QED  BY <1>7, Zenon
  <2> QED  BY <2>5, <2>6, Zenon
<1>9. Total(g) = Total(s)
  <2> HIDE DEF g, s, M, N
  <2>1. Len(g) = 2 * Len(s) /\ \A k \in 1 .. Len(s) : s[k] = Plus(g[2 * k - 1], g[2 * k])
    BY <1>3, <1>5, <1>7, <1>8, Zenon
  <2> QED  BY <1>5, <1>7, <2>1, TotalPairs
<1>10. Total(s) = Plus(Total(a), Total(b))
  <2> HIDE DEF s, a, b, N
  <2>1. \A k \in 1 .. Len(a) : s[k] = Plus(a[k], b[k])
    BY <1>6, <1>7, Zenon
  <2>2. Len(b) = Len(a) /\ Len(s) = Len(a)
    BY <1>6, <1>7, Zenon
  <2>3. a \in Seq(Elements) /\ b \in Seq(Elements) /\ s \in Seq(Elements)
    BY <1>6, <1>7, Zenon
  <2> HIDE DEF m
  <2> QED  BY <2>1, <2>2, <2>3, TotalPlus
<1> HIDE DEF f, g, s
<1> QED  BY <1>0, <1>2, <1>9, <1>10, Zenon

-----------------------------------------------------------------------------
\* The order of the field is a prime: lines meet once.

\* The multiples of P are closed under differences and multiples.
LEMMA Multiples ==
  ASSUME NEW a \in Int, NEW b \in Int, a % P = 0, b % P = 0, NEW c \in Int
  PROVE  (a - b) % P = 0 /\ (c * b) % P = 0 /\ (a - c * b) % P = 0
<1> DEFINE p == a \div P
           q == b \div P
<1>1. p \in Int /\ q \in Int /\ a = P * p + 0 /\ b = P * q + 0 /\ 0 \in Elements /\ P \in Int
  BY DivMod, ElementsAreNat, FieldLaws
<1> HIDE DEF p, q
<1>2. \A PP, pp, qq, cc \in Int :
        /\ (PP * pp + 0) - (PP * qq + 0) = (pp - qq) * PP + 0
        /\ cc * (PP * qq + 0) = (cc * qq) * PP + 0
        /\ (PP * pp + 0) - cc * (PP * qq + 0) = (pp - cc * qq) * PP + 0
  OBVIOUS
<1>3. /\ a - b = (p - q) * P + 0 /\ c * b = (c * q) * P + 0
      /\ a - c * b = (p - c * q) * P + 0
  BY <1>1, <1>2
<1>4. /\ a - b \in Int /\ c * b \in Int /\ a - c * b \in Int
      /\ p - q \in Int /\ c * q \in Int /\ p - c * q \in Int
  BY <1>1
<1>5. \A y, k \in Int : y = k * P + 0 => y % P = 0
  BY <1>1, ModUnique
<1> QED  BY <1>3, <1>4, <1>5, Zenon

\* P is a prime: a product is a multiple of it only if a factor is.
LEMMA PrimeDivides ==
  ASSUME NEW v \in Int, NEW z \in Int, (z * v) % P = 0, v % P # 0
  PROVE  z % P = 0
<1> DEFINE S == {d \in Nat : d > 0 /\ (d * v) % P = 0}
<1>1. P \in S
  <2>1. P % P = 0
    BY FieldAssumption
  <2>2. (v * P) % P = 0
    BY <2>1, Multiples, ElementsAreNat
  <2>3. v * P = P * v
    BY ElementsAreNat
  <2> QED  BY <2>2, <2>3, FieldAssumption
<1>2. PICK d \in S : \A n \in S : d <= n
  BY <1>1, Least
<1>3. d \in Nat /\ d > 0 /\ (d * v) % P = 0 /\ d <= P
  BY <1>1, <1>2
<1>4. \A r \in Nat : r < d /\ (r * v) % P = 0 => r = 0
  <2> TAKE r \in Nat
  <2> HAVE r < d /\ (r * v) % P = 0
  <2>1. r \notin S
    BY <1>2, <1>3
  <2> QED  BY <2>1
<1>5. d # 1
  <2>1. 1 * v = v
    OBVIOUS
  <2> QED  BY <1>3, <2>1
<1> HIDE DEF S
\* What is left of a multiple when d is divided out of a number.
<1>6. \A y \in Int : (y * v) % P = 0 => y % d = 0
  <2> TAKE y \in Int
  <2> HAVE (y * v) % P = 0
  <2> DEFINE q == y \div d
             r == y % d
  <2>1. q \in Int /\ r \in Nat /\ r < d /\ y = d * q + r
    BY <1>3
  <2> HIDE DEF q, r
  <2>2. \A dd, qq, rr, vv \in Int : rr * vv = (dd * qq + rr) * vv - qq * (dd * vv)
    OBVIOUS
  <2>3. r * v = y * v - q * (d * v)
    BY <1>3, <2>1, <2>2
  <2>4. d * v \in Int /\ y * v \in Int
    BY <1>3
  <2>5. (y * v - q * (d * v)) % P = 0
    BY <1>3, <2>1, <2>4, Multiples
  <2>6. r = 0
    BY <1>4, <2>1, <2>3, <2>5
  <2> QED  BY <2>6 DEF r
<1>7. P % d = 0
  BY <1>1, <1>6, ElementsAreNat DEF S
<1>8. d = P
  <2>1. d \notin 2 .. P - 1
    BY <1>7, FieldAssumption
  <2> QED  BY <1>3, <1>5, <2>1, ElementsAreNat
<1> QED  BY <1>6, <1>8

\* Equal residues differ by a multiple of P.
LEMMA SameResidue ==
  ASSUME NEW a \in Int, NEW b \in Int, a % P = b % P
  PROVE  (a - b) % P = 0
<1> DEFINE p == a \div P
           q == b \div P
           r == a % P
<1>1. p \in Int /\ q \in Int /\ r \in Int /\ a = P * p + r /\ b = P * q + r /\ 0 \in Elements /\ P \in Int
  BY DivMod, ElementsAreNat, FieldLaws
<1> HIDE DEF p, q, r
<1>2. a - b = (p - q) * P + 0 /\ a - b \in Int /\ p - q \in Int
  BY <1>1
<1> QED  BY <1>1, <1>2, ModUnique

\* Two elements that differ by a multiple of P are equal.
LEMMA Apart ==
  ASSUME NEW a \in Elements, NEW b \in Elements, (a - b) % P = 0
  PROVE  a = b
<1> DEFINE q == (a - b) \div P
<1>1. a \in Int /\ b \in Int /\ q \in Int /\ a - b = P * q /\ P \in Nat /\ P > 0
      /\ 0 <= a /\ a < P /\ 0 <= b /\ b < P
  BY DivMod, FieldAssumption DEF Elements
<1> HIDE DEF q
<1>2. CASE q >= 1
  <2>1. P * q >= P
    BY <1>1, <1>2
  <2> QED  BY <1>1, <2>1
<1>3. CASE q <= -1
  <2>1. P * q <= -P
    BY <1>1, <1>3
  <2> QED  BY <1>1, <2>1
<1>4. CASE q = 0
  BY <1>1, <1>4
<1> QED  BY <1>1, <1>2, <1>3, <1>4

\* Two lines that meet in two points are one.
LEMMA LinesMeetOnce ==
  ASSUME NEW a \in Elements, NEW b \in Elements, NEW c \in Elements, NEW d \in Elements,
         NEW x \in Elements, NEW y \in Elements,
         Blend(a, b, x) = Blend(c, d, x), Blend(a, b, y) = Blend(c, d, y), x # y
  PROVE  a = c /\ b = d
<1>0. /\ a \in Int /\ b \in Int /\ c \in Int /\ d \in Int /\ x \in Int /\ y \in Int
  BY ElementsAreNat
<1> DEFINE u == a - c
           v == (b - a) - (d - c)
<1>1. u \in Int /\ v \in Int
  BY <1>0
<1>2. \A e \in Int : Blend(a, b, e) = Blend(c, d, e) => (u + e * v) % P = 0
  <2> TAKE e \in Int
  <2> HAVE Blend(a, b, e) = Blend(c, d, e)
  <2>1. a + e * (b - a) \in Int /\ c + e * (d - c) \in Int
    BY <1>0
  <2>2. (a + e * (b - a)) % P = (c + e * (d - c)) % P
    BY <1>0, BlendMod
  <2>3. ((a + e * (b - a)) - (c + e * (d - c))) % P = 0
    BY <2>1, <2>2, SameResidue
  <2>4. (a + e * (b - a)) - (c + e * (d - c)) = u + e * v
    BY <1>0
  <2> QED  BY <2>3, <2>4, Zenon
<1> HIDE DEF u, v
<1>3. (u + x * v) % P = 0 /\ (u + y * v) % P = 0 /\ u + x * v \in Int /\ u + y * v \in Int
  BY <1>0, <1>1, <1>2
<1>4. ((x - y) * v) % P = 0
  <2>1. ((u + x * v) - (u + y * v)) % P = 0
    BY <1>3, Multiples, <1>0
  <2>2. (u + x * v) - (u + y * v) = (x - y) * v
    BY <1>0, <1>1
  <2> QED  BY <2>1, <2>2, Zenon
<1>5. (x - y) % P # 0
  BY Apart
<1>6. v % P = 0
  BY <1>0, <1>1, <1>4, <1>5, PrimeDivides
<1>7. u % P = 0
  <2>1. ((u + x * v) - x * v) % P = 0
    BY <1>0, <1>1, <1>3, <1>6, Multiples
  <2>2. (u + x * v) - x * v = u
    BY <1>0, <1>1
  <2> QED  BY <2>1, <2>2, Zenon
<1>8. a = c
  BY <1>7, Apart DEF u
<1>9. b = d
  <2>1. v = b - d
    BY <1>0, <1>8 DEF v
  <2> QED  BY <1>6, <2>1, Apart
<1> QED  BY <1>8, <1>9

-----------------------------------------------------------------------------
\* Folded columns (folded.rs) and the constraint of a register (constraint_oracle.rs).

\* The powers of the folding challenge that two columns need.
LEMMA Powers ==
  ASSUME NEW a \in Elements
  PROVE  Power(a, 0) = 1 /\ Power(a, 1) = a
<1>1. Power(a, 0) = 1
  <2> DEFINE f == [k \in 0 .. 0 |-> 1]
  <2>1. f = [k \in 0 .. 0 |-> IF k = 0 THEN 1 ELSE Times(a, f[k - 1])]
    OBVIOUS
  <2>2. \E g : g = [k \in 0 .. 0 |-> IF k = 0 THEN 1 ELSE Times(a, g[k - 1])]
             /\ Power(a, 0) = g[0]
    BY <2>1 DEF Power
  <2> QED  BY <2>2
<1>2. Power(a, 1) = a
  <2> DEFINE f == [k \in 0 .. 1 |-> IF k = 0 THEN 1 ELSE a]
  <2>0. Times(a, 1) = a
    BY FieldLaws
  <2>1. f = [k \in 0 .. 1 |-> IF k = 0 THEN 1 ELSE Times(a, f[k - 1])]
    <3>1. f[0] = 1
      OBVIOUS
    <3>2. \A k \in 0 .. 1 : k # 0 => k - 1 = 0
      OBVIOUS
    <3>3. \A k \in 0 .. 1 : (IF k = 0 THEN 1 ELSE a) = (IF k = 0 THEN 1 ELSE Times(a, f[k - 1]))
      BY <2>0, <3>1, <3>2
    <3> QED  BY <3>3
  <2>2. \E g : g = [k \in 0 .. 1 |-> IF k = 0 THEN 1 ELSE Times(a, g[k - 1])]
             /\ Power(a, 1) = g[1]
    <3> HIDE DEF f
    <3> QED  BY <2>1 DEF Power
  <2>3. PICK g : g = [k \in 0 .. 1 |-> IF k = 0 THEN 1 ELSE Times(a, g[k - 1])]
             /\ Power(a, 1) = g[1]
    BY <2>2
  <2>4. g[0] = 1
    BY <2>3
  <2>5. g[1] = Times(a, g[0])
    BY <2>3
  <2> QED  BY <2>0, <2>3, <2>4, <2>5
<1> QED  BY <1>1, <1>2

\* A sum of two terms, as in a fold of two columns.
LEMMA TotalOfTwo ==
  ASSUME NEW s \in Seq(Elements), Len(s) = 2
  PROVE  Total(s) = Plus(s[1], s[2])
<1>1. PICK t : Sums(s, 2, t)
  BY TotalIs
<1>2. /\ t[0] = 0 /\ Total(s) = t[2] /\ t[1] = Plus(t[0], s[1]) /\ t[2] = Plus(t[1], s[2])
      /\ s[1] \in Elements
  BY <1>1 DEF Sums
<1> QED  BY <1>2, FieldLaws

\* Folding two columns adds a multiple of the second to the first.
LEMMA FoldIs ==
  ASSUME NEW a \in Seq(Elements), NEW b \in Seq(Elements), Len(b) = Len(a), NEW alpha \in Elements
  PROVE  /\ Fold(<<a, b>>, alpha) \in Seq(Elements)
         /\ Len(Fold(<<a, b>>, alpha)) = Len(a)
         /\ \A k \in 1 .. Len(a) : Fold(<<a, b>>, alpha)[k] = Plus(a[k], Times(alpha, b[k]))
<1> DEFINE n == Len(a)
           cols == <<a, b>>
           row(k) == [j \in 1 .. 2 |-> Times(Power(alpha, j - 1), cols[j][k])]
           f == [k \in 1 .. n |-> Total(row(k))]
<1>1. n \in Nat /\ DOMAIN a = 1 .. n /\ DOMAIN cols = 1 .. 2 /\ cols[1] = a /\ cols[2] = b
  OBVIOUS
<1>2. Fold(cols, alpha) = f
  BY <1>1, Zenon DEF Fold
<1>3. \A k \in 1 .. n : row(k)[1] = a[k] /\ row(k)[2] = Times(alpha, b[k])
                        /\ a[k] \in Elements /\ b[k] \in Elements
  <2> TAKE k \in 1 .. n
  <2>1. a[k] \in Elements /\ b[k] \in Elements
    OBVIOUS
  <2>2. row(k)[1] = Times(Power(alpha, 0), a[k]) /\ row(k)[2] = Times(Power(alpha, 1), b[k])
    BY <1>1
  <2>3. Times(1, a[k]) = a[k]
    BY <2>1, FieldLaws
  <2> HIDE DEF row
  <2> QED  BY <2>1, <2>2, <2>3, Powers
<1>4. \A k \in 1 .. n : Total(row(k)) = Plus(a[k], Times(alpha, b[k])) /\ Total(row(k)) \in Elements
  <2> TAKE k \in 1 .. n
  <2> DEFINE r == row(k)
  <2>1. DOMAIN r = 1 .. 2 /\ r = [j \in 1 .. 2 |-> r[j]]
    OBVIOUS
  <2>2. r[1] \in Elements /\ r[2] \in Elements
    <3> HIDE DEF row
    <3> QED  BY <1>3, Typed
  <2> HIDE DEF r, row
  <2>3. r \in [1 .. 2 -> Elements]
    BY <2>1, <2>2
  <2>4. r \in Seq(Elements) /\ Len(r) = 2
    BY <2>3, SeqOf
  <2>5. Total(r) = Plus(r[1], r[2])
    BY <2>4, TotalOfTwo
  <2>6. Total(r) \in Elements
    BY <2>2, <2>5, Typed
  <2> QED  BY <1>3, <2>5, <2>6, Zenon DEF r
<1>5. f \in [1 .. n -> Elements] /\ \A k \in 1 .. n : f[k] = Plus(a[k], Times(alpha, b[k]))
  <2> HIDE DEF row
  <2> QED  BY <1>4
<1>6. f \in Seq(Elements) /\ Len(f) = n
  <2> HIDE DEF f
  <2> QED  BY <1>1, <1>5, SeqOf
<1> HIDE DEF f
<1> QED  BY <1>2, <1>5, <1>6

\* A selected difference is a field element.
LEMMA SelectTyped ==
  ASSUME NEW s \in Elements, NEW a \in Elements, NEW b \in Elements, NEW c \in Elements
  PROVE  Select(s, a, b, c) \in Elements
<1>1. 1 \in Elements
  BY FieldLaws
<1>2. Minus(a, b) \in Elements /\ Minus(1, s) \in Elements /\ Minus(a, c) \in Elements
  BY <1>1, Typed
<1>3. Times(s, Minus(a, b)) \in Elements /\ Times(Minus(1, s), Minus(a, c)) \in Elements
  BY <1>2, Typed
<1> QED  BY <1>3, Typed DEF Select

\* The constraint of a row is the sum of three squares.
LEMMA CompositeIs ==
  ASSUME NEW row \in Rows(Elements, Elements)
  PROVE  LET a == LwwBooleanity(row)
             b == LwwValue(row)
             c == LwwTimestamp(row)
         IN /\ a \in Elements /\ b \in Elements /\ c \in Elements
            /\ Composite(row) \in Elements
            /\ Composite(row) = Plus(Plus(Times(a, a), Times(b, b)), Times(c, c))
<1> DEFINE a == LwwBooleanity(row)
           b == LwwValue(row)
           c == LwwTimestamp(row)
           w == LwwConstraints(row)
           f == [i \in 1 .. 3 |-> Times(w[i], w[i])]
<1>1. /\ row.v_curr \in Elements /\ row.ts_curr \in Elements /\ row.v_event \in Elements
      /\ row.ts_event \in Elements /\ row.v_next \in Elements /\ row.ts_next \in Elements
      /\ row.s \in Elements
  BY DEF Rows
<1>2. a \in Elements /\ b \in Elements /\ c \in Elements
  <2>1. Minus(1, row.s) \in Elements
    BY <1>1, Typed, FieldLaws
  <2>2. a \in Elements
    BY <1>1, <2>1, Typed DEF LwwBooleanity
  <2>3. b \in Elements
    BY <1>1, SelectTyped DEF LwwValue
  <2>4. c \in Elements
    BY <1>1, SelectTyped DEF LwwTimestamp
  <2> QED  BY <2>2, <2>3, <2>4
<1>3. DOMAIN w = 1 .. 3 /\ w[1] = a /\ w[2] = b /\ w[3] = c
  BY DEF LwwConstraints
<1>4. Composite(row) = Total(f)
  BY <1>3, Zenon DEF Composite
<1> HIDE DEF a, b, c, w
<1>5. f[1] = Times(a, a) /\ f[2] = Times(b, b) /\ f[3] = Times(c, c)
  BY <1>3
<1>6. f \in [1 .. 3 -> Elements]
  <2>1. \A i \in 1 .. 3 : w[i] \in Elements
    BY <1>2, <1>3
  <2> QED  BY <2>1, Typed
<1> HIDE DEF f
<1>7. f \in Seq(Elements) /\ Len(f) = 3
  BY <1>6, SeqOf
<1>8. PICK t : Sums(f, 3, t)
  BY <1>7, TotalIs
<1>9. /\ t[0] = 0 /\ Total(f) = t[3] /\ t[1] = Plus(t[0], f[1]) /\ t[2] = Plus(t[1], f[2])
      /\ t[3] = Plus(t[2], f[3]) /\ t[3] \in Elements /\ f[1] \in Elements
  BY <1>6, <1>8 DEF Sums
<1>10. t[1] = f[1]
  BY <1>9, FieldLaws
<1>11. Composite(row) \in Elements
  BY <1>4, <1>9
<1>12. Composite(row) = Plus(Plus(Times(a, a), Times(b, b)), Times(c, c))
  BY <1>4, <1>5, <1>9, <1>10, Zenon
<1> QED  BY <1>2, <1>11, <1>12 DEF a, b, c

\* The evaluations of the constraint are an oracle as long as the trace.
LEMMA ConstraintTyped ==
  ASSUME NEW trace \in Seq(Rows(Elements, Elements))
  PROVE  ConstraintEvals(trace) \in Seq(Elements) /\ Len(ConstraintEvals(trace)) = Len(trace)
<1> DEFINE n == Len(trace)
           f == [k \in 1 .. n |-> Composite(trace[k])]
<1>1. n \in Nat /\ DOMAIN trace = 1 .. n /\ \A k \in 1 .. n : trace[k] \in Rows(Elements, Elements)
  OBVIOUS
<1>2. ConstraintEvals(trace) = f
  BY <1>1, Zenon DEF ConstraintEvals
<1>3. f \in [1 .. n -> Elements]
  <2>1. \A row \in Rows(Elements, Elements) : Composite(row) \in Elements
    BY CompositeIs
  <2> HIDE DEF n
  <2> QED  BY <1>1, <2>1
<1> HIDE DEF f
<1> QED  BY <1>1, <1>2, <1>3, SeqOf

-----------------------------------------------------------------------------
\* The verdict of the library's verifier (verify_sumcheck).

\* A round of a proof is a pair of elements, observed as two, and a line.
LEMMA PairTyped ==
  ASSUME NEW pair \in Elements \X Elements
  PROVE  /\ pair[1] \in Elements /\ pair[2] \in Elements
         /\ pair = <<pair[1], pair[2]>>
         /\ pair \in Seq(Elements \cup {-1})
         /\ \A x \in Elements : Line(pair, x) \in Elements
<1>1. pair[1] \in Elements /\ pair[2] \in Elements /\ pair = <<pair[1], pair[2]>>
  OBVIOUS
<1>2. \A a, b \in Elements : <<a, b>> \in Seq(Elements \cup {-1})
  OBVIOUS
<1>3. \A x \in Elements : Line(pair, x) \in Elements
  BY <1>1, BlendTyped, LineIsBlend
<1>4. <<pair[1], pair[2]>> \in Seq(Elements \cup {-1})
  BY <1>1, <1>2, Zenon
<1> QED  BY <1>1, <1>3, <1>4, Zenon

\* The claim before round i + 1 of any proof.
ClaimOf(proof, points, i) ==
  IF i = 0 THEN proof.claimed_sum ELSE Line(proof.rounds[i], points[i])

\* The table of claims that verify_sumcheck runs through.
LEMMA ClaimsAre ==
  ASSUME NEW proof, NEW points, NEW i \in 0 .. Len(proof.rounds)
  PROVE  Claims(proof, points)[i] = ClaimOf(proof, points, i)
BY DEF Claims, ClaimOf

\* The verdict of the library's verifier, check by check.
LEMMA VerdictIs ==
  ASSUME NEW proof, proof.rounds \in Seq(Elements \X Elements), NEW points, Len(points) \in Nat,
         NEW oracle
  PROVE  LET v == VerifySumcheck(proof, points, oracle)
             n == Len(proof.rounds)
             Bad(i) == Plus(proof.rounds[i][1], proof.rounds[i][2]) # ClaimOf(proof, points, i - 1)
             Whole == n = proof.n_vars /\ Len(points) = n
             Clean == \A i \in 1 .. n : ~Bad(i)
             Meets == ClaimOf(proof, points, n) = proof.final_eval
             Binds == EvaluateMle(oracle, points) = proof.final_eval
         IN /\ \/ v \in [status : {"RoundCount", "ChallengeCount", "TranscriptBinding",
                                   "FinalEvalBinding", "Ok"}]
               \/ v \in [status : {"RoundConsistency"}, round : Nat]
            /\ v.status = "Ok" <=> Whole /\ Clean /\ Meets /\ Binds
            /\ Whole /\ Clean /\ Meets /\ ~Binds => v.status = "FinalEvalBinding"
            /\ \A k \in 1 .. n : Whole /\ Bad(k) /\ (\A i \in 1 .. n : i < k => ~Bad(i)) =>
                 v.status = "RoundConsistency" /\ v.round = k
<1> DEFINE v == VerifySumcheck(proof, points, oracle)
           n == Len(proof.rounds)
           Bad(i) == Plus(proof.rounds[i][1], proof.rounds[i][2]) # ClaimOf(proof, points, i - 1)
           bad == {i \in 1 .. n : Bad(i)}
           least == CHOOSE i \in bad : \A j \in bad : i <= j
           Whole == n = proof.n_vars /\ Len(points) = n
           Meets == ClaimOf(proof, points, n) = proof.final_eval
           Binds == EvaluateMle(oracle, points) = proof.final_eval
<1>1. n \in Nat /\ DOMAIN proof.rounds = 1 .. n
  OBVIOUS
<1>2. Inconsistent(proof, points) = bad
  <2>1. \A i \in 1 .. n : Claims(proof, points)[i - 1] = ClaimOf(proof, points, i - 1)
    <3> TAKE i \in 1 .. n
    <3>1. i - 1 \in 0 .. Len(proof.rounds)
      BY <1>1
    <3> QED  BY <3>1, ClaimsAre
  <2> QED  BY <1>1, <2>1 DEF Inconsistent
<1>3. Claims(proof, points)[n] = ClaimOf(proof, points, n)
  <2>1. n \in 0 .. Len(proof.rounds)
    BY <1>1
  <2> QED  BY <2>1, ClaimsAre
<1> HIDE DEF bad, Bad, n
<1>4. v = CASE n # proof.n_vars -> [status |-> "RoundCount"]
            [] n = proof.n_vars /\ Len(points) # n -> [status |-> "ChallengeCount"]
            [] n = proof.n_vars /\ Len(points) = n /\ bad # {} ->
                 [status |-> "RoundConsistency", round |-> least]
            [] n = proof.n_vars /\ Len(points) = n /\ bad = {} ->
                 IF ~Meets THEN [status |-> "TranscriptBinding"]
                 ELSE IF ~Binds THEN [status |-> "FinalEvalBinding"]
                 ELSE [status |-> "Ok"]
  BY <1>2, <1>3 DEF VerifySumcheck, n
<1>5. bad # {} => least \in Nat /\ least \in bad /\ \A j \in bad : least <= j
  <2>1. bad \subseteq Nat
    BY <1>1 DEF bad
  <2>2. ASSUME bad # {} PROVE \E m \in bad : \A j \in bad : m <= j
    BY <2>1, <2>2, Least
  <2> QED  BY <2>1, <2>2
<1> HIDE DEF v, least, Meets, Binds
<1>6. CASE n # proof.n_vars
  <2>1. v = [status |-> "RoundCount"]
    BY <1>4, <1>6
  <2> QED  BY <1>6, <2>1 DEF v, n
<1>7. CASE n = proof.n_vars /\ Len(points) # n
  <2>1. v = [status |-> "ChallengeCount"]
    BY <1>4, <1>7
  <2> QED  BY <1>7, <2>1 DEF v, n
<1>8. CASE Whole /\ bad # {}
  <2>1. v = [status |-> "RoundConsistency", round |-> least]
    BY <1>4, <1>8
  <2>2. ~(\A i \in 1 .. n : ~Bad(i)) /\ least \in Nat /\ least \in 1 .. n /\ Bad(least)
    BY <1>5, <1>8 DEF bad
  <2>3. \A k \in 1 .. n : Bad(k) /\ (\A i \in 1 .. n : i < k => ~Bad(i)) => k = least
    <3> TAKE k \in 1 .. n
    <3> HAVE Bad(k) /\ (\A i \in 1 .. n : i < k => ~Bad(i))
    <3>1. k \in bad
      BY DEF bad
    <3>2. least <= k /\ ~(least < k)
      BY <1>5, <1>8, <2>2, <3>1
    <3> QED  BY <1>1, <2>2, <3>2
  <2>4. /\ v \in [status : {"RoundConsistency"}, round : Nat]
        /\ v.status = "RoundConsistency" /\ v.round = least /\ v.status # "Ok"
    BY <2>1, <2>2
  <2> QED  BY <2>2, <2>3, <2>4 DEF v, n, Bad
<1>9. CASE Whole /\ bad = {}
  <2>1. \A i \in 1 .. n : ~Bad(i)
    BY <1>9 DEF bad
  <2>2. v = IF ~Meets THEN [status |-> "TranscriptBinding"]
                 ELSE IF ~Binds THEN [status |-> "FinalEvalBinding"]
                 ELSE [status |-> "Ok"]
    BY <1>4, <1>9
  <2>3. /\ v \in [status : {"TranscriptBinding", "FinalEvalBinding", "Ok"}]
        /\ v.status = "Ok" <=> Meets /\ Binds
        /\ Meets /\ ~Binds => v.status = "FinalEvalBinding"
    BY <2>2
  <2> QED  BY <1>9, <2>1, <2>3 DEF v, n, Bad, Meets, Binds
<1> QED  BY <1>6, <1>7, <1>8, <1>9, Zenon

-----------------------------------------------------------------------------
\* The invariant: types, and what each stage of the handler has.

\* The true round at a prefix.
RoundOf(vs, p) == <<Below(vs, Append(p, 0)), Below(vs, Append(p, 1))>>

\* The first challenges.
Upto(i) == SubSeq(prefix, 1, i)

\* What a challenger may have observed; -1 marks a sample.
Transcript == Seq(Elements \cup {-1})

\* What the handler has at each stage.
StageInv ==
  /\ stage = "received" =>
       /\ rounds = <<>> /\ prefix = <<>> /\ challenges = <<>> /\ fs = <<>> /\ reply = NoReply
  /\ stage = "claiming" =>
       /\ rounds = <<>> /\ prefix = <<>> /\ challenges = <<>> /\ fs = <<>> /\ reply = NoReply
       /\ Oracle(values)
       /\ job.kind = "columns" =>
            challenger = job.col0 \o job.col1 /\ verifier = job.col0 \o job.col1
  /\ stage = "proving" =>
       /\ challenges = <<>> /\ reply = NoReply /\ Oracle(values) /\ Len(rounds) <= NVars
  /\ stage = "checking" =>
       /\ job.kind = "columns" /\ reply = NoReply /\ Oracle(values) /\ Len(rounds) = NVars
  /\ stage \in {"unsupported"} \cup ClientVersions => reply.status = "success"
  /\ stage \in ClientVersions => stage = reply.version

\* The types the invariant needs: those of TypeOK, the transcripts and the stages.
TypeInv == TypeOK /\ challenger \in Transcript /\ verifier \in Transcript /\ StageInv

\* A job is a request with two columns or a trace of rows, never both.
LEMMA KindsDiffer ==
  ASSUME TypeOK
  PROVE  /\ job.kind = "columns" => /\ job.alpha \in Elements
                                    /\ job.col0 \in Seq(Elements) /\ job.col1 \in Seq(Elements)
         /\ job.kind = "trace" => /\ job.trace \in Seq(Rows(Elements, Elements))
                                  /\ IsPowerOfTwo(Len(job.trace))
         /\ job.kind \in {"columns", "trace"}
BY SumcheckAssumption DEF TypeOK

\* The number of variables of an oracle is a natural.
LEMMA Variables ==
  ASSUME NEW vs, Oracle(vs)
  PROVE  Log2(Len(vs)) \in Nat /\ 0 <= Log2(Len(vs))
<1> DEFINE n == Log2(Len(vs))
<1>1. n \in 0 .. 30
  BY LogIs DEF Oracle
<1> HIDE DEF n
<1>2. n \in Nat /\ 0 <= n
  BY <1>1
<1> QED  BY <1>2 DEF n

\* The true round at a prefix is a pair of elements.
LEMMA RoundTyped ==
  ASSUME NEW vs, Oracle(vs), NEW p \in Seq(Elements), Len(p) < Log2(Len(vs))
  PROVE  RoundOf(vs, p) \in Elements \X Elements
<1>1. \A e \in Elements : Below(vs, Append(p, e)) \in Elements
  <2> TAKE e \in Elements
  <2>1. Append(p, e) \in Seq(Elements) /\ Len(Append(p, e)) = Len(p) + 1
    OBVIOUS
  <2>2. Log2(Len(vs)) \in Nat /\ Len(p) \in Nat
    BY Variables
  <2> DEFINE q == Append(p, e)
             n == Log2(Len(vs))
  <2>3. q \in Seq(Elements) /\ Len(q) <= n
    <3>1. \A a, b \in Nat : a < b => a + 1 <= b
      OBVIOUS
    <3>2. Len(p) < n
      OBVIOUS
    <3>3. Len(p) \in Nat /\ n \in Nat
      BY <2>2, Zenon
    <3> HIDE DEF n
    <3>4. Len(p) + 1 <= n
      BY <3>1, <3>2, <3>3, Zenon
    <3> QED  BY <2>1, <3>4, Zenon
  <2> HIDE DEF q
  <2>4. Below(vs, q) \in Elements
    BY <2>3, BelowTyped
  <2> QED  BY <2>4 DEF q
<1>2. 0 \in Elements /\ 1 \in Elements
  BY FieldAssumption DEF Elements
<1> QED  BY <1>1, <1>2 DEF RoundOf

\* The rounds of the handler's prover and of the library's are the true ones.
LEMMA TruthIs ==
  /\ \A p : HonestRound(p) = RoundOf(values, p)
  /\ HypercubeSum(<<>>) = Below(values, <<>>)
<1>1. \A p : HypercubeSum(p) = Below(values, p)
  BY SumIsBelow
<1> QED  BY <1>1, Zenon DEF HonestRound, SumcheckRound, ProverRound, RoundOf

\* Whatever a prover answers is a pair of elements.
LEMMA PairsTyped ==
  ASSUME TypeOK, Oracle(values), Len(rounds) < NVars
  PROVE  Pairs(prefix) \subseteq Elements \X Elements
<1>1. prefix \in Seq(Elements) /\ Len(prefix) < Log2(Len(values))
  BY DEF TypeOK, NVars
<1>2. RoundOf(values, prefix) \in Elements \X Elements
  BY <1>1, RoundTyped
<1> QED  BY <1>2, TruthIs, Zenon DEF Pairs

\* The empty prefix.
LEMMA EmptyTyped == <<>> \in Seq(Elements) /\ Len(<<>>) = 0
OBVIOUS

\* The sum an honest prover claims is a field element.
LEMMA ClaimTyped ==
  ASSUME Oracle(values)
  PROVE  HypercubeSum(<<>>) \in Elements
<1>1. Len(<<>>) <= Log2(Len(values))
  BY Variables, EmptyTyped, Zenon
<1> QED  BY <1>1, EmptyTyped, BelowTyped, TruthIs

\* What Setup folds from valid columns is an oracle.
LEMMA SetupOracle ==
  ASSUME TypeOK, Setup
  PROVE  Oracle(values')
<1>1. /\ job.col0 \in Seq(Elements) /\ job.col1 \in Seq(Elements) /\ job.alpha \in Elements
      /\ Len(job.col1) = Len(job.col0) /\ IsPowerOfTwo(Len(job.col0))
      /\ values' = Fold(<<job.col0, job.col1>>, job.alpha)
  BY KindsDiffer DEF Setup, BadColumns
<1>2. values' \in Seq(Elements) /\ Len(values') = Len(job.col0)
  BY <1>1, FoldIs
<1> QED  BY <1>1, <1>2 DEF Oracle

\* What a trace is evaluated to is an oracle.
LEMMA SetupTraceOracle ==
  ASSUME TypeOK, SetupTrace
  PROVE  Oracle(values')
<1>1. /\ job.trace \in Seq(Rows(Elements, Elements)) /\ IsPowerOfTwo(Len(job.trace))
      /\ values' = ConstraintEvals(job.trace)
  BY KindsDiffer DEF SetupTrace
<1>2. values' \in Seq(Elements) /\ Len(values') = Len(job.trace)
  BY <1>1, ConstraintTyped
<1> QED  BY <1>1, <1>2 DEF Oracle

\* A sample is learned: what was known stays.
LEMMA Learned ==
  ASSUME NEW F, NEW t \in Transcript, NEW r \in Samples(F, t, Elements),
         DOMAIN F \subseteq Transcript, \A u \in DOMAIN F : F[u] \in Elements
  PROVE  /\ r \in Elements
         /\ DOMAIN Learn(F, t, r) \subseteq Transcript
         /\ \A u \in DOMAIN Learn(F, t, r) : Learn(F, t, r)[u] \in Elements
         /\ t \in DOMAIN Learn(F, t, r) /\ Learn(F, t, r)[t] = r
         /\ \A u \in DOMAIN F : u \in DOMAIN Learn(F, t, r) /\ Learn(F, t, r)[u] = F[u]
BY DEF Samples, Learn

\* What a challenger has observed stays a transcript.
LEMMA SeenTyped ==
  ASSUME NEW t \in Transcript, NEW pair \in Elements \X Elements
  PROVE  t \o pair \in Transcript /\ Sampled(t \o pair) \in Transcript
<1>1. pair \in Seq(Elements \cup {-1})
  BY PairTyped
<1>2. \A q \in Seq(Elements \cup {-1}) : t \o q \in Seq(Elements \cup {-1})
  BY DEF Transcript
<1>3. \A q \in Seq(Elements \cup {-1}) : Append(q, -1) \in Seq(Elements \cup {-1})
  OBVIOUS
<1> QED  BY <1>1, <1>2, <1>3, Zenon DEF Transcript, Sampled

\* The handler starts well typed.
LEMMA TypeInit == Init => TypeInv
<1> SUFFICES ASSUME Init PROVE TypeInv
  OBVIOUS
<1>0. 0 \in Elements
  BY FieldAssumption DEF Elements
<1>1. TypeOK
  BY <1>0 DEF Init, TypeOK, Replies, NoReply
<1>2. challenger \in Transcript /\ verifier \in Transcript
  BY DEF Init, Transcript
<1>3. StageInv
  BY SumcheckAssumption DEF Init, StageInv
<1> QED  BY <1>1, <1>2, <1>3 DEF TypeInv

\* Every step of the handler, the library and the client keeps the types and what
\* each stage has.
LEMMA TypeNext == TypeInv /\ [Next]_vars => TypeInv'
<1> SUFFICES ASSUME TypeInv, [Next]_vars PROVE TypeInv'
  OBVIOUS
<1>0. TypeOK /\ challenger \in Transcript /\ verifier \in Transcript /\ StageInv
  BY DEF TypeInv
<1>v. \A e \in ClientVersions :
        e \notin {"received", "claiming", "proving", "checking", "answered", "unsupported"}
  BY SumcheckAssumption
<1> SUFFICES TypeOK' /\ (challenger \in Transcript)' /\ (verifier \in Transcript)' /\ StageInv'
  BY DEF TypeInv
<1>1. CASE Validate
  <2>1. TypeOK'
    BY <1>0, <1>1 DEF Validate, TypeOK, Replies
  <2>2. StageInv'
    BY <1>0, <1>1, <1>v DEF Validate, StageInv
  <2> QED  BY <1>0, <1>1, <2>1, <2>2 DEF Validate
<1>2. CASE Setup
  <2>1. Oracle(values')
    BY <1>0, <1>2, SetupOracle
  <2>2. TypeOK'
    BY <1>0, <1>2, <2>1 DEF Setup, TypeOK, Oracle
  <2>3. challenger' \in Transcript /\ verifier' \in Transcript
    <3>1. job.col0 \in Seq(Elements) /\ job.col1 \in Seq(Elements)
      BY <1>0, <1>2, KindsDiffer DEF Setup
    <3>2. \A a, b \in Seq(Elements) : a \o b \in Seq(Elements \cup {-1})
      OBVIOUS
    <3>3. job.col0 \o job.col1 \in Seq(Elements \cup {-1})
      BY <3>1, <3>2, Zenon
    <3> QED  BY <1>2, <3>3, Zenon DEF Setup, Transcript
  <2>4. StageInv'
    BY <1>0, <1>2, <1>v, <2>1 DEF Setup, StageInv, Oracle
  <2> QED  BY <2>2, <2>3, <2>4
<1>3. CASE SetupTrace
  <2>1. Oracle(values')
    BY <1>0, <1>3, SetupTraceOracle
  <2>2. TypeOK'
    BY <1>0, <1>3, <2>1 DEF SetupTrace, TypeOK, Oracle
  <2>3. StageInv'
    BY <1>0, <1>3, <1>v, <2>1 DEF SetupTrace, StageInv, Oracle
  <2> QED  BY <1>0, <1>3, <2>2, <2>3 DEF SetupTrace
<1>4. CASE Claim
  <2>1. claimed' \in Elements
    BY <1>0, <1>4, ClaimTyped DEF Claim, StageInv
  <2>2. TypeOK'
    BY <1>0, <1>4, <2>1 DEF Claim, TypeOK
  <2>3. Len(rounds) <= NVars
    BY <1>0, <1>4, Variables, EmptyTyped DEF Claim, StageInv, NVars
  <2>4. StageInv'
    BY <1>0, <1>4, <1>v, <2>3 DEF Claim, StageInv, NVars
  <2> QED  BY <1>0, <1>4, <2>2, <2>4 DEF Claim
<1>5. CASE Prove
  <2>1. Oracle(values) /\ Len(rounds) < NVars
    BY <1>0, <1>5 DEF Prove, StageInv
  <2>2. PICK pair, r :
          /\ pair \in Pairs(prefix) /\ r \in Samples(fs, challenger \o pair, Elements)
          /\ rounds' = Append(rounds, pair) /\ prefix' = Append(prefix, r)
          /\ challenger' = Sampled(challenger \o pair)
          /\ fs' = Learn(fs, challenger \o pair, r)
    BY <1>5 DEF Prove
  <2>3. pair \in Elements \X Elements
    BY <1>0, <2>1, <2>2, PairsTyped
  <2>4. challenger \o pair \in Transcript /\ challenger' \in Transcript
    BY <1>0, <2>2, <2>3, SeenTyped
  <2>5. DOMAIN fs \subseteq Transcript /\ \A u \in DOMAIN fs : fs[u] \in Elements
    BY <1>0 DEF TypeOK, Transcript
  <2>6. r \in Elements /\ DOMAIN fs' \subseteq Transcript /\ \A u \in DOMAIN fs' : fs'[u] \in Elements
    BY <2>2, <2>4, <2>5, Learned
  <2>7. /\ rounds' \in Seq(Elements \X Elements) /\ prefix' \in Seq(Elements)
        /\ Len(rounds') = Len(rounds) + 1 /\ Len(prefix') = Len(prefix) + 1
    BY <1>0, <2>2, <2>3, <2>6 DEF TypeOK
  <2>8. UNCHANGED <<job, honest, stage, values, claimed, verifier, running, challenges, reply>>
        /\ stage = "proving" /\ challenges = <<>>
    BY <1>0, <1>5 DEF Prove, StageInv
  <2>9. TypeOK'
    BY <1>0, <2>6, <2>7, <2>8 DEF TypeOK, Transcript
  <2>10. Len(rounds') <= NVars
    BY <1>0, <2>1, <2>7, Variables DEF TypeOK, NVars
  <2>11. StageInv'
    BY <1>0, <1>v, <2>8, <2>10 DEF StageInv, NVars
  <2> QED  BY <1>0, <2>4, <2>8, <2>9, <2>11
<1>6. CASE ProveTrace
  <2>1. Oracle(values) /\ Len(rounds) < NVars
    BY <1>0, <1>6 DEF ProveTrace, StageInv
  <2>2. PICK pair \in Pairs(prefix), r \in Elements :
          rounds' = Append(rounds, pair) /\ prefix' = Append(prefix, r)
    BY <1>6 DEF ProveTrace
  <2>3. pair \in Elements \X Elements
    BY <1>0, <2>1, <2>2, PairsTyped
  <2>7. /\ rounds' \in Seq(Elements \X Elements) /\ prefix' \in Seq(Elements)
        /\ Len(rounds') = Len(rounds) + 1 /\ Len(prefix') = Len(prefix) + 1
    BY <1>0, <2>2, <2>3 DEF TypeOK
  <2>8. UNCHANGED <<job, honest, stage, values, claimed, challenger, fs, verifier, running, challenges, reply>>
        /\ stage = "proving" /\ challenges = <<>>
    BY <1>0, <1>6 DEF ProveTrace, StageInv
  <2>9. TypeOK'
    BY <1>0, <2>7, <2>8 DEF TypeOK
  <2>10. Len(rounds') <= NVars
    BY <1>0, <2>1, <2>7, Variables DEF TypeOK, NVars
  <2>11. StageInv'
    BY <1>0, <1>v, <2>8, <2>10 DEF StageInv, NVars
  <2> QED  BY <1>0, <2>8, <2>9, <2>11
<1>7. CASE BeginCheck
  <2>1. TypeOK'
    BY <1>0, <1>7 DEF BeginCheck, TypeOK
  <2>2. StageInv'
    BY <1>0, <1>7, <1>v DEF BeginCheck, StageInv, NVars
  <2> QED  BY <1>0, <1>7, <2>1, <2>2 DEF BeginCheck
<1>8. CASE CheckRound
  <2> DEFINE pair == rounds[Len(challenges) + 1]
  <2>1. PICK r \in Samples(fs, verifier \o pair, Elements) :
          /\ verifier' = Sampled(verifier \o pair) /\ fs' = Learn(fs, verifier \o pair, r)
          /\ challenges' = Append(challenges, r) /\ running' = Line(pair, r)
    BY <1>8 DEF CheckRound
  <2>2. pair \in Elements \X Elements /\ Len(challenges) + 1 <= Len(rounds)
    BY <1>0, <1>8 DEF CheckRound, TypeOK
  <2> HIDE DEF pair
  <2>3. verifier \o pair \in Transcript /\ verifier' \in Transcript
    BY <1>0, <2>1, <2>2, SeenTyped
  <2>4. DOMAIN fs \subseteq Transcript /\ \A u \in DOMAIN fs : fs[u] \in Elements
    BY <1>0 DEF TypeOK, Transcript
  <2>5. r \in Elements /\ DOMAIN fs' \subseteq Transcript /\ \A u \in DOMAIN fs' : fs'[u] \in Elements
    BY <2>1, <2>3, <2>4, Learned
  <2>6. running' \in Elements
    BY <2>1, <2>2, <2>5, PairTyped
  <2>7. challenges' \in Seq(Elements) /\ Len(challenges') <= Len(rounds)
    BY <1>0, <2>1, <2>2, <2>5 DEF TypeOK
  <2>8. UNCHANGED <<job, honest, stage, values, claimed, rounds, prefix, challenger, reply>>
        /\ stage = "checking"
    BY <1>8 DEF CheckRound
  <2>9. TypeOK'
    BY <1>0, <2>5, <2>6, <2>7, <2>8 DEF TypeOK, Transcript
  <2>10. StageInv'
    BY <1>0, <1>v, <2>8 DEF StageInv, NVars
  <2> QED  BY <1>0, <2>3, <2>8, <2>9, <2>10
<1>9. CASE SelfCheckFails
  <2>1. TypeOK'
    BY <1>0, <1>9 DEF SelfCheckFails, TypeOK, Replies
  <2>2. StageInv'
    BY <1>0, <1>9, <1>v DEF SelfCheckFails, StageInv
  <2> QED  BY <1>0, <1>9, <2>1, <2>2 DEF SelfCheckFails
<1>10. CASE Ship
  <2>1. reply' \in Replies
    BY <1>0, <1>10 DEF Ship, Seal, Replies, ClientProof, TypeOK
  <2>2. TypeOK'
    BY <1>0, <1>10, <2>1 DEF Ship, TypeOK
  <2>3. StageInv'
    BY <1>0, <1>10, <1>v DEF Ship, StageInv
  <2> QED  BY <1>0, <1>10, <2>2, <2>3 DEF Ship
<1>11. CASE VerifyTrace
  <2>1. reply' \in Replies
    <3>1. \A proof, points : proof.rounds \in Seq(Elements \X Elements) /\ points \in Seq(Elements) =>
            VerifySumcheck(proof, points, values) \in Replies
      <4> TAKE proof, points
      <4> HAVE proof.rounds \in Seq(Elements \X Elements) /\ points \in Seq(Elements)
      <4> DEFINE v == VerifySumcheck(proof, points, values)
      <4>1. \/ v \in [status : {"RoundCount", "ChallengeCount", "TranscriptBinding",
                                "FinalEvalBinding", "Ok"}]
            \/ v \in [status : {"RoundConsistency"}, round : Nat]
        BY VerdictIs
      <4> HIDE DEF v
      <4>2. v \in Replies
        BY <4>1 DEF Replies
      <4> QED  BY <4>2 DEF v
    <3>2. rounds \in Seq(Elements \X Elements) /\ prefix \in Seq(Elements)
      BY <1>0 DEF TypeOK
    <3>3. /\ \A s \in Seq(Elements \X Elements) : ButLast(s) \in Seq(Elements \X Elements)
          /\ \A s \in Seq(Elements) : ButLast(s) \in Seq(Elements)
      BY DEF ButLast
    <3>4. PICK final : reply' \in
            {VerifySumcheck(Presented(final), prefix, values),
             VerifySumcheck([Presented(final) EXCEPT !.rounds = ButLast(rounds)], prefix, values),
             VerifySumcheck(Presented(final), ButLast(prefix), values)}
      BY <1>11 DEF VerifyTrace
    <3>5. /\ Presented(final).rounds = rounds
          /\ [Presented(final) EXCEPT !.rounds = ButLast(rounds)].rounds = ButLast(rounds)
      BY DEF Presented
    <3> QED  BY <3>1, <3>2, <3>3, <3>4, <3>5
  <2>2. TypeOK'
    BY <1>0, <1>11, <2>1 DEF VerifyTrace, TypeOK
  <2>3. StageInv'
    BY <1>0, <1>11, <1>v DEF VerifyTrace, StageInv
  <2> QED  BY <1>0, <1>11, <2>2, <2>3 DEF VerifyTrace
<1>12. ASSUME NEW version \in ClientVersions, Open(version) PROVE TypeInv'
  <2>1. TypeOK'
    BY <1>0, <1>12 DEF Open, TypeOK
  <2>2. StageInv'
    BY <1>0, <1>12, <1>v DEF Open, StageInv
  <2> QED  BY <1>0, <1>12, <2>1, <2>2 DEF Open, TypeInv
<1>13. CASE UNCHANGED vars
  <2>1. TypeOK'
    BY <1>0, <1>13 DEF vars, TypeOK
  <2>2. StageInv'
    BY <1>0, <1>13 DEF vars, StageInv, NVars
  <2> QED  BY <1>0, <1>13, <2>1, <2>2 DEF vars
<1> QED  BY <1>1, <1>2, <1>3, <1>4, <1>5, <1>6, <1>7, <1>8, <1>9, <1>10, <1>11, <1>12, <1>13
         DEF Next, TypeInv

-----------------------------------------------------------------------------
\* The invariant: honest provers, and the two transcripts.

\* How a prefix of a sequence grows.
LEMMA Prefixes ==
  ASSUME NEW V, NEW s \in Seq(V)
  PROVE  /\ SubSeq(s, 1, 0) = <<>> /\ SubSeq(s, 1, Len(s)) = s
         /\ \A i \in 0 .. Len(s) : SubSeq(s, 1, i) \in Seq(V) /\ Len(SubSeq(s, 1, i)) = i
         /\ \A i \in 1 .. Len(s) : SubSeq(s, 1, i) = Append(SubSeq(s, 1, i - 1), s[i])
         /\ \A r \in V, i \in 0 .. Len(s) : SubSeq(Append(s, r), 1, i) = SubSeq(s, 1, i)
<1>1. SubSeq(s, 1, 0) = <<>>
  OBVIOUS
<1>2. SubSeq(s, 1, Len(s)) = s
  OBVIOUS
<1>3. \A i \in 0 .. Len(s) : SubSeq(s, 1, i) \in Seq(V) /\ Len(SubSeq(s, 1, i)) = i
                             /\ \A k \in 1 .. i : SubSeq(s, 1, i)[k] = s[k]
  OBVIOUS
<1>4. ASSUME NEW i \in 1 .. Len(s) PROVE SubSeq(s, 1, i) = Append(SubSeq(s, 1, i - 1), s[i])
  <2> DEFINE a == SubSeq(s, 1, i)
             b == SubSeq(s, 1, i - 1)
  <2>1. /\ a \in Seq(V) /\ Len(a) = i /\ \A k \in 1 .. i : a[k] = s[k]
        /\ b \in Seq(V) /\ Len(b) = i - 1 /\ \A k \in 1 .. i - 1 : b[k] = s[k]
        /\ s[i] \in V
    BY <1>3
  <2> HIDE DEF a, b
  <2> DEFINE c == Append(b, s[i])
  <2>2. c \in Seq(V) /\ Len(c) = i /\ \A k \in 1 .. i : c[k] = s[k]
    BY <2>1
  <2> HIDE DEF c
  <2>3. a = c
    BY <2>1, <2>2
  <2> QED  BY <2>3 DEF a, b, c
<1>5. ASSUME NEW r \in V, NEW i \in 0 .. Len(s) PROVE SubSeq(Append(s, r), 1, i) = SubSeq(s, 1, i)
  <2> DEFINE q == Append(s, r)
  <2>1. q \in Seq(V) /\ Len(q) = Len(s) + 1 /\ \A k \in 1 .. Len(s) : q[k] = s[k]
    OBVIOUS
  <2> HIDE DEF q
  <2>2. SubSeq(q, 1, i) = SubSeq(s, 1, i)
    BY <2>1
  <2> QED  BY <2>2 DEF q
<1> QED  BY <1>1, <1>2, <1>3, <1>4, <1>5

-----------------------------------------------------------------------------
\* A job that was set up and has a claim.
Proved == stage \notin {"received", "claiming"} /\ reply.status # "bad_request"

\* An honest prover claims the true sum and states the true line in every round.
HonestInv ==
  honest /\ Proved =>
    /\ claimed = Below(values, <<>>)
    /\ \A i \in 1 .. Len(rounds) : rounds[i] = RoundOf(values, Upto(i - 1))

\* Nothing is claimed before the columns are validated.
LEMMA HonestInit == Init => HonestInv
BY DEF Init, HonestInv, Proved

\* An honest prover's claim and rounds stay the true ones, at the challenges drawn.
LEMMA HonestNext == TypeInv /\ HonestInv /\ [Next]_vars => HonestInv'
<1> SUFFICES ASSUME TypeInv, HonestInv, [Next]_vars PROVE HonestInv'
  OBVIOUS
<1>0. TypeOK /\ StageInv
  BY DEF TypeInv
<1>1. CASE Validate
  BY <1>1 DEF Validate, HonestInv, Proved
<1>2. CASE Setup
  BY <1>2 DEF Setup, HonestInv, Proved
<1>3. CASE SetupTrace
  BY <1>3 DEF SetupTrace, HonestInv, Proved
<1>4. CASE Claim
  <2>1. rounds = <<>> /\ UNCHANGED <<values, rounds, prefix, honest>>
    BY <1>0, <1>4 DEF Claim, StageInv
  <2>2. honest => claimed' = Below(values, <<>>)
    BY <1>4, TruthIs DEF Claim
  <2>3. \A i \in 1 .. Len(rounds') : FALSE
    BY <2>1
  <2> QED  BY <2>1, <2>2, <2>3 DEF HonestInv
<1>5. ASSUME NEW pair, NEW r \in Elements, pair \in Pairs(prefix),
             rounds' = Append(rounds, pair), prefix' = Append(prefix, r),
             stage = "proving", UNCHANGED <<honest, values, claimed>>
      PROVE  HonestInv'
  <2> SUFFICES ASSUME honest
               PROVE  /\ claimed' = Below(values', <<>>)
                      /\ \A i \in 1 .. Len(rounds') : rounds'[i] = RoundOf(values', Upto(i - 1)')
    BY <1>5 DEF HonestInv
  <2>1. Proved /\ Oracle(values)
    BY <1>0, <1>5 DEF StageInv, Proved, NoReply
  <2>2. claimed' = Below(values', <<>>)
    BY <1>5, <2>1 DEF HonestInv
  <2>3. /\ prefix \in Seq(Elements) /\ rounds \in Seq(Elements \X Elements)
        /\ Len(prefix) = Len(rounds)
    BY <1>0 DEF TypeOK
  <2>4. pair = RoundOf(values, prefix)
    BY <1>5, TruthIs, Zenon DEF Pairs
  <2>5. \A i \in 0 .. Len(rounds) : Upto(i)' = Upto(i)
    BY <1>5, <2>3, Prefixes DEF Upto
  <2>6. Upto(Len(rounds)) = prefix
    BY <2>3, Prefixes DEF Upto
  <2>7. Len(rounds') = Len(rounds) + 1 /\ rounds'[Len(rounds) + 1] = pair
        /\ \A i \in 1 .. Len(rounds) : rounds'[i] = rounds[i]
    BY <1>5, <2>3
  <2>8. ASSUME NEW i \in 1 .. Len(rounds') PROVE rounds'[i] = RoundOf(values', Upto(i - 1)')
    <3>1. CASE i = Len(rounds) + 1
      <4>1. i - 1 = Len(rounds) /\ Len(rounds) \in 0 .. Len(rounds)
        BY <2>3, <3>1
      <4>2. Upto(i - 1)' = prefix
        BY <2>5, <2>6, <4>1
      <4> QED  BY <1>5, <2>4, <2>7, <3>1, <4>2
    <3>2. CASE i # Len(rounds) + 1
      <4>1. i \in 1 .. Len(rounds) /\ i - 1 \in 0 .. Len(rounds)
        BY <2>3, <2>7, <3>2
      <4>2. rounds[i] = RoundOf(values, Upto(i - 1))
        BY <2>1, <4>1 DEF HonestInv
      <4>3. Upto(i - 1)' = Upto(i - 1)
        BY <2>5, <4>1
      <4> QED  BY <1>5, <2>7, <4>1, <4>2, <4>3
    <3> QED  BY <3>1, <3>2
  <2> QED  BY <2>2, <2>8
<1>6. CASE Prove
  <2>1. PICK pair, r :
          /\ pair \in Pairs(prefix) /\ r \in Samples(fs, challenger \o pair, Elements)
          /\ rounds' = Append(rounds, pair) /\ prefix' = Append(prefix, r)
    BY <1>6 DEF Prove
  <2>2. r \in Elements
    BY <1>0, <2>1 DEF Samples, TypeOK
  <2> QED  BY <1>5, <1>6, <2>1, <2>2 DEF Prove
<1>7. CASE ProveTrace
  <2>1. PICK pair, r :
          /\ pair \in Pairs(prefix) /\ r \in Elements
          /\ rounds' = Append(rounds, pair) /\ prefix' = Append(prefix, r)
    BY <1>7 DEF ProveTrace
  <2> QED  BY <1>5, <1>7, <2>1 DEF ProveTrace
\* Every other action leaves the proof alone.
<1>8. ASSUME UNCHANGED <<honest, values, claimed, rounds, prefix>>, Proved' => Proved
      PROVE  HonestInv'
  BY <1>8 DEF HonestInv, Upto
<1>9. ASSUME BeginCheck \/ CheckRound \/ SelfCheckFails \/ Ship \/ VerifyTrace
             \/ (\E version \in ClientVersions : Open(version)) \/ UNCHANGED vars
      PROVE  HonestInv'
  <2>1. UNCHANGED <<honest, values, claimed, rounds, prefix>>
    BY <1>9 DEF BeginCheck, CheckRound, SelfCheckFails, Ship, VerifyTrace, Open, vars
  <2>2. Proved' => Proved
    BY <1>0, <1>9 DEF BeginCheck, CheckRound, SelfCheckFails, Ship, VerifyTrace, Open, vars,
                      Proved, StageInv, NoReply, Checked
  <2> QED  BY <1>8, <2>1, <2>2
<1> QED  BY <1>1, <1>2, <1>3, <1>4, <1>6, <1>7, <1>9 DEF Next

-----------------------------------------------------------------------------
\* c tells what the prover's transcript held after each round.
Log(c) ==
  /\ c \in [0 .. Len(rounds) -> Transcript]
  /\ c[0] = job.col0 \o job.col1
  /\ \A i \in 1 .. Len(rounds) :
       LET seen == c[i - 1] \o rounds[i]
       IN c[i] = Sampled(seen) /\ seen \in DOMAIN fs /\ fs[seen] = prefix[i]
  /\ challenger = c[Len(rounds)] /\ verifier = c[Len(challenges)]

\* The verifier's challenges are the first of the prover's, because its transcript is
\* the prover's after as many rounds.
TranscriptInv ==
  /\ challenges = Upto(Len(challenges))
  /\ job.kind = "columns" /\ stage \in {"claiming", "proving", "checking"} => \E c : Log(c)

\* No transcript before the columns are observed.
LEMMA TranscriptInit == Init => TranscriptInv
<1> SUFFICES ASSUME Init PROVE TranscriptInv
  OBVIOUS
<1>1. challenges = Upto(Len(challenges))
  <2>1. challenges = <<>> /\ Len(challenges) = 0 /\ prefix = <<>> /\ prefix \in Seq(Elements)
    BY DEF Init
  <2> QED  BY <2>1, Prefixes DEF Upto
<1> QED  BY <1>1 DEF Init, TranscriptInv

\* No challenges are the beginning of any.
LEMMA NoChallenges == \A p \in Seq(Elements) : \A s : s = <<>> => s = SubSeq(p, 1, Len(s))
BY Prefixes

\* Every step keeps the verifier on the prover's track: what the verifier observes the
\* prover has observed, so the same challenge is drawn.
LEMMA TranscriptNext == TypeInv /\ TranscriptInv /\ [Next]_vars => TranscriptInv'
<1> SUFFICES ASSUME TypeInv, TranscriptInv, [Next]_vars PROVE TranscriptInv'
  OBVIOUS
<1>0. TypeOK /\ StageInv /\ challenger \in Transcript /\ verifier \in Transcript
      /\ TypeOK'
  BY TypeNext DEF TypeInv
<1>1. CASE Validate
  BY <1>1 DEF Validate, TranscriptInv, Upto
<1>2. CASE Setup
  <2>1. /\ rounds' = <<>> /\ challenges' = <<>> /\ fs' = <<>>
        /\ challenger' = job.col0 \o job.col1 /\ verifier' = job.col0 \o job.col1 /\ job' = job
    BY <1>0, <1>2 DEF Setup, StageInv
  <2>2. challenges' = Upto(Len(challenges))'
    BY <1>0, <2>1, NoChallenges DEF TypeOK, Upto
  <2>3. challenger' \in Transcript
    BY <1>0, <1>2, TypeNext DEF TypeInv
  <2> PICK c : c = [k \in 0 .. 0 |-> challenger']
    OBVIOUS
  <2>4. Len(rounds') = 0 /\ Len(challenges') = 0
    BY <2>1
  <2>5. Log(c)'
    <3>1. c \in [0 .. 0 -> Transcript] /\ c[0] = challenger'
      BY <2>3
    <3>2. c \in [0 .. Len(rounds') -> Transcript] /\ c[Len(rounds')] = c[0] /\ c[Len(challenges')] = c[0]
      BY <2>4, <3>1, Zenon
    <3>3. \A i \in 1 .. Len(rounds') : FALSE
      BY <2>4
    <3> QED  BY <2>1, <3>1, <3>2, <3>3, Zenon DEF Log
  <2> QED  BY <2>2, <2>5 DEF TranscriptInv
<1>3. CASE SetupTrace
  BY <1>3 DEF SetupTrace, TranscriptInv, Upto
<1>4. CASE Claim
  <2>1. (\E c : Log(c)) => (\E c : Log(c))'
    BY <1>4 DEF Claim, Log
  <2> QED  BY <1>4, <2>1 DEF Claim, TranscriptInv, Upto
<1>5. CASE Prove
  <2>1. PICK c : Log(c)
    BY <1>5 DEF Prove, TranscriptInv
  <2>2. PICK pair, r :
          /\ pair \in Pairs(prefix) /\ r \in Samples(fs, challenger \o pair, Elements)
          /\ rounds' = Append(rounds, pair) /\ prefix' = Append(prefix, r)
          /\ challenger' = Sampled(challenger \o pair)
          /\ fs' = Learn(fs, challenger \o pair, r)
    BY <1>5 DEF Prove
  <2>3. UNCHANGED <<job, stage, verifier, challenges>> /\ stage = "proving" /\ challenges = <<>>
        /\ Oracle(values) /\ Len(rounds) < NVars
    BY <1>0, <1>5 DEF Prove, StageInv
  <2>4. pair \in Elements \X Elements
    BY <1>0, <2>2, <2>3, PairsTyped
  <2> DEFINE seen == challenger \o pair
             n == Len(rounds)
  <2> PICK d : d = [k \in 0 .. n + 1 |-> IF k <= n THEN c[k] ELSE Sampled(seen)]
    OBVIOUS
  <2>5. seen \in Transcript /\ Sampled(seen) \in Transcript
    BY <1>0, <2>4, SeenTyped
  <2>6. DOMAIN fs \subseteq Transcript /\ \A u \in DOMAIN fs : fs[u] \in Elements
    BY <1>0 DEF TypeOK, Transcript
  <2> HIDE DEF seen
  <2>7. r \in Elements /\ seen \in DOMAIN fs' /\ fs'[seen] = r
        /\ \A u \in DOMAIN fs : u \in DOMAIN fs' /\ fs'[u] = fs[u]
    BY <2>2, <2>5, <2>6, Learned DEF seen
  <2>8. /\ n \in Nat /\ Len(rounds') = n + 1 /\ rounds'[n + 1] = pair /\ prefix'[n + 1] = r
        /\ \A i \in 1 .. n : rounds'[i] = rounds[i] /\ prefix'[i] = prefix[i]
    BY <1>0, <2>2, <2>4, <2>7 DEF TypeOK
  <2> HIDE DEF n
  <2>9. d \in [0 .. n + 1 -> Transcript]
    BY <2>1, <2>5 DEF Log, n
  <2>10. (\A k \in 0 .. n : d[k] = c[k]) /\ d[n + 1] = Sampled(seen)
    BY <2>8
  <2>11. c[n] = challenger /\ c[0] = job.col0 \o job.col1 /\ Len(challenges) = 0 /\ verifier = c[0]
    BY <2>1, <2>3 DEF Log, n
  <2>12. ASSUME NEW i \in 1 .. n + 1
         PROVE  LET s == d[i - 1] \o rounds'[i]
                IN d[i] = Sampled(s) /\ s \in DOMAIN fs' /\ fs'[s] = prefix'[i]
    <3>1. CASE i = n + 1
      <4>1. i - 1 = n /\ n \in 0 .. n
        BY <2>8, <3>1
      <4>2. d[i - 1] \o rounds'[i] = seen
        BY <2>8, <2>10, <2>11, <3>1, <4>1, Zenon DEF seen
      <4> QED  BY <2>7, <2>8, <2>10, <3>1, <4>2, Zenon
    <3>2. CASE i \in 1 .. n
      <4>1. i - 1 \in 0 .. n /\ i \in 0 .. n
        BY <2>8, <3>2
      <4>2. d[i - 1] \o rounds'[i] = c[i - 1] \o rounds[i] /\ d[i] = c[i]
        BY <2>8, <2>10, <3>2, <4>1, Zenon
      <4>3. LET s == c[i - 1] \o rounds[i]
            IN c[i] = Sampled(s) /\ s \in DOMAIN fs /\ fs[s] = prefix[i]
        BY <2>1, <3>2, Zenon DEF Log, n
      <4>4. prefix'[i] = prefix[i]
        BY <2>8, <3>2
      <4> QED  BY <2>7, <4>2, <4>3, <4>4, Zenon
    <3> QED  BY <2>8, <3>1, <3>2
  <2>13. challenger' = d[n + 1] /\ verifier' = d[0] /\ d[0] = job'.col0 \o job'.col1
    <3>1. 0 \in 0 .. n
      BY <2>8
    <3> QED  BY <2>2, <2>3, <2>10, <2>11, <3>1, Zenon DEF seen
  <2>14. Log(d)'
    BY <2>3, <2>8, <2>9, <2>11, <2>12, <2>13 DEF Log
  <2>15. challenges' = Upto(Len(challenges))'
    BY <1>0, <2>3, NoChallenges DEF TypeOK, Upto
  <2> QED  BY <2>14, <2>15 DEF TranscriptInv
<1>6. CASE ProveTrace
  <2>1. challenges' = <<>>
    BY <1>0, <1>6 DEF ProveTrace, StageInv
  <2>2. challenges' = Upto(Len(challenges))'
    BY <1>0, <2>1, NoChallenges DEF TypeOK, Upto
  <2> QED  BY <1>6, <2>2 DEF ProveTrace, TranscriptInv
<1>7. CASE BeginCheck
  <2>1. (\E c : Log(c)) => (\E c : Log(c))'
    BY <1>7 DEF BeginCheck, Log
  <2> QED  BY <1>7, <2>1 DEF BeginCheck, TranscriptInv, Upto
<1>8. CASE CheckRound
  <2> DEFINE n == Len(challenges)
             pair == rounds[n + 1]
             seen == verifier \o pair
  <2>1. PICK c : Log(c)
    BY <1>0, <1>8 DEF CheckRound, TranscriptInv, StageInv
  <2>2. PICK r \in Samples(fs, seen, Elements) :
          /\ verifier' = Sampled(seen) /\ fs' = Learn(fs, seen, r)
          /\ challenges' = Append(challenges, r)
    BY <1>8 DEF CheckRound
  <2>3. UNCHANGED <<job, stage, rounds, prefix, challenger>> /\ stage = "checking"
    BY <1>8 DEF CheckRound
  <2>4. n \in Nat /\ n + 1 \in 1 .. Len(rounds) /\ (n + 1) - 1 = n /\ Len(prefix) = Len(rounds)
        /\ prefix \in Seq(Elements) /\ challenges \in Seq(Elements)
    BY <1>0, <1>8 DEF TypeOK, CheckRound
  <2>5. verifier = c[n]
    BY <2>1 DEF Log
  <2> HIDE DEF n
  <2>6. c[n + 1] = Sampled(seen) /\ seen \in DOMAIN fs /\ fs[seen] = prefix[n + 1]
    <3>1. LET s == c[(n + 1) - 1] \o rounds[n + 1]
          IN c[n + 1] = Sampled(s) /\ s \in DOMAIN fs /\ fs[s] = prefix[n + 1]
      BY <2>1, <2>4, Zenon DEF Log
    <3> QED  BY <2>4, <2>5, <3>1, Zenon
  <2>7. DOMAIN fs \subseteq Transcript /\ \A u \in DOMAIN fs : fs[u] \in Elements
    BY <1>0 DEF TypeOK, Transcript
  <2> HIDE DEF seen
  <2>8. r = prefix[n + 1]
    BY <2>2, <2>6 DEF Samples
  <2>9. \A u \in DOMAIN fs : u \in DOMAIN fs' /\ fs'[u] = fs[u]
    BY <2>2, <2>6, <2>7, Learned
  <2>10. challenges' = Upto(Len(challenges))' /\ Len(challenges') = n + 1
    <3>1. Len(challenges') = n + 1
      BY <2>2, <2>4 DEF n
    <3>2. Upto(n + 1) = Append(Upto(n), prefix[n + 1])
      BY <2>4, Prefixes DEF Upto
    <3>3. challenges = Upto(n)
      BY DEF TranscriptInv, n
    <3>4. challenges' = Upto(n + 1)
      BY <2>2, <2>8, <3>2, <3>3, Zenon
    <3> QED  BY <2>3, <3>1, <3>4 DEF Upto
  <2>11. Log(c)'
    <3>1. \A i \in 1 .. Len(rounds) :
            LET s == c[i - 1] \o rounds[i]
            IN c[i] = Sampled(s) /\ s \in DOMAIN fs' /\ fs'[s] = prefix[i]
      BY <2>1, <2>9, Zenon DEF Log
    <3>2. c \in [0 .. Len(rounds) -> Transcript] /\ c[0] = job.col0 \o job.col1
          /\ challenger = c[Len(rounds)]
      BY <2>1, Zenon DEF Log
    <3>3. verifier' = c[Len(challenges')]
      BY <2>2, <2>6, <2>10, Zenon
    <3> QED  BY <2>3, <3>1, <3>2, <3>3 DEF Log
  <2> QED  BY <2>10, <2>11 DEF TranscriptInv
\* Every other action leaves the handler, or the transcripts as they are.
<1>9. ASSUME UNCHANGED <<challenges, prefix>>, stage' \notin {"claiming", "proving", "checking"}
      PROVE  TranscriptInv'
  BY <1>9 DEF TranscriptInv, Upto
<1>10. CASE SelfCheckFails \/ Ship \/ VerifyTrace
  BY <1>9, <1>10 DEF SelfCheckFails, Ship, VerifyTrace
<1>11. ASSUME NEW version \in ClientVersions, Open(version) PROVE TranscriptInv'
  BY <1>9, <1>11, SumcheckAssumption DEF Open
<1>12. CASE UNCHANGED vars
  <2>1. (\E c : Log(c)) => (\E c : Log(c))'
    BY <1>12 DEF vars, Log
  <2> QED  BY <1>12, <2>1 DEF vars, TranscriptInv, Upto
<1> QED  BY <1>1, <1>2, <1>3, <1>4, <1>5, <1>6, <1>7, <1>8, <1>10, <1>11, <1>12 DEF Next

-----------------------------------------------------------------------------
\* The invariant: the verifier's claim, and the reply.

\* The claim before round i + 1, and what a round must add up to.
ClaimAt(i) == IF i = 0 THEN claimed ELSE Line(rounds[i], prefix[i])
Consistent(i) == Plus(rounds[i][1], rounds[i][2]) = ClaimAt(i - 1)

\* The self-check of the handler has begun, and may be over.
Verifying ==
  /\ job.kind = "columns" /\ stage \notin {"received", "claiming", "proving"}
  /\ reply.status # "bad_request"

\* The running claim, and the rounds that were checked.
CheckInv ==
  Verifying => /\ running = ClaimAt(Len(challenges))
               /\ \A i \in 1 .. Len(challenges) : Consistent(i)

\* A consistent proof bound to the oracle.
Sound ==
  /\ Len(rounds) = NVars
  /\ \A i \in 1 .. Len(rounds) : Consistent(i)
  /\ ClaimAt(Len(rounds)) = EvaluateMle(values, prefix)

\* What a reply tells of the proof.
ReplyInv ==
  /\ reply.status \notin {"none", "bad_request"} =>
       Oracle(values) /\ Len(rounds) = NVars /\ Proved
  /\ reply.status = "success" =>
       /\ job.kind = "columns" /\ Sound /\ challenges = prefix
       /\ reply = Seal("V0_6_1", claimed, [claimed_sum |-> claimed, rounds |-> rounds])
  /\ reply.status = "error" =>
       /\ Verifying
       /\ \/ Len(challenges) < Len(rounds) /\ ~Consistent(Len(challenges) + 1)
          \/ Len(challenges) = Len(rounds) /\ running # EvaluateMle(values, challenges)
  /\ reply.status = "Ok" => Sound
  /\ reply.status \in {"RoundCount", "ChallengeCount", "RoundConsistency",
                       "TranscriptBinding", "FinalEvalBinding"} => ~honest
  /\ reply.status = "bad_request" => rounds = <<>> /\ challenges = <<>>

\* An honest proof states at every point the sum that is left below it.
LEMMA TruthAt ==
  ASSUME TypeOK, Oracle(values), Len(rounds) <= NVars, claimed = Below(values, <<>>),
         \A i \in 1 .. Len(rounds) : rounds[i] = RoundOf(values, Upto(i - 1))
  PROVE  /\ \A i \in 0 .. Len(rounds) : ClaimAt(i) = Below(values, Upto(i))
         /\ \A i \in 1 .. Len(rounds) : Consistent(i)
<1> DEFINE n == Log2(Len(values))
<1>0. /\ prefix \in Seq(Elements) /\ Len(prefix) = Len(rounds) /\ Len(rounds) \in Nat
      /\ Len(rounds) <= n
  BY DEF TypeOK, NVars
<1>1. \A i \in 0 .. Len(rounds) : Upto(i) \in Seq(Elements) /\ Len(Upto(i)) = i
  BY <1>0, Prefixes DEF Upto
<1>2. \A i \in 1 .. Len(rounds) : /\ Upto(i - 1) \in Seq(Elements) /\ Len(Upto(i - 1)) < n
                                  /\ prefix[i] \in Elements
                                  /\ Upto(i) = Append(Upto(i - 1), prefix[i])
  <2> TAKE i \in 1 .. Len(rounds)
  <2>1. i - 1 \in 0 .. Len(rounds) /\ i - 1 < Len(rounds)
    BY <1>0
  <2>2. Upto(i) = Append(Upto(i - 1), prefix[i])
    BY <1>0, Prefixes DEF Upto
  <2>3. n \in Nat
    BY Variables
  <2>4. Upto(i - 1) \in Seq(Elements) /\ Len(Upto(i - 1)) = i - 1 /\ prefix[i] \in Elements
    BY <1>0, <1>1, <2>1
  <2> HIDE DEF n
  <2>5. i - 1 < n
    BY <1>0, <2>1, <2>3
  <2> QED  BY <2>2, <2>4, <2>5
<1> HIDE DEF n
<1>3. \A i \in 1 .. Len(rounds) :
        /\ rounds[i][1] = Below(values, Append(Upto(i - 1), 0))
        /\ rounds[i][2] = Below(values, Append(Upto(i - 1), 1))
  BY DEF RoundOf
<1>4. ASSUME NEW i \in 0 .. Len(rounds) PROVE ClaimAt(i) = Below(values, Upto(i))
  <2>1. CASE i = 0
    <3>1. Upto(0) = <<>>
      BY <1>0, Prefixes DEF Upto
    <3> QED  BY <2>1, <3>1 DEF ClaimAt
  <2>2. CASE i # 0
    <3>1. i \in 1 .. Len(rounds)
      BY <1>0, <2>2
    <3>2. ClaimAt(i) = Blend(rounds[i][1], rounds[i][2], prefix[i])
      BY <2>2, LineIsBlend, Zenon DEF ClaimAt
    <3> DEFINE q == Upto(i - 1)
    <3>3. q \in Seq(Elements) /\ Len(q) < Log2(Len(values)) /\ prefix[i] \in Elements
      BY <1>2, <3>1 DEF n
    <3> HIDE DEF q
    <3>4. Below(values, Append(q, prefix[i])) =
            Blend(Below(values, Append(q, 0)), Below(values, Append(q, 1)), prefix[i])
      BY <3>3, BelowBlend
    <3> QED  BY <1>2, <1>3, <3>1, <3>2, <3>4, Zenon DEF q
  <2> QED  BY <2>1, <2>2
<1>5. ASSUME NEW i \in 1 .. Len(rounds) PROVE Consistent(i)
  <2> DEFINE q == Upto(i - 1)
  <2>1. q \in Seq(Elements) /\ Len(q) < Log2(Len(values))
    BY <1>2 DEF n
  <2>2. ClaimAt(i - 1) = Below(values, q)
    <3>1. i - 1 \in 0 .. Len(rounds)
      BY <1>0
    <3> QED  BY <1>4, <3>1
  <2> HIDE DEF q
  <2>3. Below(values, q) = Plus(Below(values, Append(q, 0)), Below(values, Append(q, 1)))
    BY <2>1, BelowSplit
  <2> QED  BY <1>3, <2>2, <2>3, Zenon DEF q, Consistent
<1> QED  BY <1>4, <1>5

\* When every variable is bound, what is left below the point is the oracle there.
LEMMA WholePrefix ==
  ASSUME TypeOK, Oracle(values), Len(rounds) = NVars
  PROVE  /\ Upto(Len(rounds)) = prefix
         /\ Below(values, prefix) = EvaluateMle(values, prefix)
<1>1. prefix \in Seq(Elements) /\ Len(prefix) = Len(rounds) /\ Len(prefix) = Log2(Len(values))
  BY DEF TypeOK, NVars
<1>2. Upto(Len(rounds)) = prefix
  BY <1>1, Prefixes DEF Upto
<1>3. Len(prefix) <= Log2(Len(values))
  BY <1>1, Variables
<1> QED  BY <1>1, <1>2, <1>3, BelowTyped

\* No check has begun.
LEMMA CheckInit == Init => CheckInv
BY DEF Init, CheckInv, Verifying

\* The running claim of sumcheck_verify is the last line at its challenge, and every
\* round behind it was consistent.
LEMMA CheckNext == TypeInv /\ TranscriptInv /\ CheckInv /\ [Next]_vars => CheckInv'
<1> SUFFICES ASSUME TypeInv, TranscriptInv, CheckInv, [Next]_vars PROVE CheckInv'
  OBVIOUS
<1>0. TypeOK /\ StageInv /\ challenges' = Upto(Len(challenges))'
  BY TranscriptNext DEF TypeInv, TranscriptInv
<1>1. CASE Validate
  BY <1>1 DEF Validate, CheckInv, Verifying
<1>2. ASSUME stage' \in {"received", "claiming", "proving"} PROVE CheckInv'
  BY <1>2 DEF CheckInv, Verifying
<1>3. CASE Setup \/ SetupTrace \/ Claim \/ Prove \/ ProveTrace
  BY <1>2, <1>3 DEF Setup, SetupTrace, Claim, Prove, ProveTrace
<1>4. CASE BeginCheck
  <2>1. Len(challenges) = 0 /\ UNCHANGED <<challenges, claimed, rounds, prefix>> /\ running' = claimed
    BY <1>0, <1>4 DEF BeginCheck, StageInv
  <2>2. running' = ClaimAt(Len(challenges))' /\ \A i \in 1 .. Len(challenges') : FALSE
    BY <2>1 DEF ClaimAt
  <2> QED  BY <2>2 DEF CheckInv
<1>5. CASE CheckRound
  <2> DEFINE k == Len(challenges)
             pair == rounds[k + 1]
  <2>1. PICK r : /\ Plus(pair[1], pair[2]) = running
                 /\ challenges' = Append(challenges, r) /\ running' = Line(pair, r)
                 /\ r \in Samples(fs, verifier \o pair, Elements)
    BY <1>5 DEF CheckRound
  <2>2. UNCHANGED <<job, stage, claimed, rounds, prefix, reply>> /\ Verifying
    BY <1>0, <1>5 DEF CheckRound, StageInv, Verifying, NoReply
  <2>3. /\ running = ClaimAt(k) /\ \A i \in 1 .. k : Consistent(i)
    BY <2>2 DEF CheckInv
  <2>4. r \in Elements
    BY <1>0, <2>1 DEF Samples, TypeOK
  <2>5. /\ k \in Nat /\ Len(challenges') = k + 1 /\ challenges'[k + 1] = r
        /\ k + 1 \in 1 .. Len(prefix) /\ prefix \in Seq(Elements)
    BY <1>0, <1>5, <2>1, <2>4 DEF CheckRound, TypeOK
  <2>6. r = prefix[k + 1]
    <3>1. challenges' = SubSeq(prefix, 1, k + 1)
      BY <1>0, <2>2, <2>5 DEF Upto
    <3>2. SubSeq(prefix, 1, k + 1)[k + 1] = prefix[k + 1]
      BY <2>5
    <3> QED  BY <2>5, <3>1, <3>2, Zenon
  <2> HIDE DEF k
  <2>7. running' = ClaimAt(k + 1)
    <3>1. k + 1 # 0
      BY <2>5
    <3> QED  BY <2>1, <2>6, <3>1 DEF ClaimAt
  <2>8. Consistent(k + 1)
    <3>1. (k + 1) - 1 = k
      BY <2>5
    <3> QED  BY <2>1, <2>3, <3>1, Zenon DEF Consistent
  <2>9. \A i \in 1 .. k + 1 : Consistent(i)
    BY <2>3, <2>5, <2>8
  <2> QED  BY <2>2, <2>5, <2>7, <2>9 DEF CheckInv, Consistent, ClaimAt
<1>6. ASSUME UNCHANGED <<challenges, claimed, rounds, prefix, running>>, Verifying' => Verifying
      PROVE  CheckInv'
  BY <1>6 DEF CheckInv, Consistent, ClaimAt
<1>7. ASSUME SelfCheckFails \/ Ship \/ VerifyTrace
             \/ (\E version \in ClientVersions : Open(version)) \/ UNCHANGED vars
      PROVE  CheckInv'
  <2>1. UNCHANGED <<challenges, claimed, rounds, prefix, running>>
    BY <1>7 DEF SelfCheckFails, Ship, VerifyTrace, Open, vars
  <2>2. Verifying' => Verifying
    BY <1>0, <1>7 DEF SelfCheckFails, Ship, VerifyTrace, Open, vars, Verifying, StageInv,
                      NoReply, Checked
  <2> QED  BY <1>6, <2>1, <2>2
<1> QED  BY <1>1, <1>3, <1>4, <1>5, <1>7 DEF Next

-----------------------------------------------------------------------------
\* No reply to begin with.
LEMMA ReplyInit == Init => ReplyInv
BY DEF Init, ReplyInv, NoReply

\* A reply tells what was checked: success and Ok a consistent proof bound to the
\* oracle, an error the round or the binding that failed, any verdict of the library
\* against a proof a prover that is not honest.
LEMMA ReplyNext ==
  TypeInv /\ HonestInv /\ TranscriptInv /\ CheckInv /\ ReplyInv /\ [Next]_vars => ReplyInv'
<1> SUFFICES ASSUME TypeInv, HonestInv, TranscriptInv, CheckInv, ReplyInv, [Next]_vars
             PROVE  ReplyInv'
  OBVIOUS
<1>0. TypeOK /\ StageInv
  BY DEF TypeInv
<1>1. CASE Validate
  BY <1>0, <1>1 DEF Validate, StageInv, ReplyInv
<1>2. ASSUME reply' = NoReply PROVE ReplyInv'
  BY <1>2 DEF ReplyInv, NoReply
<1>3. CASE Setup \/ SetupTrace \/ Claim \/ Prove \/ ProveTrace \/ BeginCheck \/ CheckRound
  BY <1>0, <1>2, <1>3 DEF Setup, SetupTrace, Claim, Prove, ProveTrace, BeginCheck, CheckRound,
                          StageInv
<1>4. CASE SelfCheckFails
  <2>1. /\ Verifying /\ Oracle(values) /\ Len(rounds) = NVars
        /\ UNCHANGED <<job, values, claimed, rounds, prefix, running, challenges>>
        /\ stage' = "answered" /\ reply' = [status |-> "error"]
    BY <1>0, <1>4 DEF SelfCheckFails, Checked, StageInv, Verifying, NoReply
  <2>2. running = ClaimAt(Len(challenges))
    BY <2>1 DEF CheckInv
  <2>3. \/ Len(challenges) < Len(rounds) /\ ~Consistent(Len(challenges) + 1)
        \/ Len(challenges) = Len(rounds) /\ running # EvaluateMle(values, challenges)
    <3>1. (Len(challenges) + 1) - 1 = Len(challenges)
      BY <1>0 DEF TypeOK
    <3>2. CASE Checked /\ ~Bound
      BY <3>2 DEF Checked, Bound
    <3>3. CASE ~(Checked /\ ~Bound)
      BY <1>4, <2>2, <3>1, <3>3, Zenon DEF SelfCheckFails, Consistent
    <3> QED  BY <3>2, <3>3
  <2>4. Verifying' /\ Proved'
    BY <2>1 DEF Verifying, Proved
  <2> QED  BY <2>1, <2>3, <2>4 DEF ReplyInv, Consistent, ClaimAt, NVars
<1>5. CASE Ship
  <2>1. /\ Verifying /\ Oracle(values) /\ Len(rounds) = NVars /\ Len(challenges) = Len(rounds)
        /\ running = EvaluateMle(values, challenges) /\ job.kind = "columns"
        /\ UNCHANGED <<job, values, claimed, rounds, prefix, running, challenges>>
        /\ stage' = "answered"
        /\ reply' = Seal("V0_6_1", claimed, [claimed_sum |-> claimed, rounds |-> rounds])
    BY <1>0, <1>5 DEF Ship, Checked, Bound, StageInv, Verifying, NoReply
  <2>2. challenges = prefix
    BY <1>0, <2>1, WholePrefix DEF TranscriptInv
  <2>3. Sound
    BY <2>1, <2>2 DEF CheckInv, Sound
  <2>4. Proved' /\ reply'.status = "success"
    BY <2>1 DEF Proved, Seal
  <2> QED  BY <2>1, <2>2, <2>3, <2>4 DEF ReplyInv, Sound, Consistent, ClaimAt, NVars
<1>6. CASE VerifyTrace
  <2>1. /\ Oracle(values) /\ Len(rounds) = NVars /\ stage' = "answered" /\ stage = "proving"
        /\ reply = NoReply
        /\ UNCHANGED <<job, honest, values, claimed, rounds, prefix, running, challenges>>
    BY <1>0, <1>6 DEF VerifyTrace, StageInv
  <2> DEFINE n == Len(rounds)
             Whole(final) == VerifySumcheck(Presented(final), prefix, values)
             Short(final) == VerifySumcheck([Presented(final) EXCEPT !.rounds = ButLast(rounds)],
                                            prefix, values)
             Early(final) == VerifySumcheck(Presented(final), ButLast(prefix), values)
  <2>2. PICK final :
          /\ final \in IF honest THEN {EvaluateMle(values, prefix)} ELSE Elements
          /\ reply' \in IF honest \/ rounds = <<>> THEN {Whole(final)}
                        ELSE {Whole(final), Short(final), Early(final)}
    BY <1>6, Zenon DEF VerifyTrace
  <2>3. /\ rounds \in Seq(Elements \X Elements) /\ prefix \in Seq(Elements)
        /\ Len(prefix) = n /\ n \in Nat
    BY <1>0 DEF TypeOK
  <2> DEFINE pr == Presented(final)
  <2>4. pr.rounds = rounds /\ pr.n_vars = NVars /\ pr.final_eval = final /\ pr.claimed_sum = claimed
    BY DEF Presented
  <2>5. \A i : ClaimOf(pr, prefix, i) = ClaimAt(i)
    BY <2>4 DEF ClaimOf, ClaimAt
  <2> DEFINE Clean == \A i \in 1 .. n : Consistent(i)
             Meets == ClaimAt(n) = final
             Binds == EvaluateMle(values, prefix) = final
             Statuses == {"RoundCount", "ChallengeCount", "RoundConsistency",
                          "TranscriptBinding", "FinalEvalBinding", "Ok"}
  <2>6. Whole(final).status \in Statuses /\ (Whole(final).status = "Ok" <=> Clean /\ Meets /\ Binds)
    <3> HIDE DEF pr
    <3>1. Len(pr.rounds) = pr.n_vars /\ Len(prefix) = Len(pr.rounds) /\ Len(pr.rounds) = n
      BY <2>1, <2>3, <2>4
    <3>2. Clean <=> \A i \in 1 .. Len(pr.rounds) :
            ~(Plus(pr.rounds[i][1], pr.rounds[i][2]) # ClaimOf(pr, prefix, i - 1))
      BY <2>4, <2>5, Zenon DEF Consistent
    <3>3. Meets <=> ClaimOf(pr, prefix, Len(pr.rounds)) = pr.final_eval
      BY <2>4, <2>5, Zenon
    <3>4. Binds <=> EvaluateMle(values, prefix) = pr.final_eval
      BY <2>4, Zenon
    <3> DEFINE v == VerifySumcheck(pr, prefix, values)
    <3>5. /\ \/ v \in [status : {"RoundCount", "ChallengeCount", "TranscriptBinding",
                                   "FinalEvalBinding", "Ok"}]
             \/ v \in [status : {"RoundConsistency"}, round : Nat]
          /\ v.status = "Ok" <=>
               /\ Len(pr.rounds) = pr.n_vars /\ Len(prefix) = Len(pr.rounds)
               /\ \A i \in 1 .. Len(pr.rounds) :
                    ~(Plus(pr.rounds[i][1], pr.rounds[i][2]) # ClaimOf(pr, prefix, i - 1))
               /\ ClaimOf(pr, prefix, Len(pr.rounds)) = pr.final_eval
               /\ EvaluateMle(values, prefix) = pr.final_eval
      BY <2>3, <2>4, VerdictIs
    <3> HIDE DEF v, Clean, Meets, Binds
    <3>6. v.status \in Statuses
      BY <3>5
    <3>7. v.status = "Ok" <=> Clean /\ Meets /\ Binds
      BY <3>1, <3>2, <3>3, <3>4, <3>5, Zenon
    <3> QED  BY <3>6, <3>7 DEF v, pr
  <2>7. rounds # <<>> => Short(final).status \in Statuses \ {"Ok"}
    <3> HAVE rounds # <<>>
    <3> DEFINE ps == [Presented(final) EXCEPT !.rounds = ButLast(rounds)]
               v == VerifySumcheck(ps, prefix, values)
    <3>1. ps.rounds = ButLast(rounds) /\ ps.n_vars = NVars
      BY DEF Presented
    <3>2. ButLast(rounds) \in Seq(Elements \X Elements) /\ Len(ButLast(rounds)) = n - 1
      BY <2>3 DEF ButLast
    <3> HIDE DEF ps
    <3>3. Len(ps.rounds) # ps.n_vars
      BY <2>1, <2>3, <3>1, <3>2
    <3>4. /\ \/ v \in [status : {"RoundCount", "ChallengeCount", "TranscriptBinding",
                                   "FinalEvalBinding", "Ok"}]
             \/ v \in [status : {"RoundConsistency"}, round : Nat]
          /\ v.status = "Ok" => Len(ps.rounds) = ps.n_vars
      BY <2>3, <3>1, <3>2, VerdictIs
    <3> HIDE DEF v
    <3>5. v.status \in Statuses \ {"Ok"}
      BY <3>3, <3>4
    <3> QED  BY <3>5 DEF v, ps
  <2>8. rounds # <<>> => Early(final).status \in Statuses \ {"Ok"}
    <3> HAVE rounds # <<>>
    <3> DEFINE v == VerifySumcheck(pr, ButLast(prefix), values)
    <3>2. ButLast(prefix) \in Seq(Elements) /\ Len(ButLast(prefix)) = n - 1
      BY <2>3 DEF ButLast
    <3> HIDE DEF pr
    <3>3. Len(ButLast(prefix)) # Len(pr.rounds)
      BY <2>3, <2>4, <3>2
    <3>4. /\ \/ v \in [status : {"RoundCount", "ChallengeCount", "TranscriptBinding",
                                   "FinalEvalBinding", "Ok"}]
             \/ v \in [status : {"RoundConsistency"}, round : Nat]
          /\ v.status = "Ok" => Len(ButLast(prefix)) = Len(pr.rounds)
      BY <2>3, <2>4, <3>2, VerdictIs
    <3> HIDE DEF v
    <3>5. v.status \in Statuses \ {"Ok"}
      BY <3>3, <3>4
    <3> QED  BY <3>5 DEF v, pr
  <2>9. honest => Whole(final).status = "Ok"
    <3> HAVE honest
    <3>1. Proved
      BY <2>1 DEF Proved, NoReply
    <3>2. /\ claimed = Below(values, <<>>)
          /\ \A i \in 1 .. Len(rounds) : rounds[i] = RoundOf(values, Upto(i - 1))
      BY <3>1 DEF HonestInv
    <3>3. Len(rounds) <= NVars
      BY <2>1, <2>3
    <3>4. Clean /\ ClaimAt(n) = Below(values, Upto(n))
      BY <1>0, <2>1, <2>3, <3>2, <3>3, TruthAt
    <3>5. final = EvaluateMle(values, prefix)
      BY <2>2
    <3>6. Meets /\ Binds
      BY <1>0, <2>1, <3>4, <3>5, WholePrefix, Zenon
    <3> HIDE DEF Clean, Meets, Binds
    <3> QED  BY <2>6, <3>4, <3>6
  <2>10. /\ reply'.status \in Statuses
         /\ reply'.status = "Ok" => Clean /\ Meets /\ Binds
         /\ honest => reply'.status = "Ok"
    <3> HIDE DEF Whole, Short, Early, Clean, Meets, Binds
    <3> QED  BY <2>2, <2>6, <2>7, <2>8, <2>9
  <2>11. reply'.status = "Ok" => Sound
    BY <2>1, <2>10 DEF Sound
  <2>12. Sound => Sound'
    BY <2>1 DEF Sound, Consistent, ClaimAt, NVars
  <2>13. Oracle(values') /\ Len(rounds') = NVars' /\ Proved'
    BY <2>1, <2>10 DEF Proved, NVars
  <2> QED  BY <2>1, <2>10, <2>11, <2>12, <2>13 DEF ReplyInv
\* Once answered, nothing the answer speaks of changes.
<1>7. ASSUME UNCHANGED <<job, honest, values, claimed, rounds, prefix, challenges, running, reply>>,
             Proved => Proved', Verifying => Verifying'
      PROVE  ReplyInv'
  BY <1>7 DEF ReplyInv, Sound, Consistent, ClaimAt, NVars
<1>8. ASSUME NEW version \in ClientVersions, Open(version) PROVE ReplyInv'
  <2>1. stage' \notin {"received", "claiming", "proving"}
    BY <1>8, SumcheckAssumption DEF Open
  <2> QED  BY <1>7, <1>8, <2>1 DEF Open, Proved, Verifying
<1>9. CASE UNCHANGED vars
  BY <1>7, <1>9 DEF vars, Proved, Verifying
<1> QED  BY <1>1, <1>3, <1>4, <1>5, <1>6, <1>8, <1>9 DEF Next

-----------------------------------------------------------------------------
\* The theorems about verdicts.

\* The inductive invariant.
SumcheckInv == TypeInv /\ HonestInv /\ TranscriptInv /\ CheckInv /\ ReplyInv

\* The invariant holds of every state of every execution.
LEMMA Inductive == FairSpec => []SumcheckInv
<1>1. Init => SumcheckInv
  BY TypeInit, HonestInit, TranscriptInit, CheckInit, ReplyInit DEF SumcheckInv
<1>2. SumcheckInv /\ [Next]_vars => SumcheckInv'
  BY TypeNext, HonestNext, TranscriptNext, CheckNext, ReplyNext DEF SumcheckInv
<1> QED  BY <1>1, <1>2, PTL DEF FairSpec

\* Types: every variable of the handler, of both transcripts and of the reply has its
\* type, and no verifier draws more challenges than the proof has rounds.
THEOREM TypeCorrect == FairSpec => []TypeOK
<1>1. SumcheckInv => TypeOK
  BY DEF SumcheckInv, TypeInv
<1> QED  BY <1>1, Inductive, PTL

\* The last claim of an accepted proof is true of the oracle, so if the first
\* is not, some round takes a false claim to a true one.
LEMMA Turn ==
  ASSUME NEW n \in Nat, NEW good, ~good[0], good[n]
  PROVE  \E i \in 1 .. n : ~good[i - 1] /\ good[i]
<1> DEFINE S == {m \in Nat : m <= n => ~good[m]}
<1> SUFFICES ASSUME \A i \in 1 .. n : ~(~good[i - 1] /\ good[i]) PROVE FALSE
  OBVIOUS
<1>1. 0 \in S
  OBVIOUS
<1>2. ASSUME NEW m \in Nat, m \in S PROVE m + 1 \in S
  <2> SUFFICES ASSUME m + 1 <= n PROVE ~good[m + 1]
    OBVIOUS
  <2>1. m + 1 \in 1 .. n /\ (m + 1) - 1 = m /\ m <= n
    OBVIOUS
  <2>2. ~good[m]
    BY <1>2, <2>1
  <2> QED  BY <2>1, <2>2
<1>3. \A m \in Nat : m \in S
  <2> HIDE DEF S
  <2> QED  BY <1>1, <1>2, Induct
<1> QED  BY <1>3

\* A consistent proof of a wrong sum has a round whose line is not the true one and
\* meets it in the challenge: where the turn is, claim and truth agree after the
\* round and not before, and LinesMeetOnce leaves one point.
LEMMA Lucky ==
  ASSUME TypeOK, Oracle(values), Sound, claimed # Below(values, <<>>)
  PROVE  \E i \in 1 .. Len(rounds) :
           LET truth == RoundOf(values, Upto(i - 1))
           IN \A x \in Elements : Line(rounds[i], x) = Line(truth, x) <=> x = prefix[i]
<1> DEFINE n == Len(rounds)
           good == [i \in 0 .. n |-> ClaimAt(i) = Below(values, Upto(i))]
<1>0. /\ prefix \in Seq(Elements) /\ Len(prefix) = n /\ n \in Nat
      /\ rounds \in Seq(Elements \X Elements) /\ n = Log2(Len(values))
  BY DEF TypeOK, Sound, NVars
<1>1. ~good[0]
  <2>1. Upto(0) = <<>>
    BY <1>0, Prefixes DEF Upto
  <2>2. good[0] = (ClaimAt(0) = Below(values, Upto(0)))
    BY <1>0
  <2> QED  BY <2>1, <2>2, Zenon DEF ClaimAt
<1>2. good[n]
  BY <1>0, WholePrefix DEF Sound
<1>3. PICK i \in 1 .. n : ~good[i - 1] /\ good[i]
  <2> HIDE DEF good, n
  <2> QED  BY <1>0, <1>1, <1>2, Turn
<1>4. i - 1 \in 0 .. n /\ i \in 0 .. n /\ i # 0 /\ i - 1 < n
  BY <1>0
<1>5. ClaimAt(i - 1) # Below(values, Upto(i - 1)) /\ ClaimAt(i) = Below(values, Upto(i))
  BY <1>3, <1>4
<1> DEFINE q == Upto(i - 1)
           T == RoundOf(values, q)
           pair == rounds[i]
<1>6. /\ q \in Seq(Elements) /\ Len(q) < Log2(Len(values)) /\ prefix[i] \in Elements
      /\ Upto(i) = Append(q, prefix[i])
  BY <1>0, <1>4, Prefixes DEF Upto
<1>7. /\ T[1] = Below(values, Append(q, 0)) /\ T[2] = Below(values, Append(q, 1))
  BY DEF RoundOf
<1>8. T \in Elements \X Elements /\ pair \in Elements \X Elements
  <2>1. pair \in Elements \X Elements
    BY <1>0
  <2> HIDE DEF q
  <2> QED  BY <1>6, <2>1, RoundTyped
<1>9. Plus(pair[1], pair[2]) = ClaimAt(i - 1)
  BY DEF Sound, Consistent
<1>10. Below(values, q) = Plus(T[1], T[2])
  <2> HIDE DEF q, T
  <2> QED  BY <1>6, <1>7, BelowSplit
<1>11. ~(pair[1] = T[1] /\ pair[2] = T[2])
  <2> HIDE DEF T, pair
  <2> QED  BY <1>5, <1>9, <1>10
<1>12. \A x \in Elements : Line(T, x) = Below(values, Append(q, x))
  <2> TAKE x \in Elements
  <2> HIDE DEF q, T
  <2>1. Below(values, Append(q, x)) = Blend(Below(values, Append(q, 0)), Below(values, Append(q, 1)), x)
    BY <1>6, BelowBlend
  <2> QED  BY <1>7, <2>1, LineIsBlend, Zenon
<1>13. Line(pair, prefix[i]) = Line(T, prefix[i])
  <2>1. ClaimAt(i) = Line(pair, prefix[i])
    BY <1>4 DEF ClaimAt
  <2> HIDE DEF q, T, pair
  <2> QED  BY <1>5, <1>6, <1>12, <2>1, Zenon
<1> HIDE DEF T, pair
<1>14. \A x \in Elements : Line(pair, x) = Line(T, x) => x = prefix[i]
  <2> TAKE x \in Elements
  <2> HAVE Line(pair, x) = Line(T, x)
  <2>1. /\ pair[1] \in Elements /\ pair[2] \in Elements /\ T[1] \in Elements /\ T[2] \in Elements
    BY <1>8, PairTyped
  <2>2. Blend(pair[1], pair[2], x) = Blend(T[1], T[2], x)
    BY LineIsBlend, Zenon
  <2>3. Blend(pair[1], pair[2], prefix[i]) = Blend(T[1], T[2], prefix[i])
    BY <1>13, LineIsBlend, Zenon
  <2>4. \A e \in Elements :
          Blend(pair[1], pair[2], e) = Blend(T[1], T[2], e) /\ x # e =>
            pair[1] = T[1] /\ pair[2] = T[2]
    <3> DEFINE a == pair[1]
               b == pair[2]
               c == T[1]
               d == T[2]
    <3>1. a \in Elements /\ b \in Elements /\ c \in Elements /\ d \in Elements
          /\ Blend(a, b, x) = Blend(c, d, x)
      BY <2>1, <2>2
    <3> HIDE DEF a, b, c, d
    <3>2. \A e \in Elements : Blend(a, b, e) = Blend(c, d, e) /\ x # e => a = c /\ b = d
      BY <3>1, LinesMeetOnce
    <3> QED  BY <3>2 DEF a, b, c, d
  <2>5. prefix[i] \in Elements
    BY <1>6
  <2> QED  BY <1>11, <2>3, <2>4, <2>5, Zenon
<1>15. \A x \in Elements : Line(pair, x) = Line(T, x) <=> x = prefix[i]
  BY <1>13, <1>14
<1> QED  BY <1>15 DEF T, pair, q

\* An honest transcript ends in no verdict against it, an accepted lie in a lucky round
\* (Lucky), and the transcripts meet by TranscriptInv.
LEMMA VerdictFollows == SumcheckInv => VerdictIsRight
<1> SUFFICES ASSUME SumcheckInv PROVE VerdictIsRight
  OBVIOUS
<1>0. TypeOK /\ StageInv /\ HonestInv /\ TranscriptInv /\ CheckInv /\ ReplyInv
  BY DEF SumcheckInv, TypeInv
<1>1. HonestIsAccepted
  <2> SUFFICES ASSUME honest, Rejected PROVE FALSE
    BY DEF HonestIsAccepted
  <2>1. reply.status = "error"
    BY <1>0 DEF ReplyInv, Rejected
  <2>2. /\ Oracle(values) /\ Len(rounds) = NVars /\ Proved /\ Verifying
        /\ \/ Len(challenges) < Len(rounds) /\ ~Consistent(Len(challenges) + 1)
           \/ Len(challenges) = Len(rounds) /\ running # EvaluateMle(values, challenges)
    BY <1>0, <2>1 DEF ReplyInv
  <2>3. /\ claimed = Below(values, <<>>)
        /\ \A i \in 1 .. Len(rounds) : rounds[i] = RoundOf(values, Upto(i - 1))
    BY <1>0, <2>2 DEF HonestInv
  <2>4. Len(rounds) <= NVars /\ Len(rounds) \in Nat /\ Len(challenges) \in Nat
    BY <1>0, <2>2 DEF TypeOK
  <2>5. /\ \A i \in 0 .. Len(rounds) : ClaimAt(i) = Below(values, Upto(i))
        /\ \A i \in 1 .. Len(rounds) : Consistent(i)
    BY <1>0, <2>2, <2>3, <2>4, TruthAt
  <2>6. Len(challenges) = Len(rounds) /\ running # EvaluateMle(values, challenges)
    <3>1. Len(challenges) < Len(rounds) => Len(challenges) + 1 \in 1 .. Len(rounds)
      BY <2>4
    <3> QED  BY <2>2, <2>5, <3>1
  <2>7. challenges = prefix /\ Below(values, prefix) = EvaluateMle(values, prefix)
        /\ Upto(Len(rounds)) = prefix
    BY <1>0, <2>2, <2>6, WholePrefix DEF TranscriptInv
  <2>8. running = ClaimAt(Len(rounds))
    BY <1>0, <2>2, <2>6 DEF CheckInv
  <2>9. Len(rounds) \in 0 .. Len(rounds)
    BY <2>4
  <2> QED  BY <2>5, <2>6, <2>7, <2>8, <2>9, Zenon
<1>2. LieNeedsLuck
  <2> SUFFICES ASSUME Accepted, claimed # HypercubeSum(<<>>)
               PROVE  \E i \in DOMAIN rounds :
                        LET truth == HonestRound(SubSeq(prefix, 1, i - 1))
                        IN \A x \in Elements : Line(rounds[i], x) = Line(truth, x) <=> x = prefix[i]
    BY DEF LieNeedsLuck
  <2>1. Sound /\ Oracle(values)
    BY <1>0 DEF Accepted, ReplyInv
  <2>2. claimed # Below(values, <<>>)
    BY TruthIs
  <2>3. PICK i \in 1 .. Len(rounds) :
          LET truth == RoundOf(values, Upto(i - 1))
          IN \A x \in Elements : Line(rounds[i], x) = Line(truth, x) <=> x = prefix[i]
    BY <1>0, <2>1, <2>2, Lucky
  <2>4. i \in DOMAIN rounds
    BY <1>0 DEF TypeOK
  <2>5. RoundOf(values, Upto(i - 1)) = HonestRound(SubSeq(prefix, 1, i - 1))
    BY TruthIs, Zenon DEF Upto
  <2> QED  BY <2>3, <2>4, <2>5, Zenon
<1>3. TranscriptsMeet
  BY <1>0 DEF TranscriptInv, TranscriptsMeet, Upto
<1> QED  BY <1>1, <1>2, <1>3 DEF VerdictIsRight

\* Neither verifier turns an honest prover away; a wrong sum is accepted only if in
\* some round a line that is not the true one met it in the challenge drawn; the
\* handler's two transcripts draw the same challenges.
THEOREM VerdictsAreRight == FairSpec => []VerdictIsRight
BY VerdictFollows, Inductive, PTL

\* What the reply tells of the checks (ReplyInv, CheckInv) decides the library's verdict
\* (VerdictIs) on the same proof.
LEMMA AgreementFollows == SumcheckInv => VerifiersAgree
<1> SUFFICES ASSUME SumcheckInv PROVE VerifiersAgree
  OBVIOUS
<1>0. TypeOK /\ StageInv /\ TranscriptInv /\ CheckInv /\ ReplyInv
  BY DEF SumcheckInv, TypeInv
<1> SUFFICES ASSUME reply.status \in {"success", "error"} PROVE VerifiersAgree
  BY DEF VerifiersAgree
<1> DEFINE n == Len(rounds)
           pr == Presented(IF n = 0 THEN claimed ELSE Line(rounds[n], prefix[n]))
           v == VerifySumcheck(pr, prefix, values)
<1>1. /\ pr.rounds = rounds /\ pr.n_vars = NVars /\ pr.final_eval = ClaimAt(n)
      /\ pr.claimed_sum = claimed
  BY DEF Presented, ClaimAt
<1>2. \A i : ClaimOf(pr, prefix, i) = ClaimAt(i)
  BY <1>1 DEF ClaimOf, ClaimAt
<1>3. /\ rounds \in Seq(Elements \X Elements) /\ prefix \in Seq(Elements) /\ Len(prefix) = n
      /\ n \in Nat /\ n = NVars /\ Len(challenges) \in Nat /\ Oracle(values)
      /\ Len(challenges) <= n
  BY <1>0 DEF TypeOK, ReplyInv
<1> HIDE DEF pr
<1>4. /\ v.status = "Ok" <=>
           (\A i \in 1 .. n : Consistent(i)) /\ EvaluateMle(values, prefix) = ClaimAt(n)
      /\ (\A i \in 1 .. n : Consistent(i)) /\ EvaluateMle(values, prefix) # ClaimAt(n) =>
           v.status = "FinalEvalBinding"
      /\ \A k \in 1 .. n : ~Consistent(k) /\ (\A i \in 1 .. n : i < k => Consistent(i)) =>
           v.status = "RoundConsistency" /\ v.round = k
  <2>1. \A i \in 1 .. n : Consistent(i) <=>
          ~(Plus(pr.rounds[i][1], pr.rounds[i][2]) # ClaimOf(pr, prefix, i - 1))
    BY <1>1, <1>2, Zenon DEF Consistent
  <2>2. ClaimOf(pr, prefix, n) = pr.final_eval /\ Len(pr.rounds) = pr.n_vars
        /\ Len(prefix) = Len(pr.rounds) /\ Len(pr.rounds) = n
    BY <1>1, <1>2, <1>3, Zenon
  <2>a. pr.rounds \in Seq(Elements \X Elements) /\ Len(prefix) \in Nat
    BY <1>1, <1>3
  <2> DEFINE Bad(i) == Plus(pr.rounds[i][1], pr.rounds[i][2]) # ClaimOf(pr, prefix, i - 1)
             Whole == Len(pr.rounds) = pr.n_vars /\ Len(prefix) = Len(pr.rounds)
             Clean == \A i \in 1 .. Len(pr.rounds) : ~Bad(i)
             Meets == ClaimOf(pr, prefix, Len(pr.rounds)) = pr.final_eval
             Binds == EvaluateMle(values, prefix) = pr.final_eval
  <2>b. /\ VerifySumcheck(pr, prefix, values).status = "Ok" <=> Whole /\ Clean /\ Meets /\ Binds
        /\ Whole /\ Clean /\ Meets /\ ~Binds =>
             VerifySumcheck(pr, prefix, values).status = "FinalEvalBinding"
        /\ \A k \in 1 .. Len(pr.rounds) :
             Whole /\ Bad(k) /\ (\A i \in 1 .. Len(pr.rounds) : i < k => ~Bad(i)) =>
               /\ VerifySumcheck(pr, prefix, values).status = "RoundConsistency"
               /\ VerifySumcheck(pr, prefix, values).round = k
    <3> HIDE DEF n, v
    <3> QED  BY <2>a, VerdictIs
  <2>3. v.status = "Ok" <=> Whole /\ Clean /\ Meets /\ Binds
    BY <2>b, Zenon
  <2>4. Whole /\ Clean /\ Meets /\ ~Binds => v.status = "FinalEvalBinding"
    BY <2>b, Zenon
  <2>5. \A k \in 1 .. Len(pr.rounds) :
          Whole /\ Bad(k) /\ (\A i \in 1 .. Len(pr.rounds) : i < k => ~Bad(i)) =>
            v.status = "RoundConsistency" /\ v.round = k
    BY <2>b, Zenon
  <2> HIDE DEF v, n
  <2> QED  BY <1>1, <2>1, <2>2, <2>3, <2>4, <2>5, Zenon
<1>5. CASE reply.status = "success"
  <2>1. (\A i \in 1 .. n : Consistent(i)) /\ EvaluateMle(values, prefix) = ClaimAt(n)
    BY <1>0, <1>5 DEF ReplyInv, Sound
  <2>2. v.status = "Ok"
    BY <1>4, <2>1
  <2> QED  BY <1>5, <2>2 DEF VerifiersAgree, pr
<1>6. CASE reply.status = "error" /\ Len(challenges) < n
  <2>1. Verifying /\ ~Consistent(Len(challenges) + 1)
    BY <1>0, <1>3, <1>6 DEF ReplyInv
  <2>2. \A i \in 1 .. n : i < Len(challenges) + 1 => Consistent(i)
    BY <1>0, <1>3, <2>1 DEF CheckInv
  <2>3. Len(challenges) + 1 \in 1 .. n
    BY <1>3, <1>6
  <2>4. v.status = "RoundConsistency" /\ v.round = Len(challenges) + 1
    BY <1>4, <2>1, <2>2, <2>3
  <2> HIDE DEF v
  <2> QED  BY <1>6, <2>4 DEF VerifiersAgree, pr, v
<1>7. CASE reply.status = "error" /\ ~(Len(challenges) < n)
  <2>1. Verifying /\ Len(challenges) = n /\ running # EvaluateMle(values, challenges)
    BY <1>0, <1>3, <1>7 DEF ReplyInv
  <2>2. challenges = prefix
    BY <1>0, <1>3, <2>1, WholePrefix DEF TranscriptInv
  <2>3. (\A i \in 1 .. n : Consistent(i)) /\ EvaluateMle(values, prefix) # ClaimAt(n)
    BY <1>0, <2>1, <2>2 DEF CheckInv
  <2>4. v.status = "FinalEvalBinding"
    BY <1>4, <2>3
  <2> HIDE DEF v
  <2> QED  BY <1>7, <2>4 DEF VerifiersAgree, pr, v
<1> QED  BY <1>5, <1>6, <1>7

\* The self-check of prove_handler and the library's verify_sumcheck decide alike on
\* every proof, and find the same bad round.
THEOREM VerifiersDecideAlike == FairSpec => []VerifiersAgree
BY AgreementFollows, Inductive, PTL

\* A sealed envelope states what was checked before it was sealed.
LEMMA OpenedFollows == SumcheckInv => OpenedIsVerified
<1> SUFFICES ASSUME SumcheckInv PROVE OpenedIsVerified
  OBVIOUS
<1>0. TypeOK /\ StageInv /\ TranscriptInv /\ CheckInv /\ ReplyInv
  BY DEF SumcheckInv, TypeInv
<1> SUFFICES ASSUME stage \in ClientVersions PROVE OpenedIsVerified
  BY DEF OpenedIsVerified
<1>1. reply.status = "success" /\ stage = reply.version
  BY <1>0 DEF StageInv
<1>2. /\ Sound /\ challenges = prefix
      /\ reply = Seal("V0_6_1", claimed, [claimed_sum |-> claimed, rounds |-> rounds])
  BY <1>0, <1>1 DEF ReplyInv
<1>3. reply.claim = claimed /\ reply.payload.claimed_sum = claimed /\ reply.payload.rounds = rounds
  BY <1>2 DEF Seal
<1> DEFINE pr == [claimed_sum |-> reply.claim, n_vars |-> NVars, rounds |-> reply.payload.rounds,
                  final_eval |-> EvaluateMle(values, challenges)]
           v == VerifySumcheck(pr, challenges, values)
<1>4. /\ pr.rounds = rounds /\ pr.n_vars = NVars /\ pr.claimed_sum = claimed
      /\ pr.final_eval = EvaluateMle(values, prefix)
  BY <1>2, <1>3
<1>5. /\ rounds \in Seq(Elements \X Elements) /\ Len(challenges) = Len(rounds)
      /\ Len(challenges) \in Nat /\ Len(rounds) = NVars
  BY <1>0, <1>2 DEF TypeOK, Sound
<1> HIDE DEF pr
<1>6. \A i : ClaimOf(pr, challenges, i) = ClaimAt(i)
  BY <1>2, <1>4 DEF ClaimOf, ClaimAt
<1>7. v.status = "Ok" <=>
        /\ Len(pr.rounds) = pr.n_vars /\ Len(challenges) = Len(pr.rounds)
        /\ \A i \in 1 .. Len(pr.rounds) :
             ~(Plus(pr.rounds[i][1], pr.rounds[i][2]) # ClaimOf(pr, challenges, i - 1))
        /\ ClaimOf(pr, challenges, Len(pr.rounds)) = pr.final_eval
        /\ EvaluateMle(values, challenges) = pr.final_eval
  BY <1>4, <1>5, VerdictIs
<1>8. v.status = "Ok"
  <2> HIDE DEF v
  <2> QED  BY <1>2, <1>4, <1>5, <1>6, <1>7, Zenon DEF Sound, Consistent
<1> QED  BY <1>1, <1>3, <1>8 DEF OpenedIsVerified, pr

\* An envelope a client can open has its version and a proof of the claim it states.
THEOREM OpenedIsProved == FairSpec => []OpenedIsVerified
BY OpenedFollows, Inductive, PTL

-----------------------------------------------------------------------------
\* The extension at corners, and of a folded column.

\* Multiplication distributes over addition, is commutative and associative.
LEMMA Distribute ==
  ASSUME NEW a \in Elements, NEW b \in Elements, NEW c \in Elements
  PROVE  /\ Times(Plus(a, b), c) = Plus(Times(a, c), Times(b, c))
         /\ Times(c, Plus(a, b)) = Plus(Times(c, a), Times(c, b))
         /\ Times(Times(a, b), c) = Times(a, Times(b, c))
         /\ Times(a, b) = Times(b, a) /\ Times(a, 0) = 0 /\ Plus(a, 0) = a
<1>0. a \in Int /\ b \in Int /\ c \in Int /\ a * b \in Int /\ b * c \in Int /\ a * c \in Int
      /\ c * a \in Int /\ c * b \in Int /\ a + b \in Int
  BY ElementsAreNat
<1>1. Times(c, Plus(a, b)) = (c * (a + b)) % P
  BY <1>0, ModMul DEF Times, Plus
<1>2. Plus(Times(c, a), Times(c, b)) = (c * a + c * b) % P
  BY <1>0, ModAdd2 DEF Times, Plus
<1>3. c * (a + b) = c * a + c * b
  BY <1>0
<1>4. Times(c, Plus(a, b)) = Plus(Times(c, a), Times(c, b))
  BY <1>1, <1>2, <1>3, Zenon
<1>5. \A x, y \in Int : Times(x, y) = Times(y, x)
  BY DEF Times
<1>6. Plus(a, b) \in Int
  BY Typed, ElementsAreNat
<1>7. Times(Plus(a, b), c) = Plus(Times(a, c), Times(b, c))
  BY <1>0, <1>4, <1>5, <1>6
<1>8. Times(a, Times(b, c)) = (a * (b * c)) % P
  BY <1>0, ModMul DEF Times
<1>9. Times(Times(a, b), c) = (c * (a * b)) % P
  <2>1. Times(a, b) \in Int
    BY Typed, ElementsAreNat
  <2>2. Times(Times(a, b), c) = Times(c, Times(a, b))
    BY <1>0, <1>5, <2>1
  <2> QED  BY <1>0, <2>2, ModMul DEF Times
<1>10. a * (b * c) = c * (a * b)
  BY <1>0
<1>11. Times(a, b) = Times(b, a)
  BY <1>0, <1>5
<1>12. Times(a, 0) = 0 /\ Plus(a, 0) = a
  <2>1. 0 \in Elements /\ Times(0, a) = 0 /\ Plus(0, a) = a
    BY FieldLaws
  <2>2. Times(a, 0) = Times(0, a)
    BY <1>0, <1>5
  <2>3. Plus(a, 0) = Plus(0, a)
    BY <2>1, FieldLaws
  <2> QED  BY <2>1, <2>2, <2>3
<1> QED  BY <1>4, <1>7, <1>8, <1>9, <1>10, <1>11, <1>12, Zenon

\* A multiple of a sum is the sum of the multiples.
LEMMA TotalScale ==
  ASSUME NEW a \in Seq(Elements), NEW c \in Seq(Elements), NEW e \in Elements, Len(c) = Len(a),
         \A k \in 1 .. Len(a) : c[k] = Times(e, a[k])
  PROVE  Total(c) = Times(e, Total(a))
<1> DEFINE n == Len(a)
<1>0. n \in Nat /\ Len(c) = n /\ \A k \in 1 .. n : a[k] \in Elements
  OBVIOUS
<1>1. PICK ta : Sums(a, n, ta)
  BY <1>0, TotalIs
<1>3. PICK tc : Sums(c, n, tc)
  BY <1>0, TotalIs
<1>z. ta[0] = 0 /\ tc[0] = 0 /\ Total(a) = ta[n] /\ Total(c) = tc[n]
  BY <1>1, <1>3 DEF Sums
<1>b. \A m \in Nat : m + 1 <= n =>
        /\ ta[m + 1] = Plus(ta[m], a[m + 1]) /\ tc[m + 1] = Plus(tc[m], c[m + 1])
        /\ a[m + 1] \in Elements /\ ta[m] \in Elements /\ c[m + 1] = Times(e, a[m + 1])
  <2> TAKE m \in Nat
  <2> HAVE m + 1 <= n
  <2>1. m + 1 \in 1 .. n /\ (m + 1) - 1 = m /\ m \in 0 .. n
    BY <1>0
  <2> QED  BY <1>0, <1>1, <1>3, <2>1 DEF Sums
<1> DEFINE S == {m \in Nat : m <= n => tc[m] = Times(e, ta[m])}
<1>4. 0 \in S
  <2>1. Times(e, 0) = 0
    BY Distribute
  <2> QED  BY <1>z, <2>1
<1>5. ASSUME NEW m \in Nat, m \in S PROVE m + 1 \in S
  <2> SUFFICES ASSUME m + 1 <= n PROVE tc[m + 1] = Times(e, ta[m + 1])
    OBVIOUS
  <2>1. tc[m] = Times(e, ta[m])
    BY <1>0, <1>5
  <2>2. \A x, y \in Elements : Times(e, Plus(x, y)) = Plus(Times(e, x), Times(e, y))
    BY Distribute
  <2> QED  BY <1>b, <2>1, <2>2, Zenon
<1>6. \A m \in Nat : m \in S
  <2> HIDE DEF S
  <2> QED  BY <1>4, <1>5, Induct
<1> QED  BY <1>0, <1>z, <1>6

\* A sum with one term that is not 0 is that term.
LEMMA TotalSingle ==
  ASSUME NEW s \in Seq(Elements), NEW j \in 1 .. Len(s),
         \A k \in 1 .. Len(s) : k # j => s[k] = 0
  PROVE  Total(s) = s[j]
<1> DEFINE n == Len(s)
<1>0. n \in Nat /\ j \in Nat /\ j <= n /\ s[j] \in Elements
  OBVIOUS
<1>1. PICK t : Sums(s, n, t)
  BY <1>0, TotalIs
<1>z. t[0] = 0 /\ Total(s) = t[n]
  BY <1>1 DEF Sums
<1>b. \A m \in Nat : m + 1 <= n => t[m + 1] = Plus(t[m], s[m + 1]) /\ t[m] \in Elements
  <2> TAKE m \in Nat
  <2> HAVE m + 1 <= n
  <2>1. m + 1 \in 1 .. n /\ (m + 1) - 1 = m /\ m \in 0 .. n
    BY <1>0
  <2> QED  BY <1>1, <2>1 DEF Sums
<1> DEFINE S == {m \in Nat : m <= n => t[m] = IF m < j THEN 0 ELSE s[j]}
<1>4. 0 \in S
  BY <1>0, <1>z
<1>5. ASSUME NEW m \in Nat, m \in S PROVE m + 1 \in S
  <2> SUFFICES ASSUME m + 1 <= n PROVE t[m + 1] = IF m + 1 < j THEN 0 ELSE s[j]
    OBVIOUS
  <2>1. t[m] = IF m < j THEN 0 ELSE s[j]
    BY <1>0, <1>5
  <2>2. t[m + 1] = Plus(t[m], s[m + 1]) /\ m + 1 \in 1 .. n
    BY <1>0, <1>b
  <2>3. \A x \in Elements : Plus(x, 0) = x /\ Plus(0, x) = x /\ 0 \in Elements
    BY Distribute, FieldLaws
  <2>4. CASE m + 1 = j
    <3>1. m < j /\ ~(m + 1 < j)
      BY <1>0, <2>4
    <3> QED  BY <1>0, <2>1, <2>2, <2>3, <2>4, <3>1
  <2>5. CASE m + 1 # j
    <3>1. s[m + 1] = 0 /\ (m + 1 < j <=> m < j)
      BY <1>0, <2>2, <2>5
    <3> QED  BY <1>0, <2>1, <2>2, <2>3, <3>1
  <2> QED  BY <2>4, <2>5
<1>6. \A m \in Nat : m \in S
  <2> HIDE DEF S
  <2> QED  BY <1>4, <1>5, Induct
<1>7. t[n] = s[j]
  BY <1>0, <1>6
<1> QED  BY <1>z, <1>7

\* A product of ones is 1, one with a 0 is 0.
LEMMA ProductCases ==
  ASSUME NEW s \in Seq(Elements)
  PROVE  /\ (\A k \in 1 .. Len(s) : s[k] = 1) => Product(s) = 1
         /\ (\E k \in 1 .. Len(s) : s[k] = 0) => Product(s) = 0
<1> DEFINE n == Len(s)
<1>0. n \in Nat
  OBVIOUS
<1>1. PICK t : Products(s, n, t)
  BY <1>0, ProductIs
<1>z. t[0] = 1 /\ Product(s) = t[n]
  BY <1>1 DEF Products
<1>b. \A m \in Nat : m + 1 <= n =>
        t[m + 1] = Times(t[m], s[m + 1]) /\ t[m] \in Elements /\ s[m + 1] \in Elements
  <2> TAKE m \in Nat
  <2> HAVE m + 1 <= n
  <2>1. m + 1 \in 1 .. n /\ (m + 1) - 1 = m /\ m \in 0 .. n
    BY <1>0
  <2> QED  BY <1>1, <2>1 DEF Products
<1>2. ASSUME \A k \in 1 .. n : s[k] = 1 PROVE t[n] = 1
  <2> DEFINE S == {m \in Nat : m <= n => t[m] = 1}
  <2>1. 0 \in S
    BY <1>z
  <2>2. ASSUME NEW m \in Nat, m \in S PROVE m + 1 \in S
    <3>1. Times(1, 1) = 1
      <4>1. 1 \in Elements
        BY FieldAssumption DEF Elements
      <4> QED  BY <4>1, FieldLaws
    <3> SUFFICES ASSUME m + 1 <= n PROVE t[m + 1] = 1
      OBVIOUS
    <3>2. t[m] = 1 /\ s[m + 1] = 1
      BY <1>0, <1>2, <2>2
    <3> QED  BY <1>b, <3>1, <3>2
  <2>3. \A m \in Nat : m \in S
    <3> HIDE DEF S
    <3> QED  BY <2>1, <2>2, Induct
  <2> QED  BY <1>0, <2>3
<1>3. ASSUME NEW j \in 1 .. n, s[j] = 0 PROVE t[n] = 0
  <2> DEFINE S == {m \in Nat : m <= n /\ j <= m => t[m] = 0}
  <2>1. 0 \in S
    OBVIOUS
  <2>2. ASSUME NEW m \in Nat, m \in S PROVE m + 1 \in S
    <3> SUFFICES ASSUME m + 1 <= n, j <= m + 1 PROVE t[m + 1] = 0
      OBVIOUS
    <3>1. t[m + 1] = Times(t[m], s[m + 1]) /\ t[m] \in Elements /\ s[m + 1] \in Elements
      BY <1>b
    <3>2. \A x \in Elements : Times(x, 0) = 0 /\ Times(0, x) = 0
      BY Distribute, FieldLaws
    <3>3. CASE j = m + 1
      BY <1>3, <3>1, <3>2, <3>3
    <3>4. CASE j # m + 1
      <4>1. t[m] = 0
        BY <1>0, <2>2, <3>4
      <4> QED  BY <3>1, <3>2, <4>1
    <3> QED  BY <3>3, <3>4
  <2>3. \A m \in Nat : m \in S
    <3> HIDE DEF S
    <3> QED  BY <2>1, <2>2, Induct
  <2> QED  BY <1>0, <2>3
<1> QED  BY <1>z, <1>2, <1>3

\* A number below 2^n is told by its n low bits.
LEMMA BitsDecide ==
  \A n \in 0 .. 30 : \A i, j \in Nat :
    /\ i < 2^n /\ j < 2^n
    /\ \A m \in 0 .. n - 1 : Bit(i, m) = Bit(j, m)
    => i = j
<1> DEFINE S == {n \in Nat : n <= 30 => \A i, j \in Nat :
                   /\ i < 2^n /\ j < 2^n
                   /\ \A m \in 0 .. n - 1 : Bit(i, m) = Bit(j, m)
                   => i = j}
<1>1. 0 \in S
  <2>1. 2^0 = 1
    OBVIOUS
  <2> QED  BY <2>1
<1>2. ASSUME NEW n \in Nat, n \in S PROVE n + 1 \in S
  <2> SUFFICES ASSUME n + 1 <= 30, NEW i \in Nat, NEW j \in Nat, i < 2^(n + 1), j < 2^(n + 1),
                      \A m \in 0 .. (n + 1) - 1 : Bit(i, m) = Bit(j, m)
               PROVE  i = j
    OBVIOUS
  <2> DEFINE N == 2^n
             M == 2^(n + 1)
             p == i \div 2
             q == j \div 2
             b == i % 2
             c == j % 2
  <2>1. N \in Nat /\ M = 2 * N
    <3>1. n \in 0 .. 30 /\ n + 1 \in 0 .. 30 /\ n + 1 > 0 /\ (n + 1) - 1 = n
      OBVIOUS
    <3>2. M = 2 * 2^((n + 1) - 1)
      BY <3>1, PowersOfTwo, Zenon
    <3>3. N \in Nat
      BY <3>1, PowersOfTwo, Zenon
    <3> QED  BY <3>1, <3>2, <3>3, Zenon
  <2>2. i < M /\ j < M
    OBVIOUS
  <2>3. /\ p \in Nat /\ q \in Nat /\ b \in {0, 1} /\ c \in {0, 1}
        /\ i = 2 * p + b /\ j = 2 * q + c
    OBVIOUS
  <2> HIDE DEF N, M, p, q, b, c
  <2>4. p < N /\ q < N
    BY <2>1, <2>2, <2>3
  <2>5. b = c
    <3>1. Bit(i, 0) = b /\ Bit(j, 0) = c
      BY <2>3, Bits
    <3>2. 0 \in 0 .. (n + 1) - 1
      OBVIOUS
    <3> QED  BY <3>1, <3>2, Zenon
  <2>6. \A m \in 0 .. n - 1 : Bit(p, m) = Bit(q, m)
    <3> TAKE m \in 0 .. n - 1
    <3>1. m + 1 \in 1 .. 30 /\ (m + 1) - 1 = m /\ m + 1 \in 0 .. (n + 1) - 1
      OBVIOUS
    <3>2. \A x \in Nat, d \in {0, 1} : \A k \in 1 .. 30 : Bit(2 * x + d, k) = Bit(x, k - 1)
      BY Bits
    <3>3. Bit(2 * p + b, m + 1) = Bit(p, m) /\ Bit(2 * q + c, m + 1) = Bit(q, m)
      <4>1. /\ \A k \in 1 .. 30 : Bit(2 * p + b, k) = Bit(p, k - 1)
            /\ \A k \in 1 .. 30 : Bit(2 * q + c, k) = Bit(q, k - 1)
        BY <2>3, <3>2
      <4>2. Bit(2 * p + b, m + 1) = Bit(p, (m + 1) - 1) /\ Bit(2 * q + c, m + 1) = Bit(q, (m + 1) - 1)
        BY <3>1, <4>1, Zenon
      <4> QED  BY <3>1, <4>2, Zenon
    <3>4. Bit(i, m + 1) = Bit(j, m + 1)
      BY <3>1, Zenon
    <3> QED  BY <2>3, <3>3, <3>4, Zenon
  <2>7. \A x, y \in Nat :
          /\ x < N /\ y < N /\ \A m \in 0 .. n - 1 : Bit(x, m) = Bit(y, m)
          => x = y
    <3>1. n <= 30
      OBVIOUS
    <3> QED  BY <1>2, <3>1 DEF N
  <2>8. p = q
    BY <2>3, <2>4, <2>6, <2>7, Zenon
  <2> QED  BY <2>3, <2>5, <2>8, Zenon
<1>3. \A n \in Nat : n \in S
  <2> HIDE DEF S
  <2> QED  BY <1>1, <1>2, Induct
<1> QED  BY <1>3

\* At a corner the basis is 1 for the corner's own number and 0 for the others.
LEMMA BasisAtCorner ==
  ASSUME NEW n \in 0 .. 30, NEW i \in Nat, NEW j \in Nat, i < 2^n, j < 2^n
  PROVE  Basis(i, Corner(j, n)) = IF i = j THEN 1 ELSE 0
<1> DEFINE c == Corner(j, n)
           f == [m \in 1 .. n |-> IF Bit(i, m - 1) = 1 THEN c[m] ELSE Minus(1, c[m])]
<1>0. 0 \in Elements /\ 1 \in Elements /\ Minus(1, 0) = 1 /\ Minus(1, 1) = 0 /\ 0 # 1
  BY FieldAssumption DEF Elements, Minus
<1>1. DOMAIN c = 1 .. n /\ \A m \in 1 .. n : c[m] = Bit(j, m - 1)
  BY DEF Corner
<1>2. \A x \in Nat, m \in 0 .. 30 : Bit(x, m) \in {0, 1}
  BY Bits
<1>3. \A m \in 1 .. n : m - 1 \in 0 .. n - 1 /\ m - 1 \in 0 .. 30
  OBVIOUS
<1>4. Basis(i, c) = Product(f)
  BY <1>1, Zenon DEF Basis
<1> HIDE DEF c
<1>5. \A m \in 1 .. n : f[m] = IF Bit(i, m - 1) = Bit(j, m - 1) THEN 1 ELSE 0
  <2> TAKE m \in 1 .. n
  <2>1. Bit(i, m - 1) \in {0, 1} /\ Bit(j, m - 1) \in {0, 1}
    BY <1>2, <1>3
  <2>2. f[m] = IF Bit(i, m - 1) = 1 THEN Bit(j, m - 1) ELSE Minus(1, Bit(j, m - 1))
    BY <1>1
  <2> QED  BY <1>0, <2>1, <2>2
<1>6. f \in [1 .. n -> Elements]
  <2>1. \A m \in 1 .. n : f[m] \in Elements
    <3> HIDE DEF f
    <3> QED  BY <1>0, <1>5
  <2>2. f = [m \in 1 .. n |-> f[m]]
    OBVIOUS
  <2> HIDE DEF f
  <2> QED  BY <2>1, <2>2
<1> HIDE DEF f
<1>7. f \in Seq(Elements) /\ Len(f) = n /\ n \in Nat
  BY <1>6, SeqOf
<1>8. CASE i = j
  <2>1. \A m \in 1 .. Len(f) : f[m] = 1
    BY <1>5, <1>7, <1>8
  <2>2. Product(f) = 1
    BY <1>7, <2>1, ProductCases
  <2> QED  BY <1>4, <1>8, <2>2 DEF c
<1>9. CASE i # j
  <2>1. ~(\A m \in 0 .. n - 1 : Bit(i, m) = Bit(j, m))
    BY <1>9, BitsDecide
  <2>2. PICK m \in 0 .. n - 1 : Bit(i, m) # Bit(j, m)
    BY <2>1
  <2>3. m + 1 \in 1 .. n /\ (m + 1) - 1 = m
    OBVIOUS
  <2>4. f[m + 1] = 0
    BY <1>5, <2>2, <2>3
  <2>5. \E k \in 1 .. Len(f) : f[k] = 0
    BY <1>7, <2>3, <2>4
  <2>6. Product(f) = 0
    BY <1>7, <2>5, ProductCases
  <2> QED  BY <1>4, <1>9, <2>6 DEF c
<1> QED  BY <1>8, <1>9

\* The extension takes the column's values on the corners.
LEMMA EvaluateAtCorner ==
  ASSUME NEW vs, Oracle(vs), NEW k \in 1 .. Len(vs)
  PROVE  EvaluateMle(vs, Corner(k - 1, Log2(Len(vs)))) = vs[k]
<1> DEFINE n == Log2(Len(vs))
           N == Len(vs)
           p == Corner(k - 1, n)
           f == [i \in 1 .. N |-> Times(vs[i], Basis(i - 1, p))]
<1>0. /\ vs \in Seq(Elements) /\ N \in Nat /\ DOMAIN vs = 1 .. N /\ k - 1 \in Nat
      /\ \A i \in 1 .. N : vs[i] \in Elements
  BY DEF Oracle
<1>1. n \in 0 .. 30 /\ N = 2^n
  BY LogIs DEF Oracle
<1>2. EvaluateMle(vs, p) = Total(f)
  BY <1>0, Zenon DEF EvaluateMle
<1>3. \A i \in 1 .. N : Basis(i - 1, p) = IF i = k THEN 1 ELSE 0
  <2> TAKE i \in 1 .. N
  <2>1. i - 1 \in Nat /\ i - 1 < N /\ k - 1 < N /\ (i - 1 = k - 1 <=> i = k)
    BY <1>0
  <2> HIDE DEF n, N
  <2>2. i - 1 < 2^n /\ k - 1 < 2^n
    BY <1>1, <2>1, Zenon
  <2>3. \A x, y \in Nat : x < 2^n /\ y < 2^n => Basis(x, Corner(y, n)) = IF x = y THEN 1 ELSE 0
    BY <1>1, BasisAtCorner
  <2>4. Basis(i - 1, Corner(k - 1, n)) = IF i - 1 = k - 1 THEN 1 ELSE 0
    BY <1>0, <2>1, <2>2, <2>3, Zenon
  <2> QED  BY <2>1, <2>4, Zenon
<1> HIDE DEF n, p
<1>4. \A i \in 1 .. N : f[i] = IF i = k THEN vs[i] ELSE 0
  <2>1. \A x \in Elements : Times(x, 1) = x /\ Times(x, 0) = 0
    BY FieldLaws, Distribute
  <2> QED  BY <1>0, <1>3, <2>1
<1>5. f \in [1 .. N -> Elements]
  <2>1. \A i \in 1 .. N : f[i] \in Elements
    <3>1. 0 \in Elements
      BY FieldAssumption DEF Elements
    <3> HIDE DEF f, N
    <3> QED  BY <1>0, <1>4, <3>1
  <2>2. f = [i \in 1 .. N |-> f[i]]
    OBVIOUS
  <2> HIDE DEF f
  <2> QED  BY <2>1, <2>2
<1> HIDE DEF f
<1>6. f \in Seq(Elements) /\ Len(f) = N
  <2> HIDE DEF N
  <2> QED  BY <1>0, <1>5, SeqOf
<1>7. Total(f) = f[k]
  <2>1. k \in 1 .. Len(f) /\ \A i \in 1 .. Len(f) : i # k => f[i] = 0
    BY <1>4, <1>6
  <2> QED  BY <1>6, <2>1, TotalSingle
<1> QED  BY <1>2, <1>4, <1>7 DEF p, n

\* The extension of a folded column is the fold of the extensions.
LEMMA EvaluateFold ==
  ASSUME NEW a \in Seq(Elements), NEW b \in Seq(Elements), Len(b) = Len(a),
         NEW alpha \in Elements, NEW p \in Seq(Elements)
  PROVE  EvaluateMle(Fold(<<a, b>>, alpha), p) =
           Plus(EvaluateMle(a, p), Times(alpha, EvaluateMle(b, p)))
<1> DEFINE n == Len(a)
           vs == Fold(<<a, b>>, alpha)
           f(s) == [k \in 1 .. n |-> Times(s[k], Basis(k - 1, p))]
<1>0. n \in Nat /\ DOMAIN a = 1 .. n /\ DOMAIN b = 1 .. n
  OBVIOUS
<1>1. vs \in Seq(Elements) /\ Len(vs) = n /\ \A k \in 1 .. n : vs[k] = Plus(a[k], Times(alpha, b[k]))
  BY FoldIs
<1> HIDE DEF vs
<1>2. DOMAIN vs = 1 .. n
  BY <1>1
<1>3. /\ EvaluateMle(a, p) = Total(f(a)) /\ EvaluateMle(b, p) = Total(f(b))
      /\ EvaluateMle(vs, p) = Total(f(vs))
  BY <1>0, <1>2, Zenon DEF EvaluateMle
<1>4. \A s \in Seq(Elements) : Len(s) = n =>
        f(s) \in Seq(Elements) /\ Len(f(s)) = n
  <2> TAKE s \in Seq(Elements)
  <2> HAVE Len(s) = n
  <2>1. f(s) \in [1 .. n -> Elements]
    <3>1. \A k \in 1 .. n : s[k] \in Elements /\ Basis(k - 1, p) \in Elements
      BY BasisTyped
    <3> QED  BY <3>1, Typed
  <2> HIDE DEF f, n
  <2> QED  BY <1>0, <2>1, SeqOf
<1> DEFINE fa == f(a)
           fb == f(b)
           fv == f(vs)
           fs2 == [k \in 1 .. n |-> Times(alpha, fb[k])]
<1>5. /\ fa \in Seq(Elements) /\ Len(fa) = n /\ fb \in Seq(Elements) /\ Len(fb) = n
      /\ fv \in Seq(Elements) /\ Len(fv) = n
  <2> HIDE DEF f, n
  <2>1. Len(a) = n /\ Len(b) = n
    BY DEF n
  <2> QED  BY <1>1, <1>4, <2>1
<1>6. fs2 \in Seq(Elements) /\ Len(fs2) = n /\ \A k \in 1 .. n : fs2[k] = Times(alpha, fb[k])
  <2> HIDE DEF fb
  <2>1. \A k \in 1 .. n : Times(alpha, fb[k]) \in Elements
    <3>1. \A k \in 1 .. n : fb[k] \in Elements
      BY <1>5
    <3> QED  BY <3>1, Typed
  <2>2. fs2 \in [1 .. n -> Elements]
    BY <2>1
  <2>3. fs2 \in Seq(Elements) /\ Len(fs2) = n
    <3> HIDE DEF fs2, n
    <3> QED  BY <1>0, <2>2, SeqOf
  <2> QED  BY <2>3
<1>7. \A k \in 1 .. n : fv[k] = Plus(fa[k], fs2[k])
  <2> TAKE k \in 1 .. n
  <2>1. a[k] \in Elements /\ b[k] \in Elements /\ Basis(k - 1, p) \in Elements
    BY BasisTyped
  <2> DEFINE x == a[k]
             y == b[k]
             e == Basis(k - 1, p)
  <2>2. x \in Elements /\ y \in Elements /\ e \in Elements
    BY <2>1
  <2>3. fv[k] = Times(Plus(x, Times(alpha, y)), e) /\ fa[k] = Times(x, e)
        /\ fs2[k] = Times(alpha, Times(y, e))
    <3>1. fb[k] = Times(y, e)
      OBVIOUS
    <3>2. fv[k] = Times(Plus(x, Times(alpha, y)), e)
      BY <1>1
    <3>3. fs2[k] = Times(alpha, fb[k])
      <4> HIDE DEF fs2, fb
      <4> QED  BY <1>6
    <3> HIDE DEF fb, fs2, fv
    <3> QED  BY <3>1, <3>2, <3>3
  <2> HIDE DEF x, y, e, fv, fa, fs2
  <2>4. Times(alpha, y) \in Elements
    BY <2>2, Typed
  <2>5. Times(Plus(x, Times(alpha, y)), e) = Plus(Times(x, e), Times(Times(alpha, y), e))
    BY <2>2, <2>4, Distribute
  <2>6. Times(Times(alpha, y), e) = Times(alpha, Times(y, e))
    BY <2>2, Distribute
  <2> QED  BY <2>3, <2>5, <2>6, Zenon
<1> HIDE DEF fa, fb, fv, fs2
<1>8. Total(fv) = Plus(Total(fa), Total(fs2))
  <2>1. Len(fs2) = Len(fa) /\ Len(fv) = Len(fa) /\ \A k \in 1 .. Len(fa) : fv[k] = Plus(fa[k], fs2[k])
    BY <1>5, <1>6, <1>7, Zenon
  <2> QED  BY <1>5, <1>6, <2>1, TotalPlus
<1>9. Total(fs2) = Times(alpha, Total(fb))
  <2>1. Len(fs2) = Len(fb) /\ \A k \in 1 .. Len(fb) : fs2[k] = Times(alpha, fb[k])
    BY <1>5, <1>6, Zenon
  <2> QED  BY <1>5, <1>6, <2>1, TotalScale
<1> QED  BY <1>3, <1>8, <1>9, Zenon DEF fa, fb, fv, vs

-----------------------------------------------------------------------------
\* What the oracle tells of the columns.

\* A difference is 0 only of equals: a broken rule of the register is seen.
LEMMA MinusZero ==
  ASSUME NEW a \in Elements, NEW b \in Elements
  PROVE  Minus(a, b) = 0 <=> a = b
<1>1. a = b => Minus(a, b) = 0
  <2>1. \A x \in Int : x - x = 0
    OBVIOUS
  <2>2. 0 % P = 0
    BY FieldAssumption
  <2> QED  BY <2>1, <2>2, ElementsAreNat DEF Minus
<1>2. Minus(a, b) = 0 => a = b
  BY Apart DEF Minus
<1> QED  BY <1>1, <1>2

\* A square is 0 only of 0: one broken rule makes the composite differ from 0.
LEMMA SquareZero ==
  ASSUME NEW a \in Elements
  PROVE  Times(a, a) = 0 <=> a = 0
<1>1. a \in Int /\ a % P = a
  BY FieldAssumption DEF Elements
<1>2. Times(a, a) = 0 => a = 0
  BY <1>1, PrimeDivides DEF Times
<1>3. Times(0, 0) = 0
  <2>1. 0 \in Elements
    BY FieldAssumption DEF Elements
  <2> QED  BY <2>1, FieldLaws
<1> QED  BY <1>2, <1>3

\* A Boolean selector selects.
LEMMA SelectIs ==
  ASSUME NEW next \in Elements, NEW event \in Elements, NEW curr \in Elements
  PROVE  /\ Select(1, next, event, curr) = Minus(next, event)
         /\ Select(0, next, event, curr) = Minus(next, curr)
         /\ Times(1, Minus(1, 1)) = 0 /\ Times(0, Minus(1, 0)) = 0
<1>1. 0 \in Elements /\ 1 \in Elements /\ Minus(1, 1) = 0 /\ Minus(1, 0) = 1
  BY FieldAssumption DEF Elements, Minus
<1>2. Minus(next, event) \in Elements /\ Minus(next, curr) \in Elements
  BY Typed
<1>3. \A x \in Elements : Times(1, x) = x /\ Times(0, x) = 0 /\ Plus(x, 0) = x /\ Plus(0, x) = x
  BY FieldLaws, Distribute
<1>4. Select(1, next, event, curr) = Plus(Minus(next, event), 0)
  BY <1>1, <1>2, <1>3 DEF Select
<1>5. Select(0, next, event, curr) = Plus(0, Minus(next, curr))
  BY <1>1, <1>2, <1>3 DEF Select
<1> QED  BY <1>1, <1>2, <1>3, <1>4, <1>5

\* The composite of a row that keeps the rules is 0, and of a row that breaks exactly
\* one of them under a Boolean selector is not.
LEMMA RowRules ==
  ASSUME NEW row \in Rows(Elements, Elements)
  PROVE  /\ Broken(row) = {} => Composite(row) = 0
         /\ Broken(row) \in {{"value"}, {"timestamp"}} => Composite(row) # 0
<1> DEFINE a == LwwBooleanity(row)
           b == LwwValue(row)
           c == LwwTimestamp(row)
           v == IF row.s = 1 THEN row.v_event ELSE row.v_curr
           t == IF row.s = 1 THEN row.ts_event ELSE row.ts_curr
<1>1. /\ row.v_curr \in Elements /\ row.ts_curr \in Elements /\ row.v_event \in Elements
      /\ row.ts_event \in Elements /\ row.v_next \in Elements /\ row.ts_next \in Elements
      /\ row.s \in Elements
  BY DEF Rows
<1>2. /\ "value" \in Broken(row) <=> row.v_next # v
      /\ "timestamp" \in Broken(row) <=> row.ts_next # t
      /\ "selector" \in Broken(row) <=> row.s \notin {0, 1}
  BY DEF Broken
<1>3. /\ a \in Elements /\ b \in Elements /\ c \in Elements
      /\ Composite(row) = Plus(Plus(Times(a, a), Times(b, b)), Times(c, c))
  BY CompositeIs
<1>4. ASSUME row.s \in {0, 1} PROVE a = 0 /\ (b = 0 <=> row.v_next = v) /\ (c = 0 <=> row.ts_next = t)
  <2>1. CASE row.s = 1
    <3>1. a = 0
      BY <1>1, <2>1, SelectIs DEF LwwBooleanity
    <3>2. b = Minus(row.v_next, row.v_event)
      BY <1>1, <2>1, SelectIs DEF LwwValue
    <3>3. c = Minus(row.ts_next, row.ts_event)
      BY <1>1, <2>1, SelectIs DEF LwwTimestamp
    <3> HIDE DEF a, b, c
    <3> QED  BY <1>1, <2>1, <3>1, <3>2, <3>3, MinusZero
  <2>2. CASE row.s = 0
    <3>1. a = 0
      BY <1>1, <2>2, SelectIs DEF LwwBooleanity
    <3>2. b = Minus(row.v_next, row.v_curr)
      BY <1>1, <2>2, SelectIs DEF LwwValue
    <3>3. c = Minus(row.ts_next, row.ts_curr)
      BY <1>1, <2>2, SelectIs DEF LwwTimestamp
    <3> HIDE DEF a, b, c
    <3> QED  BY <1>1, <2>2, <3>1, <3>2, <3>3, MinusZero
  <2> HIDE DEF a, b, c, v, t
  <2> QED  BY <1>4, <2>1, <2>2
<1> HIDE DEF a, b, c, v, t
<1>5. \A x \in Elements : Plus(x, 0) = x /\ Plus(0, x) = x /\ Times(0, 0) = 0 /\ 0 \in Elements
  BY FieldLaws, Distribute, SquareZero
<1>6. Times(b, b) \in Elements /\ Times(c, c) \in Elements
  BY <1>3, Typed
<1>7. ASSUME row.s \in {0, 1} PROVE Composite(row) = Plus(Times(b, b), Times(c, c))
  <2>1. a = 0
    BY <1>4, <1>7
  <2>2. Plus(Times(a, a), Times(b, b)) = Times(b, b)
    BY <1>5, <1>6, <2>1
  <2> QED  BY <1>3, <2>2, Zenon
<1>8. ASSUME Broken(row) = {} PROVE Composite(row) = 0
  <2>1. row.s \in {0, 1} /\ row.v_next = v /\ row.ts_next = t
    BY <1>2, <1>8
  <2>2. b = 0 /\ c = 0
    BY <1>4, <2>1
  <2> QED  BY <1>5, <1>6, <1>7, <2>1, <2>2
<1>9. ASSUME Broken(row) = {"value"} PROVE Composite(row) # 0
  <2>1. row.s \in {0, 1} /\ row.v_next # v /\ row.ts_next = t
    BY <1>2, <1>9
  <2>2. b # 0 /\ c = 0
    BY <1>4, <2>1
  <2>3. Times(b, b) # 0 /\ Times(c, c) = 0
    BY <1>3, <1>5, <2>2, SquareZero
  <2> QED  BY <1>5, <1>6, <1>7, <2>1, <2>3
<1>10. ASSUME Broken(row) = {"timestamp"} PROVE Composite(row) # 0
  <2>1. row.s \in {0, 1} /\ row.v_next = v /\ row.ts_next # t
    BY <1>2, <1>10
  <2>2. b = 0 /\ c # 0
    BY <1>4, <2>1
  <2>3. Times(b, b) = 0 /\ Times(c, c) # 0
    BY <1>3, <1>5, <2>2, SquareZero
  <2> QED  BY <1>5, <1>6, <1>7, <2>1, <2>3
<1> QED  BY <1>8, <1>9, <1>10

-----------------------------------------------------------------------------
\* Where the oracle comes from.
OracleInv ==
  stage \in {"claiming", "proving", "checking"} =>
    /\ job.kind = "columns" => /\ values = Fold(<<job.col0, job.col1>>, job.alpha)
                               /\ Len(job.col1) = Len(job.col0)
    /\ job.kind = "trace" => values = ConstraintEvals(job.trace)

\* The oracle stays the fold of the columns, or the constraint over the trace.
LEMMA OracleNext == TypeInv /\ OracleInv /\ [Next]_vars => OracleInv'
<1> SUFFICES ASSUME TypeInv, OracleInv, [Next]_vars PROVE OracleInv'
  OBVIOUS
<1>1. CASE Setup
  BY <1>1 DEF Setup, BadColumns, OracleInv
<1>2. CASE SetupTrace
  BY <1>2 DEF SetupTrace, OracleInv
<1>3. ASSUME UNCHANGED <<job, values>>, stage \in {"claiming", "proving", "checking"} PROVE OracleInv'
  BY <1>3 DEF OracleInv
<1>4. CASE Claim \/ Prove \/ ProveTrace \/ BeginCheck \/ CheckRound
  BY <1>3, <1>4 DEF Claim, Prove, ProveTrace, BeginCheck, CheckRound
<1>5. ASSUME stage' \notin {"claiming", "proving", "checking"} PROVE OracleInv'
  BY <1>5 DEF OracleInv
<1>6. CASE Validate \/ SelfCheckFails \/ Ship \/ VerifyTrace
  BY <1>5, <1>6 DEF Validate, SelfCheckFails, Ship, VerifyTrace
<1>7. ASSUME NEW version \in ClientVersions, Open(version) PROVE OracleInv'
  BY <1>5, <1>7, SumcheckAssumption DEF Open
<1>8. CASE UNCHANGED vars
  BY <1>8 DEF vars, OracleInv
<1> QED  BY <1>1, <1>2, <1>4, <1>6, <1>7, <1>8 DEF Next

\* The oracle a proof is about is the multilinear extension of the columns: binding a
\* prefix commutes with folding, the extension takes the column's values on the
\* corners, and of a trace every single broken rule is seen.
THEOREM OraclesTellColumns == FairSpec => []OracleTellsColumns
<1>a. Init => OracleInv
  BY DEF Init, OracleInv
<1>b. TypeInv /\ OracleInv => OracleTellsColumns
  <2> SUFFICES ASSUME TypeInv, OracleInv PROVE OracleTellsColumns
    OBVIOUS
  <2>0. TypeOK /\ StageInv
    BY DEF TypeInv
  <2>1. FoldCommutes
    <3> SUFFICES ASSUME stage = "proving", job.kind = "columns",
                        NEW k \in 1 .. 2^(NVars - Len(prefix))
                 PROVE  LET point == prefix \o Corner(k - 1, NVars - Len(prefix))
                        IN BindPrefix(values, prefix)[k] =
                             Plus(EvaluateMle(job.col0, point),
                                  Times(job.alpha, EvaluateMle(job.col1, point)))
      BY DEF FoldCommutes
    <3> DEFINE m == NVars - Len(prefix)
               point == prefix \o Corner(k - 1, m)
    <3>1. /\ job.alpha \in Elements /\ job.col0 \in Seq(Elements) /\ job.col1 \in Seq(Elements)
          /\ values = Fold(<<job.col0, job.col1>>, job.alpha) /\ Len(job.col1) = Len(job.col0)
          /\ prefix \in Seq(Elements) /\ Len(prefix) <= NVars /\ Oracle(values)
      BY <2>0, KindsDiffer DEF OracleInv, StageInv, TypeOK
    <3>2. BindPrefix(values, prefix)[k] = EvaluateMle(values, point)
      BY DEF BindPrefix, NVars
    <3>3. point \in Seq(Elements)
      <4>a. IsPowerOfTwo(Len(values))
        BY <3>1 DEF Oracle
      <4> HIDE DEF m, point
      <4>b. NVars \in 0 .. 30
        BY <4>a, LogIs DEF NVars
      <4>c. Len(prefix) \in Nat
        BY <3>1
      <4>1. NVars \in 0 .. 30 /\ Len(prefix) \in Nat
        BY <4>b, <4>c
      <4> USE DEF m, point
      <4>2. \A x \in 0 .. 30, y \in Nat : y <= x => x - y \in 0 .. 31 /\ x - y \in 0 .. 30
        OBVIOUS
      <4>3. m \in 0 .. 31 /\ m \in 0 .. 30
        BY <3>1, <4>1, <4>2, Zenon
      <4>4. k - 1 \in Nat
        <5>1. 2^m \in Nat
          BY <4>3, PowersOfTwo, Zenon
        <5> DEFINE N == 2^m
        <5>2. N \in Nat /\ k \in 1 .. N
          BY <5>1
        <5> HIDE DEF N
        <5> QED  BY <5>2
      <4> DEFINE c == Corner(k - 1, m)
      <4>5. c \in Seq(Elements)
        BY <4>3, <4>4, CornerTyped
      <4> HIDE DEF c
      <4>6. prefix \o c \in Seq(Elements)
        BY <3>1, <4>5
      <4> QED  BY <4>6 DEF c
    <3> HIDE DEF point
    <3>4. EvaluateMle(values, point) =
            Plus(EvaluateMle(job.col0, point), Times(job.alpha, EvaluateMle(job.col1, point)))
      BY <3>1, <3>3, EvaluateFold
    <3> QED  BY <3>2, <3>4, Zenon DEF point
  <2>2. OracleExtends
    <3> SUFFICES ASSUME stage \in {"proving", "checking"}, NEW k \in DOMAIN values
                 PROVE  EvaluateMle(values, Corner(k - 1, NVars)) = values[k]
      BY DEF OracleExtends
    <3>1. Oracle(values) /\ k \in 1 .. Len(values)
      BY <2>0 DEF StageInv, Oracle
    <3> QED  BY <3>1, EvaluateAtCorner DEF NVars
  <2>3. OneBreakIsSeen
    <3> SUFFICES ASSUME stage = "claiming", job.kind = "trace", NEW k \in DOMAIN values
                 PROVE  /\ Broken(job.trace[k]) = {} => values[k] = 0
                        /\ Broken(job.trace[k]) \in {{"value"}, {"timestamp"}} => values[k] # 0
      BY DEF OneBreakIsSeen
    <3>1. values = ConstraintEvals(job.trace) /\ job.trace \in Seq(Rows(Elements, Elements))
      BY <2>0, KindsDiffer DEF OracleInv
    <3>2. k \in 1 .. Len(job.trace) /\ values[k] = Composite(job.trace[k])
      BY <3>1 DEF ConstraintEvals
    <3>3. job.trace[k] \in Rows(Elements, Elements)
      BY <3>1, <3>2
    <3> DEFINE row == job.trace[k]
    <3>4. row \in Rows(Elements, Elements) /\ values[k] = Composite(row)
      BY <3>2, <3>3
    <3> HIDE DEF row
    <3>5. /\ Broken(row) = {} => values[k] = 0
          /\ Broken(row) \in {{"value"}, {"timestamp"}} => values[k] # 0
      BY <3>4, RowRules, Zenon
    <3> QED  BY <3>5 DEF row
  <2> QED  BY <2>1, <2>2, <2>3 DEF OracleTellsColumns
<1>c. SumcheckInv => TypeInv
  BY DEF SumcheckInv
<1> QED  BY <1>a, <1>b, <1>c, OracleNext, Inductive, PTL DEF FairSpec
=============================================================================
