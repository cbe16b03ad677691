------------------------ MODULE FriPipeline_proofs -------------------------
(* Proofs about what goes into FRI and what comes out of it (DeepAli, Polynomials,
   FriCodec, Telemetry), for every prime field, request, run and job.
     - The DEEP path commits to one polynomial, which answers every query at its
       point (QuotientBinds): transforms evaluate polynomials at powers of a root,
       synthetic division divides, and an invariant says which stage has which
       polynomial (DeepInv).
     - Folds, transforms, interpolations and divisions agree as operations on
       polynomials (PolynomialsAgree): a polynomial of n coefficients has fewer
       than n roots or is zero, Lagrange's formula, products, and the domains the
       callers give (DomainInv).
     - The words encode_fri_proof_v1 writes are read by decode_fri_proof_v1 as the
       proof they are of, what can be read has no other words, and no damage of
       one word gets values accepted that were not committed (CodecIsRight):
       parsers that invert encoders, Merkle openings that bind a root to its
       leaves, what one damaged word leaves of a proof, and an invariant that
       says which proof the words are of (CodecInv).                          *)
EXTENDS FriClients_proofs

-----------------------------------------------------------------------------
\* Sums of powers.

Powers(u, n) == [k \in 1 .. n |-> Power(u, k - 1)]

\* A geometric sum and one more.
LEMMA GeometricStep ==
  ASSUME NEW a \in Elements, NEW u \in Elements, NEW w \in Elements
  PROVE  /\ Plus(Times(Minus(u, 1), a), Times(Minus(u, 1), w)) = Times(Minus(u, 1), Plus(a, w))
         /\ Plus(Minus(w, 1), Times(Minus(u, 1), w)) = Minus(Times(u, w), 1)
<1>1. /\ a \in Int /\ a % P = a
      /\ u \in Int /\ u % P = u
      /\ w \in Int /\ w % P = w
      /\ 1 \in Int /\ 1 % P = 1
  BY OwnResidue, ZeroOne
<1>2. /\ u - 1 \in Int /\ Minus(u, 1) = (u - 1) % P
      /\ a + w \in Int /\ Plus(a, w) = (a + w) % P
      /\ w - 1 \in Int /\ Minus(w, 1) = (w - 1) % P
      /\ u * w \in Int /\ Times(u, w) = (u * w) % P
  BY <1>1, Residues, SMTT(30)
<1>3. /\ (u - 1) * a \in Int /\ Times(Minus(u, 1), a) = ((u - 1) * a) % P
      /\ (u - 1) * w \in Int /\ Times(Minus(u, 1), w) = ((u - 1) * w) % P
      /\ (u - 1) * (a + w) \in Int /\ Times(Minus(u, 1), Plus(a, w)) = ((u - 1) * (a + w)) % P
      /\ (u * w) - 1 \in Int /\ Minus(Times(u, w), 1) = ((u * w) - 1) % P
  BY <1>1, <1>2, Residues, SMTT(30)
<1>4. ((u - 1) * a) + ((u - 1) * w) \in Int /\ Plus(Times(Minus(u, 1), a), Times(Minus(u, 1), w)) = (((u - 1) * a) + ((u - 1) * w)) % P
  BY <1>1, <1>3, Residues, SMTT(30)
<1>5. (w - 1) + ((u - 1) * w) \in Int /\ Plus(Minus(w, 1), Times(Minus(u, 1), w)) = ((w - 1) + ((u - 1) * w)) % P
  BY <1>1, <1>2, <1>3, Residues, SMTT(30)
<1>6. /\ ((u - 1) * a) + ((u - 1) * w) = (u - 1) * (a + w)
      /\ (w - 1) + ((u - 1) * w) = (u * w) - 1
  BY <1>1
<1> QED  BY <1>3, <1>4, <1>5, <1>6


\* The sum of the powers of u below n, times u - 1.
LEMMA Geometric ==
  ASSUME NEW n \in Nat, NEW u \in Elements
  PROVE  /\ Powers(u, n) \in Vectors(n) /\ Total(Powers(u, n)) \in Elements
         /\ Times(Minus(u, 1), Total(Powers(u, n))) = Minus(Power(u, n), 1)
         /\ u = 1 => Total(Powers(u, n)) = n % P
<1> DEFINE s == Powers(u, n)
<1>1. \A k \in 1 .. n : Power(u, k - 1) \in Elements /\ s[k] = Power(u, k - 1)
  <2> TAKE k \in 1 .. n
  <2>1. k - 1 \in Nat
    OBVIOUS
  <2> QED  BY <2>1, PowerTyped DEF Powers
<1>2. s \in Vectors(n)
  BY <1>1 DEF Powers, Vectors
<1> HIDE DEF s
<1>3. /\ SumTo(s, 0) = 0 /\ SumTo(s, n) = Total(s)
      /\ \A k \in 0 .. n : SumTo(s, k) \in Elements
      /\ \A k \in 1 .. n : SumTo(s, k) = Plus(SumTo(s, k - 1), s[k])
  BY <1>2, Sums
<1> DEFINE m == Minus(u, 1)
           S == {k \in 0 .. n : Times(m, SumTo(s, k)) = Minus(Power(u, k), 1)}
<1>4. m \in Elements
  BY Typed, ZeroOne
<1>5. 0 \in S
  <2>1. Power(u, 0) = 1 /\ Minus(1, 1) = 0 /\ Times(m, 0) = 0
    BY <1>4, PowerIs, Ring, ZeroOne
  <2> QED  BY <1>3, <2>1
<1>6. \A k \in 1 .. n : k - 1 \in S => k \in S
  <2> TAKE k \in 1 .. n
  <2> HAVE k - 1 \in S
  <2> DEFINE j == k - 1
             w == Power(u, j)
             a == SumTo(s, j)
  <2>1. j \in Nat /\ j + 1 = k /\ k \in 0 .. n /\ j \in 0 .. n
    OBVIOUS
  <2>2. Times(m, a) = Minus(w, 1)
    OBVIOUS
  <2>3. SumTo(s, k) = Plus(a, w)
    BY <1>1, <1>3
  <2> HIDE DEF j
  <2>4. Power(u, k) = Times(u, w) /\ w \in Elements /\ a \in Elements
    BY <1>3, <2>1, PowerIs, PowerTyped
  <2> HIDE DEF w, a
  <2>5. Times(m, Plus(a, w)) = Minus(Times(u, w), 1)
    BY <2>2, <2>4, GeometricStep
  <2> QED  BY <2>1, <2>3, <2>4, <2>5
<1>7. n \in S
  <2> HIDE DEF S
  <2> QED  BY <1>5, <1>6, Up
<1>8. n \in 0 .. n
  OBVIOUS
<1>9. ASSUME u = 1 PROVE Total(s) = n % P
  <2> DEFINE T == {k \in 0 .. n : SumTo(s, k) = k % P}
  <2>1. 0 \in T
    <3>1. 0 % P = 0
      BY OwnResidue, ZeroOne
    <3> QED  BY <1>3, <3>1
  <2>2. \A k \in 1 .. n : k - 1 \in T => k \in T
    <3> TAKE k \in 1 .. n
    <3> HAVE k - 1 \in T
    <3> DEFINE j == k - 1
    <3>1. j \in Nat /\ j \in Int /\ j + 1 = k /\ 1 \in Int /\ 1 % P = 1
      BY OwnResidue, ZeroOne
    <3>2. s[k] = 1 /\ SumTo(s, k) = Plus(SumTo(s, j), s[k])
      BY <1>1, <1>3, <1>9, <3>1, OneStays
    <3>3. SumTo(s, j) = j % P
      OBVIOUS
    <3> HIDE DEF j
    <3>4. Plus(j % P, 1 % P) = (j + 1) % P
      BY <3>1, Residues, SMTT(30)
    <3> QED  BY <3>1, <3>2, <3>3, <3>4
  <2>3. n \in T
    <3> HIDE DEF T
    <3> QED  BY <2>1, <2>2, Up
  <2> QED  BY <1>3, <2>3
<1>10. Times(m, Total(s)) = Minus(Power(u, n), 1)
  BY <1>3, <1>7
<1> QED  BY <1>2, <1>3, <1>8, <1>9, <1>10 DEF s

\* A multiple of a vector has the multiple of its sum.
LEMMA TotalScaled ==
  ASSUME NEW n \in Nat, NEW t \in Vectors(n), NEW u \in Vectors(n), NEW c \in Elements,
         \A k \in 1 .. n : u[k] = Times(c, t[k])
  PROVE  Total(u) = Times(c, Total(t))
<1> DEFINE s == [k \in 1 .. n |-> 0]
<1>1. s \in Vectors(n) /\ \A k \in 1 .. n : s[k] = 0
  BY ZeroOne DEF Vectors
<1> HIDE DEF s
<1>2. \A k \in 1 .. n : u[k] = Plus(s[k], Times(c, t[k]))
  <2> TAKE k \in 1 .. n
  <2>1. Times(c, t[k]) \in Elements
    BY Typed DEF Vectors
  <2>2. Plus(0, Times(c, t[k])) = Times(c, t[k])
    BY <2>1, Ring
  <2> QED  BY <1>1, <2>2
<1>3. Total(u) = Plus(Total(s), Times(c, Total(t)))
  BY <1>1, <1>2, TotalCombines
<1>4. Total(s) = 0
  BY <1>1, TotalZero
<1>5. Total(t) \in Elements /\ Times(c, Total(t)) \in Elements
  BY TotalTyped, Typed
<1>6. Plus(0, Times(c, Total(t))) = Times(c, Total(t))
  BY <1>5, Ring
<1> QED  BY <1>3, <1>4, <1>6

\* The powers of y, c times each, as a polynomial.
PowerPoly(c, y, n) == [k \in 1 .. n |-> Times(c, Power(y, k - 1))]

\* It is a geometric sum.
LEMMA AtPowerPoly ==
  ASSUME NEW n \in Nat, NEW c \in Elements, NEW y \in Elements, NEW x \in Elements
  PROVE  /\ PowerPoly(c, y, n) \in Vectors(n)
         /\ At(PowerPoly(c, y, n), x) = Times(c, Total(Powers(Times(y, x), n)))
<1> DEFINE p == PowerPoly(c, y, n)
           u == Times(y, x)
           s == Powers(u, n)
<1>1. \A k \in 1 .. n : Power(y, k - 1) \in Elements /\ p[k] = Times(c, Power(y, k - 1)) /\ p[k] \in Elements
  <2> TAKE k \in 1 .. n
  <2>1. k - 1 \in Nat
    OBVIOUS
  <2> QED  BY <2>1, PowerTyped, Typed DEF PowerPoly
<1>2. p \in Vectors(n)
  BY <1>1 DEF PowerPoly, Vectors
<1>3. u \in Elements
  BY Typed
<1> HIDE DEF p
<1>4. s \in Vectors(n)
  <2> HIDE DEF u
  <2> QED  BY <1>3, Geometric
<1>5. Terms(p, x) \in Vectors(n) /\ \A k \in 1 .. n : Power(x, k - 1) \in Elements /\ Terms(p, x)[k] = Times(p[k], Power(x, k - 1))
  BY <1>2, TermsAre
<1>6. \A k \in 1 .. n : Terms(p, x)[k] = Times(c, s[k])
  <2> TAKE k \in 1 .. n
  <2>1. k - 1 \in Nat
    OBVIOUS
  <2>2. s[k] = Power(u, k - 1)
    BY DEF Powers
  <2> DEFINE a == Power(y, k - 1)
             b == Power(x, k - 1)
  <2>3. Power(u, k - 1) = Times(a, b)
    BY <2>1, PowerTimes
  <2>4. Terms(p, x)[k] = Times(Times(c, a), b) /\ a \in Elements /\ b \in Elements
    BY <1>1, <1>5
  <2> HIDE DEF a, b
  <2>5. Times(Times(c, a), b) = Times(c, Times(a, b))
    BY <2>4, Ring
  <2> QED  BY <2>2, <2>3, <2>4, <2>5
<1> HIDE DEF s
<1>7. Total(Terms(p, x)) = Times(c, Total(s))
  BY <1>4, <1>5, <1>6, TotalScaled
<1> QED  BY <1>2, <1>7 DEF At, s, p

\* Exponents commute.
LEMMA PowersCommute ==
  ASSUME NEW a \in Elements, NEW m \in Nat, NEW n \in Nat
  PROVE  Power(Power(a, m), n) = Power(Power(a, n), m)
<1>1. Power(Power(a, m), n) = Power(a, m * n)
  BY PowerPower
<1>2. Power(Power(a, n), m) = Power(a, n * m)
  BY PowerPower
<1>3. m * n = n * m
  OBVIOUS
<1> QED  BY <1>1, <1>2, <1>3

\* The powers of a quotient of two powers of a root sum to their number or to
\* nothing.
LEMMA Orthogonal ==
  ASSUME NEW K \in 0 .. 30, NEW omega, IsRoot(omega, K),
         NEW j \in 0 .. (Two(K) - 1), NEW l \in 0 .. (Two(K) - 1)
  PROVE  LET u == Times(Power(Inv(omega), l), Power(omega, j))
         IN u \in Elements /\ Total(Powers(u, Two(K))) = IF j = l THEN Two(K) % P ELSE 0
<1> DEFINE v == Inv(omega)
           n == Two(K)
           a == Power(omega, j)
           b == Power(v, l)
           u == Times(b, a)
           t == Total(Powers(u, n))
<1>1. omega \in Elements \ {0} /\ v \in Elements /\ v # 0 /\ n \in Nat /\ j \in Nat /\ l \in Nat
  <2>1. omega \in Elements \ {0} /\ IsRoot(v, K)
    BY InverseRoot DEF IsRoot
  <2>2. v \in Elements /\ v # 0
    BY <2>1 DEF IsRoot
  <2> QED  BY <2>1, <2>2, PowersOfTwo
<1>2. Times(Power(omega, l), b) = 1 /\ Power(omega, n) = 1 /\ Power(v, n) = 1
  <2>1. IsRoot(v, K)
    BY InverseRoot
  <2> QED  BY <1>1, <2>1, InverseRoot, RootsDistinct
<1> HIDE DEF v
<1>3. a \in Elements \ {0} /\ b \in Elements \ {0} /\ Power(omega, l) \in Elements
  BY <1>1, PowerTyped
<1> HIDE DEF n
<1>4. u \in Elements
  BY <1>3, Typed
<1>5. Power(u, n) = 1
  <2>1. Power(a, n) = 1
    <3>1. Power(Power(omega, j), n) = Power(Power(omega, n), j)
      BY <1>1, PowersCommute
    <3>2. Power(1, j) = 1
      BY <1>1, OneStays
    <3> QED  BY <1>2, <3>1, <3>2
  <2>2. Power(b, n) = 1
    <3>1. Power(Power(v, l), n) = Power(Power(v, n), l)
      BY <1>1, PowersCommute
    <3>2. Power(1, l) = 1
      BY <1>1, OneStays
    <3> QED  BY <1>2, <3>1, <3>2
  <2> HIDE DEF a, b
  <2>3. Power(u, n) = Times(Power(b, n), Power(a, n))
    BY <1>1, <1>3, PowerTimes
  <2> QED  BY <2>1, <2>2, <2>3, Ring, ZeroOne
<1>6. t \in Elements /\ Times(Minus(u, 1), t) = Minus(1, 1) /\ (u = 1 => t = n % P)
  <2> HIDE DEF u
  <2> QED  BY <1>1, <1>4, <1>5, Geometric
<1>7. CASE j = l
  <2>1. Times(b, a) = 1
    <3> HIDE DEF a, b
    <3>1. Times(b, a) = Times(a, b)
      BY <1>3, Ring
    <3> QED  BY <1>2, <1>7, <3>1 DEF a
  <2> QED  BY <1>4, <1>6, <1>7, <2>1 DEF n, v
<1>8. CASE j # l
  <2>1. u # 1
    <3>1. SUFFICES ASSUME u = 1 PROVE FALSE
      OBVIOUS
    <3> DEFINE c == Power(omega, l)
    <3>2. Times(b, a) = Times(b, c)
      <4> HIDE DEF a, b, c
      <4>1. Times(b, c) = Times(c, b)
        BY <1>3, Ring DEF c
      <4> QED  BY <1>2, <3>1, <4>1 DEF c
    <3>3. a = c
      <4> HIDE DEF a, b, c
      <4> QED  BY <1>3, <3>2, Cancels DEF c
    <3> QED  BY <1>8, <3>3, RootsDistinct
  <2> HIDE DEF u, t
  <2>2. Minus(u, 1) \in Elements \ {0} /\ Minus(1, 1) = 0 /\ Times(Minus(u, 1), 0) = 0
    <3>1. Minus(u, 1) \in Elements /\ Minus(u, 1) # 0
      BY <1>4, <2>1, Ring, Typed, ZeroOne
    <3> QED  BY <3>1, Ring, ZeroOne
  <2> DEFINE m == Minus(u, 1)
  <2> HIDE DEF m
  <2>3. t = 0
    <3>1. m \in Elements \ {0} /\ Times(m, t) = Times(m, 0)
      BY <1>6, <2>2 DEF m
    <3> QED  BY <1>6, <3>1, ZeroOne, Cancels
  <2> QED  BY <1>4, <1>8, <2>3 DEF t, u, n, v
<1> QED  BY <1>7, <1>8

\* The inverse transform finds the polynomial with the given values at the
\* powers of the root (deep_ali.rs, ifft).
LEMMA IfftMeets ==
  ASSUME NEW K \in 0 .. 30, NEW e \in Vectors(Two(K)), NEW omega, IsRoot(omega, K)
  PROVE  Ifft(e, omega) \in Vectors(Two(K)) /\ ValuesAt(e, Ifft(e, omega), omega, Two(K))
<1> DEFINE n == Two(K)
           v == Inv(omega)
           f == FftInPlace(e, v)
           c == Inv(n % P)
           q == Ifft(e, omega)
           B == [l \in 1 .. n |-> PowerPoly(c, Power(v, l - 1), n)]
<1>1. omega \in Elements \ {0} /\ IsRoot(v, K) /\ v \in Elements \ {0} /\ n \in Nat
  <2>1. omega \in Elements \ {0} /\ IsRoot(v, K)
    BY InverseRoot DEF IsRoot
  <2>2. v \in Elements \ {0}
    BY <2>1 DEF IsRoot
  <2> QED  BY <2>1, <2>2, PowersOfTwo
<1>2. n % P \in Elements \ {0} /\ c \in Elements /\ Times(n % P, c) = 1 /\ Times(c, n % P) = 1
  <2>1. n % P \in Elements \ {0}
    BY TwoIsNoZero
  <2>2. c \in Elements /\ Times(n % P, c) = 1
    BY <2>1, InverseIs
  <2> HIDE DEF n, c
  <2>3. Times(n % P, c) = Times(c, n % P)
    <3> DEFINE r == n % P
    <3>1. r \in Elements
      BY <2>1
    <3> HIDE DEF r
    <3>2. Times(r, c) = Times(c, r)
      BY <2>2, <3>1, Ring
    <3> QED  BY <3>2 DEF r
  <2> QED  BY <2>1, <2>2, <2>3
<1>3. f \in Vectors(n) /\ ValuesAt(f, e, v, n)
  <2> HIDE DEF v
  <2> QED  BY <1>1, FftMeets
<1> HIDE DEF v
<1>4. q \in Vectors(n) /\ \A i \in 1 .. n : f[i] \in Elements /\ q[i] = Times(f[i], c)
  <2>1. f \in [1 .. n -> Elements]
    BY <1>3 DEF Vectors
  <2> HIDE DEF f, n
  <2>2. Len(f) = n /\ DOMAIN f = 1 .. n
    BY <1>1, <2>1
  <2>3. q = [i \in 1 .. n |-> Times(f[i], c)]
    BY <2>2 DEF Ifft, f, v, c
  <2> HIDE DEF c, q
  <2>4. \A i \in 1 .. n : f[i] \in Elements /\ Times(f[i], c) \in Elements
    BY <1>2, <2>1, Typed
  <2> QED  BY <2>3, <2>4 DEF Vectors
<1> HIDE DEF f, q, n, c
<1>5. ASSUME NEW l \in 1 .. n
      PROVE  /\ l - 1 \in Nat /\ Power(v, l - 1) \in Elements /\ B[l] = PowerPoly(c, Power(v, l - 1), n) /\ B[l] \in Vectors(n)
             /\ e[l] \in Elements
  <2>1. l - 1 \in Nat
    OBVIOUS
  <2>2. Power(v, l - 1) \in Elements
    BY <1>1, <2>1, PowerTyped
  <2>3. PowerPoly(c, Power(v, l - 1), n) \in Vectors(n)
    BY <1>1, <1>2, <2>2, AtPowerPoly
  <2>4. e[l] \in Elements
    BY DEF Vectors, n
  <2> QED  BY <2>1, <2>2, <2>3, <2>4
<1>6. B \in [1 .. n -> Vectors(n)] /\ e \in Vectors(n)
  BY <1>5 DEF n
<1> HIDE DEF B
<1>7. ASSUME NEW k \in 1 .. n PROVE q[k] = Total([i \in 1 .. n |-> Times(e[i], B[i][k])])
  <2> DEFINE y == Power(v, k - 1)
             R == [i \in 1 .. n |-> Times(e[i], B[i][k])]
  <2>1. y \in Elements /\ k - 1 \in Nat
    BY <1>5
  <2>2. Terms(e, y) \in Vectors(n) /\ \A i \in 1 .. n : Power(y, i - 1) \in Elements /\ Terms(e, y)[i] = Times(e[i], Power(y, i - 1))
    <3> HIDE DEF y
    <3> QED  BY <1>1, <1>6, <2>1, TermsAre
  <2>3. \A i \in 1 .. n : R[i] = Times(c, Terms(e, y)[i]) /\ R[i] \in Elements
    <3> TAKE i \in 1 .. n
    <3> DEFINE w == Power(y, i - 1)
    <3>1. Power(Power(v, i - 1), k - 1) = w
      BY <1>1, <1>5, <2>1, PowersCommute
    <3>2. B[i][k] = Times(c, w)
      <4>1. PowerPoly(c, Power(v, i - 1), n)[k] = Times(c, Power(Power(v, i - 1), k - 1))
        BY DEF PowerPoly
      <4>2. B[i] = PowerPoly(c, Power(v, i - 1), n)
        BY <1>5
      <4> HIDE DEF w
      <4> QED  BY <3>1, <4>1, <4>2
    <3>3. w \in Elements /\ e[i] \in Elements /\ Terms(e, y)[i] = Times(e[i], w)
      BY <1>5, <2>2
    <3>4. R[i] = Times(e[i], B[i][k])
      OBVIOUS
    <3> HIDE DEF w, R
    <3>5. Times(e[i], Times(c, w)) = Times(c, Times(e[i], w))
      BY <1>2, <3>3, ThreeStep
    <3>6. Times(c, Times(e[i], w)) \in Elements
      BY <1>2, <3>3, Typed
    <3> QED  BY <3>2, <3>3, <3>4, <3>5, <3>6
  <2>4. R \in Vectors(n)
    BY <2>3 DEF Vectors
  <2> HIDE DEF R, y
  <2>5. Total(R) = Times(c, At(e, y))
    BY <1>1, <1>2, <2>2, <2>3, <2>4, TotalScaled DEF At
  <2>6. f[k] = At(e, y)
    <3>1. k - 1 \in 0 .. (n - 1) /\ (k - 1) + 1 = k
      BY <1>1
    <3> QED  BY <1>3, <3>1 DEF ValuesAt, y
  <2>7. Times(f[k], c) = Times(c, f[k])
    BY <1>2, <1>4, Ring
  <2> QED  BY <1>4, <2>5, <2>6, <2>7 DEF R
<1>8. ASSUME NEW j \in 0 .. (n - 1) PROVE e[j + 1] = At(q, Power(omega, j))
  <2> DEFINE x == Power(omega, j)
             W == [i \in 1 .. n |-> Times(e[i], At(B[i], x))]
  <2>1. x \in Elements /\ j + 1 \in 1 .. n
    BY <1>1, PowerTyped
  <2>2. W \in Vectors(n) /\ At(q, x) = Total(W)
    <3> HIDE DEF x
    <3>1. \A k \in 1 .. n : q[k] = Total([i \in 1 .. n |-> Times(e[i], B[i][k])])
      BY <1>7
    <3>2. n \in Nat /\ B \in [1 .. n -> Vectors(n)] /\ e \in Vectors(n) /\ q \in Vectors(n) /\ x \in Elements
      BY <1>1, <1>4, <1>6, <2>1
    <3> QED  BY <3>1, <3>2, AtTotal
  <2>3. ASSUME NEW i \in 1 .. n PROVE At(B[i], x) = IF j + 1 = i THEN 1 ELSE 0
    <3> DEFINE u == Times(Power(v, i - 1), x)
    <3>1. At(B[i], x) = Times(c, Total(Powers(u, n)))
      <4> HIDE DEF x
      <4> QED  BY <1>1, <1>2, <1>5, <2>1, AtPowerPoly
    <3>2. Total(Powers(u, n)) = IF j = i - 1 THEN n % P ELSE 0
      <4>1. i - 1 \in 0 .. (Two(K) - 1) /\ j \in 0 .. (Two(K) - 1)
        BY <1>1 DEF n
      <4> QED  BY <4>1, Orthogonal DEF v, n
    <3>3. j = i - 1 <=> j + 1 = i
      BY <1>1
    <3>4. Times(c, 0) = 0
      BY <1>2, Ring
    <3> QED  BY <1>2, <3>1, <3>2, <3>3, <3>4
  <2>4. W[j + 1] = e[j + 1] /\ \A i \in 1 .. n : i # j + 1 => W[i] = 0
    <3>1. \A i \in 1 .. n : W[i] = Times(e[i], At(B[i], x)) /\ Times(e[i], 1) = e[i] /\ Times(e[i], 0) = 0
      BY <1>5, Ring
    <3> QED  BY <2>1, <2>3, <3>1
  <2> HIDE DEF W
  <2>5. Total(W) = W[j + 1]
    BY <1>1, <2>1, <2>2, <2>4, TotalSingle
  <2> QED  BY <2>2, <2>4, <2>5 DEF x
<1> QED  BY <1>4, <1>8 DEF ValuesAt, q, n

-----------------------------------------------------------------------------
\* Division by a point, and roots.

\* A step of the division.
DivideStepIs(q, R, x, z, a, b, w) ==
  /\ Plus(Minus(Plus(q, Times(Minus(x, z), R)), Times(Times(z, a), w)), Times(Minus(a, Times(z, b)), Times(x, w)))
       = Minus(Plus(q, Times(Minus(x, z), Plus(R, Times(a, w)))), Times(Times(z, b), Times(x, w)))

\* It holds.
LEMMA DivideStep ==
  ASSUME NEW q \in Elements, NEW R \in Elements, NEW x \in Elements, NEW z \in Elements, NEW a \in Elements, NEW b \in Elements, NEW w \in Elements
  PROVE  DivideStepIs(q, R, x, z, a, b, w)
<1>1. /\ q \in Int /\ q % P = q
      /\ R \in Int /\ R % P = R
      /\ x \in Int /\ x % P = x
      /\ z \in Int /\ z % P = z
      /\ a \in Int /\ a % P = a
      /\ b \in Int /\ b % P = b
      /\ w \in Int /\ w % P = w
  BY OwnResidue, ZeroOne
<1>2. /\ x - z \in Int /\ Minus(x, z) = (x - z) % P
      /\ z * a \in Int /\ Times(z, a) = (z * a) % P
      /\ z * b \in Int /\ Times(z, b) = (z * b) % P
      /\ x * w \in Int /\ Times(x, w) = (x * w) % P
      /\ a * w \in Int /\ Times(a, w) = (a * w) % P
  BY <1>1, Residues, SMTT(30)
<1>3. /\ (x - z) * R \in Int /\ Times(Minus(x, z), R) = ((x - z) * R) % P
      /\ (z * a) * w \in Int /\ Times(Times(z, a), w) = ((z * a) * w) % P
      /\ a - (z * b) \in Int /\ Minus(a, Times(z, b)) = (a - (z * b)) % P
      /\ R + (a * w) \in Int /\ Plus(R, Times(a, w)) = (R + (a * w)) % P
      /\ (z * b) * (x * w) \in Int /\ Times(Times(z, b), Times(x, w)) = ((z * b) * (x * w)) % P
  BY <1>1, <1>2, Residues, SMTT(30)
<1>4. q + ((x - z) * R) \in Int /\ Plus(q, Times(Minus(x, z), R)) = (q + ((x - z) * R)) % P
  BY <1>1, <1>3, Residues, SMTT(30)
<1>5. (q + ((x - z) * R)) - ((z * a) * w) \in Int /\ Minus(Plus(q, Times(Minus(x, z), R)), Times(Times(z, a), w)) = ((q + ((x - z) * R)) - ((z * a) * w)) % P
  BY <1>1, <1>3, <1>4, Residues, SMTT(30)
<1>6. (a - (z * b)) * (x * w) \in Int /\ Times(Minus(a, Times(z, b)), Times(x, w)) = ((a - (z * b)) * (x * w)) % P
  BY <1>1, <1>2, <1>3, Residues, SMTT(30)
<1>7. ((q + ((x - z) * R)) - ((z * a) * w)) + ((a - (z * b)) * (x * w)) \in Int /\ Plus(Minus(Plus(q, Times(Minus(x, z), R)), Times(Times(z, a), w)), Times(Minus(a, Times(z, b)), Times(x, w))) = (((q + ((x - z) * R)) - ((z * a) * w)) + ((a - (z * b)) * (x * w))) % P
  BY <1>1, <1>5, <1>6, Residues, SMTT(30)
<1>8. (x - z) * (R + (a * w)) \in Int /\ Times(Minus(x, z), Plus(R, Times(a, w))) = ((x - z) * (R + (a * w))) % P
  BY <1>1, <1>2, <1>3, Residues, SMTT(30)
<1>9. q + ((x - z) * (R + (a * w))) \in Int /\ Plus(q, Times(Minus(x, z), Plus(R, Times(a, w)))) = (q + ((x - z) * (R + (a * w)))) % P
  BY <1>1, <1>8, Residues, SMTT(30)
<1>10. (q + ((x - z) * (R + (a * w)))) - ((z * b) * (x * w)) \in Int /\ Minus(Plus(q, Times(Minus(x, z), Plus(R, Times(a, w)))), Times(Times(z, b), Times(x, w))) = ((q + ((x - z) * (R + (a * w)))) - ((z * b) * (x * w))) % P
  BY <1>1, <1>3, <1>9, Residues, SMTT(30)
<1>11. /\ ((q + ((x - z) * R)) - ((z * a) * w)) + ((a - (z * b)) * (x * w)) = (q + ((x - z) * (R + (a * w)))) - ((z * b) * (x * w))
  BY <1>1
<1> QED  BY <1>7, <1>10, <1>11 DEF DivideStepIs

\* What is added and taken back.
LEMMA TakenBack ==
  ASSUME NEW a \in Elements, NEW b \in Elements
  PROVE  /\ Minus(Plus(a, b), b) = a
         /\ Plus(Minus(a, b), b) = a
<1>1. /\ a \in Int /\ a % P = a
      /\ b \in Int /\ b % P = b
  BY OwnResidue, ZeroOne
<1>2. /\ a + b \in Int /\ Plus(a, b) = (a + b) % P
      /\ a - b \in Int /\ Minus(a, b) = (a - b) % P
  BY <1>1, Residues, SMTT(30)
<1>3. /\ (a + b) - b \in Int /\ Minus(Plus(a, b), b) = ((a + b) - b) % P
      /\ (a - b) + b \in Int /\ Plus(Minus(a, b), b) = ((a - b) + b) % P
  BY <1>1, <1>2, Residues, SMTT(30)
<1>4. /\ (a + b) - b = a
      /\ (a - b) + b = a
  BY <1>1
<1> QED  BY <1>1, <1>3, <1>4


\* What the synthetic division has at each place: q is the quotient, with the
\* remainder before it and zero after it.
Divides(q, p, z, n) ==
  /\ q[n] = 0
  /\ \A k \in 0 .. (n - 1) : q[k] = Plus(p[k + 1], Times(z, q[k + 1]))

\* The synthetic division (oracle-layer/src/poly.rs): a vector that divides.
LEMMA DivideRuns ==
  ASSUME NEW n \in Nat, n > 0, NEW p \in Vectors(n), NEW z \in Elements
  PROVE  \E q \in [0 .. n -> Elements] :
           /\ Divides(q, p, z, n)
           /\ DivideByPoint(p, z).quotient = [k \in 1 .. (n - 1) |-> q[k]]
           /\ DivideByPoint(p, z).remainder = q[0]
<1> DEFINE F == [k \in 1 .. n |-> [v \in Elements |-> Plus(p[(n - k) + 1], Times(z, v))]]
<1>1. p \in [1 .. n -> Elements] /\ Len(p) = n
  <2>1. p \in [1 .. n -> Elements]
    BY DEF Vectors
  <2> QED  BY <2>1
<1>2. \A k \in 1 .. n, v \in Elements : Plus(p[(n - k) + 1], Times(z, v)) \in Elements
  <2> TAKE k \in 1 .. n, v \in Elements
  <2>1. (n - k) + 1 \in 1 .. n
    OBVIOUS
  <2>2. p[(n - k) + 1] \in Elements /\ Times(z, v) \in Elements
    BY <1>1, <2>1, Typed
  <2> QED  BY <2>2, Typed
<1>3. F \in [1 .. n -> [Elements -> Elements]]
  BY <1>2
<1>4. \A k \in 1 .. n, v \in Elements : F[k][v] = Plus(p[(n - k) + 1], Times(z, v))
  OBVIOUS
<1> HIDE DEF F
<1>5. PICK t : Iterates(n, Elements, 0, F, t)
  BY <1>3, ZeroOne, Recursion
<1>6. t \in [0 .. n -> Elements] /\ t[0] = 0
      /\ \A k \in 1 .. n : t[k] = Plus(p[(n - k) + 1], Times(z, t[k - 1]))
  <2>1. t \in [0 .. n -> Elements] /\ t[0] = 0 /\ \A k \in 1 .. n : t[k] = F[k][t[k - 1]]
    BY <1>5 DEF Iterates
  <2>2. ASSUME NEW k \in 1 .. n PROVE t[k] = Plus(p[(n - k) + 1], Times(z, t[k - 1]))
    <3>1. k - 1 \in 0 .. n
      OBVIOUS
    <3>2. t[k - 1] \in Elements
      BY <2>1, <3>1
    <3> QED  BY <1>4, <2>1, <3>2
  <2> QED  BY <2>1, <2>2
<1> DEFINE u == [k \in 0 .. n |-> t[n - k]]
<1>7. u = [k \in 0 .. n |-> IF k = n THEN 0 ELSE Plus(p[k + 1], Times(z, u[k + 1]))]
  <2>1. ASSUME NEW k \in 0 .. n
        PROVE  u[k] = IF k = n THEN 0 ELSE Plus(p[k + 1], Times(z, u[k + 1]))
    <3>1. CASE k = n
      BY <1>6, <3>1
    <3>2. CASE k # n
      <4>1. n - k \in 1 .. n /\ k + 1 \in 0 .. n /\ n - (n - k) = k /\ n - (k + 1) = (n - k) - 1
        BY <3>2
      <4>2. u[k] = t[n - k] /\ u[k + 1] = t[(n - k) - 1]
        BY <4>1
      <4>3. t[n - k] = Plus(p[(n - (n - k)) + 1], Times(z, t[(n - k) - 1]))
        BY <1>6, <4>1
      <4> QED  BY <3>2, <4>1, <4>2, <4>3
    <3> QED  BY <3>1, <3>2
  <2>2. u = [k \in 0 .. n |-> u[k]]
    OBVIOUS
  <2> HIDE DEF u
  <2> QED  BY <2>1, <2>2
<1> HIDE DEF u
<1>8. PICK q : /\ q = [k \in 0 .. n |-> IF k = n THEN 0 ELSE Plus(p[k + 1], Times(z, q[k + 1]))]
               /\ DivideByPoint(p, z) =
                    [quotient |-> [k \in 1 .. (n - 1) |-> q[k]], remainder |-> q[0]]
  BY <1>1, <1>7 DEF DivideByPoint
<1>9. Divides(q, p, z, n)
  <2>1. n \in 0 .. n /\ \A k \in 0 .. (n - 1) : k \in 0 .. n /\ k # n
    OBVIOUS
  <2>2. q[n] = 0
    BY <1>8, <2>1
  <2>3. \A k \in 0 .. (n - 1) : q[k] = Plus(p[k + 1], Times(z, q[k + 1]))
    BY <1>8, <2>1
  <2> QED  BY <2>2, <2>3 DEF Divides
<1> DEFINE S == {k \in 0 .. n : q[n - k] \in Elements}
<1>10. 0 \in S
  <2>1. n - 0 = n /\ 0 \in 0 .. n
    OBVIOUS
  <2> QED  BY <1>9, <2>1, ZeroOne DEF Divides
<1>11. \A k \in 1 .. n : k - 1 \in S => k \in S
  <2> TAKE k \in 1 .. n
  <2> HAVE k - 1 \in S
  <2>1. n - k \in 0 .. (n - 1) /\ (n - k) + 1 \in 1 .. n /\ n - (k - 1) = (n - k) + 1 /\ k \in 0 .. n
    OBVIOUS
  <2>2. q[(n - k) + 1] \in Elements
    BY <2>1
  <2>3. q[n - k] = Plus(p[(n - k) + 1], Times(z, q[(n - k) + 1]))
    BY <1>9, <2>1 DEF Divides
  <2>4. p[(n - k) + 1] \in Elements
    BY <1>1, <2>1
  <2> QED  BY <2>1, <2>2, <2>3, <2>4, Typed
<1> HIDE DEF S
<1>12. \A k \in 0 .. n : k \in S
  BY <1>10, <1>11, Up
<1>13. \A k \in 0 .. n : q[k] \in Elements
  <2> TAKE k \in 0 .. n
  <2>1. n - k \in 0 .. n /\ n - (n - k) = k
    OBVIOUS
  <2> QED  BY <1>12, <2>1 DEF S
<1>14. q \in [0 .. n -> Elements]
  BY <1>8, <1>13
<1> DEFINE v == [k \in 1 .. (n - 1) |-> q[k]]
<1>15. DivideByPoint(p, z) = [quotient |-> v, remainder |-> q[0]]
  BY <1>8
<1> HIDE DEF v
<1>16. DivideByPoint(p, z).quotient = v /\ DivideByPoint(p, z).remainder = q[0]
  BY <1>15
<1> QED  BY <1>9, <1>14, <1>16 DEF v

\* Dividing by x - z takes the value at z off, and what is left is a multiple.
LEMMA DivideAt ==
  ASSUME NEW n \in Nat, n > 0, NEW p \in Vectors(n), NEW z \in Elements
  PROVE  LET d == DivideByPoint(p, z)
         IN /\ d.quotient \in Vectors(n - 1) /\ d.remainder = At(p, z)
            /\ \A x \in Elements : At(p, x) = Plus(Times(Minus(x, z), At(d.quotient, x)), At(p, z))
            /\ (\A k \in 1 .. (n - 1) : d.quotient[k] = 0) /\ d.remainder = 0 => \A k \in 1 .. n : p[k] = 0
<1> DEFINE d == DivideByPoint(p, z)
           s == d.quotient
<1>1. PICK q \in [0 .. n -> Elements] :
        /\ Divides(q, p, z, n) /\ s = [k \in 1 .. (n - 1) |-> q[k]] /\ d.remainder = q[0]
  BY DivideRuns
<1> HIDE DEF d
<1>2. s \in Vectors(n - 1) /\ n - 1 \in Nat
  BY <1>1 DEF Vectors
<1> HIDE DEF s
<1>3. \A k \in 0 .. (n - 1) : /\ q[k] \in Elements /\ q[k + 1] \in Elements /\ p[k + 1] \in Elements
                              /\ Times(z, q[k + 1]) \in Elements
                              /\ p[k + 1] = Minus(q[k], Times(z, q[k + 1]))
  <2> TAKE k \in 0 .. (n - 1)
  <2> DEFINE a == q[k]
             b == p[k + 1]
             c == Times(z, q[k + 1])
  <2>1. a \in Elements /\ q[k + 1] \in Elements /\ b \in Elements /\ a = Plus(b, c)
    BY <1>1 DEF Divides, Vectors
  <2>2. c \in Elements
    BY <2>1, Typed
  <2> HIDE DEF a, b, c
  <2>3. b = Minus(a, c)
    BY <2>1, <2>2, TakenBack
  <2> QED  BY <2>1, <2>2, <2>3 DEF a, b, c
<1>4. ASSUME NEW x \in Elements
      PROVE  At(p, x) = Plus(q[0], Times(Minus(x, z), At(s, x)))
  <2>1. /\ AtTo(p, x, 0) = 0 /\ AtTo(p, x, n) = At(p, x)
        /\ \A k \in 0 .. n : AtTo(p, x, k) \in Elements
        /\ \A k \in 1 .. n : AtTo(p, x, k) = Plus(AtTo(p, x, k - 1), Times(p[k], Power(x, k - 1)))
    BY TermsAre
  <2>2. /\ AtTo(s, x, 0) = 0 /\ AtTo(s, x, n - 1) = At(s, x)
        /\ \A k \in 0 .. (n - 1) : AtTo(s, x, k) \in Elements
        /\ \A k \in 1 .. (n - 1) : AtTo(s, x, k) = Plus(AtTo(s, x, k - 1), Times(s[k], Power(x, k - 1)))
    BY <1>2, TermsAre
  <2> DEFINE m == Minus(x, z)
             S == {k \in 0 .. (n - 1) :
                     AtTo(p, x, k + 1) = Minus(Plus(q[0], Times(m, AtTo(s, x, k))), Times(Times(z, q[k + 1]), Power(x, k)))}
  <2>3. m \in Elements /\ q[0] \in Elements
    BY <1>1, Typed
  <2>4. 0 \in S
    <3> DEFINE b == Times(z, q[1])
    <3>1. 0 \in 0 .. (n - 1) /\ 0 + 1 = 1 /\ 1 - 1 = 0 /\ 1 \in 1 .. n /\ Power(x, 0) = 1
      BY PowerIs
    <3>2. p[1] = Minus(q[0], b) /\ b \in Elements /\ p[1] \in Elements
      BY <1>3, <3>1
    <3>3. AtTo(p, x, 1) = Plus(AtTo(p, x, 1 - 1), Times(p[1], Power(x, 1 - 1)))
      BY <2>1, <3>1
    <3>4. Times(p[1], 1) = p[1] /\ Plus(0, p[1]) = p[1] /\ Times(m, 0) = 0 /\ Plus(q[0], 0) = q[0] /\ Times(b, 1) = b
      BY <2>3, <3>2, Ring
    <3> HIDE DEF m, b
    <3> QED  BY <2>1, <2>2, <3>1, <3>2, <3>3, <3>4 DEF b
  <2>5. \A k \in 1 .. (n - 1) : k - 1 \in S => k \in S
    <3> TAKE k \in 1 .. (n - 1)
    <3> HAVE k - 1 \in S
    <3> DEFINE j == k - 1
               w == Power(x, j)
               R == AtTo(s, x, j)
               a == q[k]
               b == q[k + 1]
               c == q[0]
    <3>1. /\ j \in Nat /\ j + 1 = k /\ k \in 0 .. (n - 1) /\ j \in 0 .. (n - 1) /\ k + 1 \in 1 .. n /\ (k + 1) - 1 = k /\ k \in Nat
      OBVIOUS
    <3>2. AtTo(p, x, k) = Minus(Plus(c, Times(m, R)), Times(Times(z, a), w))
      BY <3>1
    <3> HIDE DEF j
    <3>3. Power(x, k) = Times(x, w) /\ w \in Elements
      BY <3>1, PowerIs, PowerTyped
    <3>4. AtTo(p, x, k + 1) = Plus(AtTo(p, x, k), Times(p[k + 1], Power(x, k)))
      <4>1. AtTo(p, x, k + 1) = Plus(AtTo(p, x, (k + 1) - 1), Times(p[k + 1], Power(x, (k + 1) - 1)))
        BY <2>1, <3>1
      <4> QED  BY <3>1, <4>1
    <3>5. p[k + 1] = Minus(a, Times(z, b)) /\ a \in Elements /\ b \in Elements
      BY <1>3, <3>1
    <3>6. AtTo(s, x, k) = Plus(R, Times(a, w)) /\ R \in Elements
      BY <1>1, <2>2, <3>1 DEF j
    <3>7. c \in Elements
      BY <2>3
    <3> HIDE DEF w, R, a, b, c
    <3>8. Plus(Minus(Plus(c, Times(m, R)), Times(Times(z, a), w)), Times(Minus(a, Times(z, b)), Times(x, w)))
            = Minus(Plus(c, Times(m, Plus(R, Times(a, w)))), Times(Times(z, b), Times(x, w)))
      <4>1. c \in Elements /\ R \in Elements /\ a \in Elements /\ b \in Elements /\ w \in Elements
        BY <3>3, <3>5, <3>6, <3>7
      <4>2. DivideStepIs(c, R, x, z, a, b, w)
        BY <4>1, DivideStep
      <4> QED  BY <4>2 DEF DivideStepIs
    <3> HIDE DEF m
    <3>9. AtTo(p, x, k + 1) = Minus(Plus(c, Times(m, AtTo(s, x, k))), Times(Times(z, b), Power(x, k)))
      BY <3>2, <3>3, <3>4, <3>5, <3>6, <3>8
    <3> QED  BY <3>1, <3>9 DEF b, c
  <2>6. n - 1 \in S
    <3> HIDE DEF S
    <3>1. n - 1 \in Nat /\ n - 1 \in 0 .. (n - 1)
      BY <1>2
    <3> DEFINE l == n - 1
    <3> HIDE DEF l
    <3>2. l \in Nat /\ l \in 0 .. l /\ \A k \in 1 .. l : k - 1 \in S => k \in S
      BY <2>5, <3>1 DEF l
    <3>3. \A k \in 0 .. l : k \in S
      BY <2>4, <3>2, Up
    <3> QED  BY <3>2, <3>3 DEF l
  <2>7. (n - 1) + 1 = n /\ q[n] = 0 /\ Power(x, n - 1) \in Elements
    BY <1>1, <1>2, PowerTyped DEF Divides
  <2>8. Times(z, 0) = 0 /\ Times(0, Power(x, n - 1)) = 0
    BY <2>7, Ring
  <2> DEFINE A == Times(m, At(s, x))
  <2>9. A \in Elements /\ Plus(q[0], A) \in Elements /\ Minus(Plus(q[0], A), 0) = Plus(q[0], A)
    <3>1. At(s, x) \in Elements
      BY <1>2, TermsAre
    <3>2. A \in Elements
      BY <2>3, <3>1, Typed
    <3> HIDE DEF A
    <3>3. Plus(q[0], A) \in Elements
      BY <2>3, <3>2, Typed
    <3> QED  BY <3>2, <3>3, Ring
  <2>10. AtTo(p, x, n) = Minus(Plus(q[0], Times(m, AtTo(s, x, n - 1))), Times(Times(z, q[n]), Power(x, n - 1)))
    BY <2>6, <2>7
  <2> QED  BY <2>1, <2>2, <2>7, <2>8, <2>9, <2>10
<1>5. q[0] = At(p, z)
  <2>1. At(p, z) = Plus(q[0], Times(Minus(z, z), At(s, z)))
    BY <1>4
  <2>2. At(s, z) \in Elements /\ q[0] \in Elements
    BY <1>1, <1>2, TermsAre
  <2>3. Minus(z, z) = 0 /\ Times(0, At(s, z)) = 0 /\ Plus(q[0], 0) = q[0]
    BY <2>2, Ring
  <2> QED  BY <2>1, <2>3
<1>6. ASSUME NEW x \in Elements PROVE At(p, x) = Plus(Times(Minus(x, z), At(s, x)), At(p, z))
  <2> DEFINE A == Times(Minus(x, z), At(s, x))
  <2>1. At(p, x) = Plus(q[0], A)
    BY <1>4
  <2>2. At(s, x) \in Elements /\ q[0] \in Elements
    BY <1>1, <1>2, TermsAre
  <2>3. A \in Elements
    BY <2>2, Typed
  <2> HIDE DEF A
  <2>4. Plus(q[0], A) = Plus(A, q[0])
    BY <2>2, <2>3, Ring
  <2> QED  BY <1>5, <2>1, <2>4 DEF A
<1>7. ASSUME \A k \in 1 .. (n - 1) : s[k] = 0, q[0] = 0, NEW k \in 1 .. n PROVE p[k] = 0
  <2>1. k - 1 \in 0 .. (n - 1) /\ (k - 1) + 1 = k
    OBVIOUS
  <2>2. p[k] = Minus(q[k - 1], Times(z, q[k]))
    BY <1>3, <2>1
  <2>3. q[k - 1] = 0
    BY <1>1, <1>7
  <2>4. q[k] = 0
    BY <1>1, <1>7 DEF Divides
  <2>5. Times(z, 0) = 0 /\ Minus(0, 0) = 0
    BY Ring, ZeroOne
  <2> QED  BY <2>2, <2>3, <2>4, <2>5
<1>8. d.remainder = At(p, z)
  BY <1>1, <1>5
<1>9. (\A k \in 1 .. (n - 1) : s[k] = 0) /\ d.remainder = 0 => \A k \in 1 .. n : p[k] = 0
  BY <1>1, <1>7
<1> QED  BY <1>2, <1>6, <1>8, <1>9 DEF s, d

\* Points that differ, where p is zero.
AreRoots(pts, p, n) ==
  /\ \A i \in 1 .. n : pts[i] \in Elements /\ At(p, pts[i]) = 0
  /\ \A i, j \in 1 .. n : pts[i] = pts[j] => i = j

\* A polynomial of n coefficients with n roots is zero.
LEMMA TooManyRoots ==
  ASSUME NEW n \in Nat, NEW p \in Vectors(n), NEW pts, AreRoots(pts, p, n)
  PROVE  /\ \A k \in 1 .. n : p[k] = 0
         /\ \A x \in Elements : At(p, x) = 0
<1> DEFINE S == {m \in 0 .. n : \A r \in Vectors(m) : AreRoots(pts, r, m) => \A k \in 1 .. m : r[k] = 0}
<1>1. 0 \in S
  OBVIOUS
<1>2. \A m \in 1 .. n : m - 1 \in S => m \in S
  <2> TAKE m \in 1 .. n
  <2> HAVE m - 1 \in S
  <2> DEFINE l == m - 1
  <2>1. m \in Nat /\ m > 0 /\ m \in 0 .. n /\ m \in 1 .. m /\ \A i \in 1 .. l : i \in 1 .. m /\ i # m
    OBVIOUS
  <2>2. \A r \in Vectors(l) : AreRoots(pts, r, l) => \A k \in 1 .. l : r[k] = 0
    OBVIOUS
  <2>3. ASSUME NEW r \in Vectors(m), AreRoots(pts, r, m) PROVE \A k \in 1 .. m : r[k] = 0
    <3> DEFINE z == pts[m]
               d == DivideByPoint(r, z)
               s == d.quotient
    <3>1. z \in Elements /\ At(r, z) = 0
      BY <2>1, <2>3 DEF AreRoots
    <3> HIDE DEF z
    <3>2. /\ s \in Vectors(l) /\ d.remainder = At(r, z)
          /\ \A x \in Elements : At(r, x) = Plus(Times(Minus(x, z), At(s, x)), At(r, z))
          /\ (\A k \in 1 .. l : s[k] = 0) /\ d.remainder = 0 => \A k \in 1 .. m : r[k] = 0
      BY <2>1, <2>3, <3>1, DivideAt
    <3> HIDE DEF d, s
    <3>3. l \in Nat
      BY <2>1
    <3> HIDE DEF l
    <3>4. ASSUME NEW i \in 1 .. l PROVE pts[i] \in Elements /\ At(s, pts[i]) = 0
      <4> DEFINE x == pts[i]
                 a == Minus(x, z)
                 b == At(s, x)
      <4>1. x \in Elements /\ At(r, x) = 0 /\ x # z
        BY <2>1, <2>3 DEF AreRoots, z
      <4>2. At(r, x) = Plus(Times(a, b), 0)
        BY <3>1, <3>2, <4>1
      <4> HIDE DEF x
      <4>3. b \in Elements /\ a \in Elements /\ a # 0
        BY <3>1, <3>2, <3>3, <4>1, TermsAre, Ring, Typed
      <4> HIDE DEF a, b
      <4>4. Times(a, b) \in Elements /\ Plus(Times(a, b), 0) = Times(a, b)
        BY <4>3, Ring, Typed
      <4>5. b = 0
        BY <4>1, <4>2, <4>3, <4>4, NoZeroDivisor
      <4> QED  BY <4>1, <4>5 DEF b, x
    <3>5. AreRoots(pts, s, l)
      BY <2>1, <2>3, <3>4 DEF AreRoots
    <3>6. \A k \in 1 .. l : s[k] = 0
      BY <2>2, <3>2, <3>5
    <3> QED  BY <3>1, <3>2, <3>6
  <2> QED  BY <2>1, <2>3
<1>3. n \in S
  <2> HIDE DEF S
  <2> QED  BY <1>1, <1>2, Up
<1>4. \A k \in 1 .. n : p[k] = 0
  BY <1>3
<1>5. ASSUME NEW x \in Elements PROVE At(p, x) = 0
  <2>1. Terms(p, x) \in Vectors(n) /\ \A k \in 1 .. n : Power(x, k - 1) \in Elements /\ Terms(p, x)[k] = Times(p[k], Power(x, k - 1))
    BY TermsAre
  <2>2. \A k \in 1 .. n : Terms(p, x)[k] = 0
    BY <1>4, <2>1, Ring
  <2> QED  BY <2>1, <2>2, TotalZero DEF At
<1> QED  BY <1>4, <1>5

-----------------------------------------------------------------------------
\* Lagrange's formula.

\* n points that differ.
AreDistinct(pts, n) ==
  pts \in [1 .. n -> Elements] /\ \A i, j \in 1 .. n : pts[i] = pts[j] => i = j

\* The factors of the i-th basis polynomial at x, and what makes it 1 at the
\* i-th point.
LinearFactors(pts, i, x, n) == [j \in 1 .. n |-> IF j = i THEN 1 ELSE Minus(x, pts[j])]
Scales(pts, i, n) == [j \in 1 .. n |-> IF j = i THEN 1 ELSE Inv(Minus(pts[i], pts[j]))]

\* They are elements, and the scales are the inverses of the factors at the point.
LEMMA LinearFactorsAre ==
  ASSUME NEW n \in Nat, NEW pts, AreDistinct(pts, n), NEW i \in 1 .. n, NEW x \in Elements
  PROVE  /\ LinearFactors(pts, i, x, n) \in Vectors(n) /\ Scales(pts, i, n) \in Vectors(n)
         /\ \A j \in 1 .. n : /\ LinearFactors(pts, i, x, n)[j] = (IF j = i THEN 1 ELSE Minus(x, pts[j]))
                              /\ LinearFactors(pts, i, x, n)[j] \in Elements
                              /\ Scales(pts, i, n)[j] = (IF j = i THEN 1 ELSE Inv(Minus(pts[i], pts[j])))
                              /\ Scales(pts, i, n)[j] \in Elements
                              /\ x = pts[i] => Times(LinearFactors(pts, i, x, n)[j], Scales(pts, i, n)[j]) = 1
<1>1. ASSUME NEW j \in 1 .. n
      PROVE  /\ pts[j] \in Elements /\ pts[i] \in Elements /\ Minus(x, pts[j]) \in Elements
             /\ j # i => Minus(pts[i], pts[j]) \in Elements \ {0}
  <2>1. pts[j] \in Elements /\ pts[i] \in Elements /\ (j # i => pts[i] # pts[j])
    BY DEF AreDistinct
  <2>2. Minus(x, pts[j]) \in Elements /\ Minus(pts[i], pts[j]) \in Elements
    BY <2>1, Typed
  <2>3. Minus(pts[i], pts[j]) = 0 <=> pts[i] = pts[j]
    BY <2>1, Ring
  <2> QED  BY <2>1, <2>2, <2>3
<1>2. ASSUME NEW j \in 1 .. n
      PROVE  /\ (IF j = i THEN 1 ELSE Minus(x, pts[j])) \in Elements
             /\ (IF j = i THEN 1 ELSE Inv(Minus(pts[i], pts[j]))) \in Elements
             /\ x = pts[i] => Times(IF j = i THEN 1 ELSE Minus(x, pts[j]), IF j = i THEN 1 ELSE Inv(Minus(pts[i], pts[j]))) = 1
  <2>1. CASE j = i
    BY <2>1, Ring, ZeroOne
  <2>2. CASE j # i
    <3> DEFINE d == Minus(pts[i], pts[j])
    <3>1. d \in Elements \ {0}
      BY <1>1, <2>2
    <3>2. x = pts[i] => Minus(x, pts[j]) = d
      OBVIOUS
    <3> HIDE DEF d
    <3>3. Inv(d) \in Elements /\ Times(d, Inv(d)) = 1
      BY <3>1, InverseIs
    <3> QED  BY <1>1, <2>2, <3>2, <3>3 DEF d
  <2> QED  BY <2>1, <2>2
<1>3. LinearFactors(pts, i, x, n) \in Vectors(n) /\ Scales(pts, i, n) \in Vectors(n)
  BY <1>2 DEF LinearFactors, Scales, Vectors
<1> QED  BY <1>2, <1>3 DEF LinearFactors, Scales

\* The coefficients of the i-th basis polynomial.
LEMMA BasisExists ==
  ASSUME NEW n \in Nat, NEW pts, AreDistinct(pts, n), NEW i \in 1 .. n
  PROVE  \E b \in Vectors(n) : \A x \in Elements : At(b, x) = Product(LinearFactors(pts, i, x, n))
<1> DEFINE F(x) == LinearFactors(pts, i, x, n)
           S == {k \in 0 .. n : \E b \in Vectors(IF k < i THEN k + 1 ELSE k) :
                                  \A x \in Elements : At(b, x) = ProductTo(F(x), k)}
<1>1. ASSUME NEW x \in Elements
      PROVE  /\ ProductTo(F(x), 0) = 1 /\ ProductTo(F(x), n) = Product(F(x))
             /\ \A k \in 0 .. n : ProductTo(F(x), k) \in Elements
             /\ \A k \in 1 .. n : /\ ProductTo(F(x), k) = Times(ProductTo(F(x), k - 1), F(x)[k])
                                  /\ F(x)[k] = (IF k = i THEN 1 ELSE Minus(x, pts[k]))
                                  /\ F(x)[k] \in Elements /\ pts[k] \in Elements
  <2>1. F(x) \in Vectors(n) /\ \A k \in 1 .. n : F(x)[k] = (IF k = i THEN 1 ELSE Minus(x, pts[k])) /\ F(x)[k] \in Elements
    BY LinearFactorsAre
  <2>2. \A k \in 1 .. n : pts[k] \in Elements
    BY DEF AreDistinct
  <2> HIDE DEF F
  <2> QED  BY <2>1, <2>2, Products
<1> HIDE DEF F
<1>2. 0 \in S
  <2> DEFINE b == [k \in 1 .. 1 |-> 1]
  <2>1. b \in Vectors(1) /\ b[1] = 1
    BY ZeroOne DEF Vectors
  <2> HIDE DEF b
  <2>2. \A x \in Elements : At(b, x) = ProductTo(F(x), 0)
    BY <1>1, <2>1, AtOne
  <2>3. 0 < i /\ 0 + 1 = 1 /\ 0 \in 0 .. n
    OBVIOUS
  <2> QED  BY <2>1, <2>2, <2>3
<1>3. \A k \in 1 .. n : k - 1 \in S => k \in S
  <2> TAKE k \in 1 .. n
  <2> HAVE k - 1 \in S
  <2> DEFINE j == k - 1
             m == IF j < i THEN j + 1 ELSE j
  <2>1. j \in Nat /\ m \in Nat /\ k \in 0 .. n /\ (k = i => m = k /\ ~(k < i)) /\ (k # i => m + 1 = IF k < i THEN k + 1 ELSE k) /\ j \in 0 .. n
    OBVIOUS
  <2>2. PICK b \in Vectors(m) : \A x \in Elements : At(b, x) = ProductTo(F(x), j)
    OBVIOUS
  <2> HIDE DEF m
  <2>3. CASE k = i
    <3>1. \A x \in Elements : At(b, x) = ProductTo(F(x), k)
      <4> TAKE x \in Elements
      <4>1. Times(ProductTo(F(x), j), 1) = ProductTo(F(x), j)
        BY <1>1, <2>1, Ring
      <4>2. ProductTo(F(x), k) = Times(ProductTo(F(x), j), 1)
        BY <1>1, <2>3
      <4> QED  BY <2>2, <4>1, <4>2
    <3> QED  BY <2>1, <2>2, <2>3, <3>1
  <2>4. CASE k # i
    <3> DEFINE r == pts[k]
               q == TimesLinear(b, r)
    <3>1. r \in Elements
      BY <1>1, ZeroOne
    <3> HIDE DEF r
    <3>2. q \in Vectors(m + 1) /\ \A x \in Elements : At(q, x) = Times(Minus(x, r), At(b, x))
      BY <2>1, <2>2, <3>1, AtLinear, ZeroOne
    <3> HIDE DEF q
    <3>3. \A x \in Elements : At(q, x) = ProductTo(F(x), k)
      <4> TAKE x \in Elements
      <4> DEFINE a == ProductTo(F(x), j)
                 c == Minus(x, r)
      <4>1. a \in Elements /\ c \in Elements
        BY <1>1, <2>1, <3>1, Typed
      <4>2. ProductTo(F(x), k) = Times(a, c)
        BY <1>1, <2>4 DEF r
      <4>3. At(q, x) = Times(c, a)
        BY <2>2, <3>2
      <4> HIDE DEF a, c
      <4> QED  BY <4>1, <4>2, <4>3, Ring
    <3> QED  BY <2>1, <2>4, <3>2, <3>3
  <2> QED  BY <2>3, <2>4
<1>4. n \in S
  <2> HIDE DEF S
  <2> QED  BY <1>2, <1>3, Up
<1>5. ~(n < i)
  OBVIOUS
<1>6. PICK b \in Vectors(n) : \A x \in Elements : At(b, x) = ProductTo(F(x), n)
  BY <1>4, <1>5
<1>7. \A x \in Elements : At(b, x) = Product(F(x))
  BY <1>1, <1>6
<1> QED  BY <1>7 DEF F

\* The product of ones.
LEMMA ProductOnes ==
  ASSUME NEW n \in Nat, NEW s \in Vectors(n), \A k \in 1 .. n : s[k] = 1
  PROVE  Product(s) = 1
<1> DEFINE S == {k \in 0 .. n : ProductTo(s, k) = 1}
<1>1. /\ ProductTo(s, 0) = 1 /\ ProductTo(s, n) = Product(s)
      /\ \A k \in 1 .. n : ProductTo(s, k) = Times(ProductTo(s, k - 1), s[k])
  BY Products
<1>2. 0 \in S
  BY <1>1
<1>3. Times(1, 1) = 1
  BY Ring, ZeroOne
<1>4. \A k \in 1 .. n : k - 1 \in S => k \in S
  BY <1>1, <1>3
<1>5. n \in S
  <2> HIDE DEF S
  <2> QED  BY <1>2, <1>4, Up
<1> QED  BY <1>1, <1>5

\* The i-th term of Lagrange's formula.
LagrangeTerm(pts, t, x, n, i) ==
  Times(t[i], Times(Product(LinearFactors(pts, i, x, n)), Product(Scales(pts, i, n))))

\* The formula is the sum of its terms.
LEMMA LagrangeTerms ==
  ASSUME NEW n \in Nat, NEW pts, AreDistinct(pts, n), NEW t \in Vectors(n), NEW x \in Elements
  PROVE  /\ Lagrange(pts, t, x) = Total([i \in 1 .. n |-> LagrangeTerm(pts, t, x, n, i)])
         /\ [i \in 1 .. n |-> LagrangeTerm(pts, t, x, n, i)] \in Vectors(n)
         /\ \A i \in 1 .. n : /\ Product(LinearFactors(pts, i, x, n)) \in Elements
                              /\ Product(Scales(pts, i, n)) \in Elements
<1> DEFINE f(i, j) == IF j = i THEN 1 ELSE Times(Minus(x, pts[j]), Inv(Minus(pts[i], pts[j])))
           g(i) == [j \in 1 .. n |-> f(i, j)]
<1>1. DOMAIN pts = 1 .. n
  BY DEF AreDistinct
<1>2. Lagrange(pts, t, x) = Total([i \in 1 .. n |-> Times(t[i], Product(g(i)))])
  BY <1>1 DEF Lagrange
<1>3. ASSUME NEW i \in 1 .. n
      PROVE  /\ Product(g(i)) = Times(Product(LinearFactors(pts, i, x, n)), Product(Scales(pts, i, n)))
             /\ Product(LinearFactors(pts, i, x, n)) \in Elements
             /\ Product(Scales(pts, i, n)) \in Elements
             /\ t[i] \in Elements
  <2> DEFINE u == LinearFactors(pts, i, x, n)
             v == Scales(pts, i, n)
             w == g(i)
  <2>1. /\ u \in Vectors(n) /\ v \in Vectors(n)
        /\ \A j \in 1 .. n : /\ u[j] = (IF j = i THEN 1 ELSE Minus(x, pts[j])) /\ u[j] \in Elements
                             /\ v[j] = (IF j = i THEN 1 ELSE Inv(Minus(pts[i], pts[j]))) /\ v[j] \in Elements
    BY LinearFactorsAre
  <2>2. Times(1, 1) = 1
    BY Ring, ZeroOne
  <2>3. \A j \in 1 .. n : w[j] = f(i, j)
    OBVIOUS
  <2> HIDE DEF u, v
  <2>4. \A j \in 1 .. n : f(i, j) = Times(u[j], v[j])
    BY <2>1, <2>2
  <2>5. \A j \in 1 .. n : w[j] = Times(u[j], v[j])
    BY <2>3, <2>4
  <2>6. w \in Vectors(n)
    <3>1. \A j \in 1 .. n : f(i, j) \in Elements
      BY <2>1, <2>4, Typed
    <3> HIDE DEF f
    <3> QED  BY <3>1 DEF Vectors
  <2> HIDE DEF w, g
  <2>7. Product(w) = Times(Product(u), Product(v))
    BY <2>1, <2>5, <2>6, ProductOfProducts
  <2>8. n \in 0 .. n
    OBVIOUS
  <2>9. Product(u) \in Elements /\ Product(v) \in Elements
    BY <2>1, <2>8, Products
  <2>10. t[i] \in Elements
    BY DEF Vectors
  <2> QED  BY <2>7, <2>9, <2>10 DEF u, v, w
<1> HIDE DEF g
<1>4. [i \in 1 .. n |-> Times(t[i], Product(g(i)))] = [i \in 1 .. n |-> LagrangeTerm(pts, t, x, n, i)]
  BY <1>3 DEF LagrangeTerm
<1>5. \A i \in 1 .. n : LagrangeTerm(pts, t, x, n, i) \in Elements
  BY <1>3, Typed DEF LagrangeTerm
<1>6. [i \in 1 .. n |-> LagrangeTerm(pts, t, x, n, i)] \in Vectors(n)
  BY <1>5 DEF Vectors
<1> QED  BY <1>2, <1>3, <1>4, <1>6

\* The same factors in another order.
LEMMA TermOrder ==
  ASSUME NEW t \in Elements, NEW u \in Elements, NEW v \in Elements
  PROVE  Times(t, Times(u, v)) = Times(Times(t, v), u)
<1>1. /\ t \in Int /\ t % P = t
      /\ u \in Int /\ u % P = u
      /\ v \in Int /\ v % P = v
  BY OwnResidue, ZeroOne
<1>2. /\ u * v \in Int /\ Times(u, v) = (u * v) % P
      /\ t * v \in Int /\ Times(t, v) = (t * v) % P
  BY <1>1, Residues, SMTT(30)
<1>3. /\ t * (u * v) \in Int /\ Times(t, Times(u, v)) = (t * (u * v)) % P
      /\ (t * v) * u \in Int /\ Times(Times(t, v), u) = ((t * v) * u) % P
  BY <1>1, <1>2, Residues, SMTT(30)
<1>4. /\ t * (u * v) = (t * v) * u
  BY <1>1
<1> QED  BY <1>3, <1>4


\* The formula is the value of a polynomial.
LEMMA LagrangeIs ==
  ASSUME NEW n \in Nat, NEW pts, AreDistinct(pts, n), NEW t \in Vectors(n)
  PROVE  \E L \in Vectors(n) : \A x \in Elements : At(L, x) = Lagrange(pts, t, x)
<1> DEFINE B == [i \in 1 .. n |-> CHOOSE b \in Vectors(n) : \A x \in Elements : At(b, x) = Product(LinearFactors(pts, i, x, n))]
           c == [i \in 1 .. n |-> Times(t[i], Product(Scales(pts, i, n)))]
           L == [k \in 1 .. n |-> Total([i \in 1 .. n |-> Times(c[i], B[i][k])])]
<1>1. \A i \in 1 .. n : B[i] \in Vectors(n) /\ \A x \in Elements : At(B[i], x) = Product(LinearFactors(pts, i, x, n))
  BY BasisExists
<1>2. B \in [1 .. n -> Vectors(n)]
  <2>1. B = [i \in 1 .. n |-> B[i]]
    OBVIOUS
  <2> HIDE DEF B
  <2> QED  BY <1>1, <2>1
<1>3. \A i \in 1 .. n : Product(Scales(pts, i, n)) \in Elements
  BY LagrangeTerms, ZeroOne
<1>4. \A i \in 1 .. n : t[i] \in Elements
  BY DEF Vectors
<1>5. c \in Vectors(n) /\ \A i \in 1 .. n : c[i] \in Elements /\ c[i] = Times(t[i], Product(Scales(pts, i, n)))
  BY <1>3, <1>4, Typed DEF Vectors
<1> HIDE DEF B, c
<1>6. ASSUME NEW k \in 1 .. n PROVE Total([i \in 1 .. n |-> Times(c[i], B[i][k])]) \in Elements
  <2>1. \A i \in 1 .. n : B[i][k] \in Elements
    BY <1>1 DEF Vectors
  <2> DEFINE s == [i \in 1 .. n |-> Times(c[i], B[i][k])]
  <2>2. s \in Vectors(n)
    BY <1>5, <2>1, Typed DEF Vectors
  <2> HIDE DEF s
  <2>3. n \in 0 .. n
    OBVIOUS
  <2>4. Total(s) \in Elements
    BY <2>2, <2>3, Sums
  <2> QED  BY <2>4 DEF s
<1>7. L \in Vectors(n) /\ \A k \in 1 .. n : L[k] = Total([i \in 1 .. n |-> Times(c[i], B[i][k])])
  BY <1>6 DEF Vectors
<1> HIDE DEF L
<1>8. ASSUME NEW x \in Elements PROVE At(L, x) = Lagrange(pts, t, x)
  <2>1. At(L, x) = Total([i \in 1 .. n |-> Times(c[i], At(B[i], x))])
    BY <1>2, <1>5, <1>7, AtTotal
  <2>2. ASSUME NEW i \in 1 .. n PROVE Times(c[i], At(B[i], x)) = LagrangeTerm(pts, t, x, n, i)
    <3> DEFINE u == Product(LinearFactors(pts, i, x, n))
               v == Product(Scales(pts, i, n))
               y == t[i]
    <3>1. u \in Elements /\ v \in Elements /\ y \in Elements
      BY <1>3, <1>4, LagrangeTerms
    <3>2. At(B[i], x) = u /\ c[i] = Times(y, v)
      BY <1>1, <1>5
    <3>3. LagrangeTerm(pts, t, x, n, i) = Times(y, Times(u, v))
      BY DEF LagrangeTerm
    <3> HIDE DEF u, v, y
    <3> QED  BY <3>1, <3>2, <3>3, TermOrder
  <2>3. [i \in 1 .. n |-> Times(c[i], At(B[i], x))] = [i \in 1 .. n |-> LagrangeTerm(pts, t, x, n, i)]
    BY <2>2
  <2>4. Lagrange(pts, t, x) = Total([i \in 1 .. n |-> LagrangeTerm(pts, t, x, n, i)])
    BY LagrangeTerms
  <2> QED  BY <2>1, <2>3, <2>4
<1> QED  BY <1>7, <1>8

\* The formula takes the given values at the points.
LEMMA LagrangeTakes ==
  ASSUME NEW n \in Nat, NEW pts, AreDistinct(pts, n), NEW t \in Vectors(n), NEW k \in 1 .. n
  PROVE  pts[k] \in Elements /\ Lagrange(pts, t, pts[k]) = t[k]
<1> DEFINE x == pts[k]
           s == [i \in 1 .. n |-> LagrangeTerm(pts, t, x, n, i)]
<1>1. x \in Elements
  BY DEF AreDistinct
<1>2. /\ Lagrange(pts, t, x) = Total(s) /\ s \in Vectors(n)
      /\ \A i \in 1 .. n : /\ Product(LinearFactors(pts, i, x, n)) \in Elements
                           /\ Product(Scales(pts, i, n)) \in Elements
  BY <1>1, LagrangeTerms
<1>3. \A i \in 1 .. n : s[i] = LagrangeTerm(pts, t, x, n, i)
  OBVIOUS
<1>4. \A i \in 1 .. n : t[i] \in Elements
  BY DEF Vectors
<1>5. ASSUME NEW i \in 1 .. n, i # k PROVE s[i] = 0
  <2> DEFINE u == LinearFactors(pts, i, x, n)
             v == Product(Scales(pts, i, n))
  <2>1. u \in Vectors(n) /\ u[k] = Minus(x, x)
    BY <1>1, <1>5, LinearFactorsAre
  <2>2. u[k] = 0
    BY <1>1, <2>1, Ring
  <2>3. s[i] = Times(t[i], Times(Product(u), v)) /\ v \in Elements
    BY <1>2, <1>3 DEF LagrangeTerm
  <2> HIDE DEF u, v
  <2>4. Product(u) = 0
    BY <2>1, <2>2, ProductZero
  <2>5. Times(0, v) = 0 /\ Times(t[i], 0) = 0
    BY <1>4, <2>3, Ring, ZeroOne
  <2> QED  BY <2>3, <2>4, <2>5
<1>6. s[k] = t[k]
  <2> DEFINE u == LinearFactors(pts, k, x, n)
             v == Scales(pts, k, n)
             w == [j \in 1 .. n |-> Times(u[j], v[j])]
  <2>1. /\ u \in Vectors(n) /\ v \in Vectors(n)
        /\ \A j \in 1 .. n : Times(u[j], v[j]) = 1
    BY <1>1, LinearFactorsAre
  <2>2. s[k] = Times(t[k], Times(Product(u), Product(v)))
    BY <1>3 DEF LagrangeTerm
  <2> HIDE DEF u, v
  <2>3. w \in Vectors(n) /\ \A j \in 1 .. n : w[j] = 1 /\ w[j] = Times(u[j], v[j])
    BY <2>1, ZeroOne DEF Vectors
  <2> HIDE DEF w
  <2>4. Product(w) = 1 /\ Product(w) = Times(Product(u), Product(v))
    BY <2>1, <2>3, ProductOnes, ProductOfProducts
  <2>5. Times(t[k], 1) = t[k]
    BY <1>4, Ring, ZeroOne
  <2> QED  BY <2>2, <2>4, <2>5
<1>7. Total(s) = s[k]
  <2> HIDE DEF s
  <2> QED  BY <1>2, <1>5, TotalSingle
<1> QED  BY <1>1, <1>2, <1>6, <1>7

\* A difference as a sum.
LEMMA MinusAdds ==
  ASSUME NEW a \in Elements, NEW b \in Elements
  PROVE  Plus(a, Minus(0, b)) = Minus(a, b)
<1>1. /\ a \in Int /\ a % P = a
      /\ b \in Int /\ b % P = b
      /\ 0 \in Int /\ 0 % P = 0
  BY OwnResidue, ZeroOne
<1>2. /\ 0 - b \in Int /\ Minus(0, b) = (0 - b) % P
      /\ a - b \in Int /\ Minus(a, b) = (a - b) % P
  BY <1>1, Residues, SMTT(30)
<1>3. /\ a + (0 - b) \in Int /\ Plus(a, Minus(0, b)) = (a + (0 - b)) % P
  BY <1>1, <1>2, Residues, SMTT(30)
<1>4. /\ a + (0 - b) = a - b
  BY <1>1
<1> QED  BY <1>2, <1>3, <1>4


\* p has the values t at the points.
Takes(p, pts, t, n) == \A i \in 1 .. n : At(p, pts[i]) = t[i]

\* A polynomial with the given values at the points is the one of the formula.
LEMMA LagrangeMeets ==
  ASSUME NEW n \in Nat, NEW pts, AreDistinct(pts, n), NEW t \in Vectors(n), NEW p \in Vectors(n), Takes(p, pts, t, n)
  PROVE  \A x \in Elements : At(p, x) = Lagrange(pts, t, x)
<1>1. PICK L \in Vectors(n) : \A x \in Elements : At(L, x) = Lagrange(pts, t, x)
  BY LagrangeIs
<1> DEFINE r == [k \in 1 .. n |-> Plus(p[k], Times(MinusOne, L[k]))]
<1>2. \A k \in 1 .. n : p[k] \in Elements /\ L[k] \in Elements
  BY DEF Vectors
<1>3. r \in Vectors(n) /\ Combines(r, p, MinusOne, L, n) /\ MinusOne \in Elements
  BY <1>2, MinusOneIs, Typed DEF Vectors, Combines
<1> HIDE DEF r
<1>4. ASSUME NEW x \in Elements
      PROVE  /\ At(p, x) \in Elements /\ At(L, x) \in Elements
             /\ At(r, x) = 0 <=> At(p, x) = At(L, x)
  <2> DEFINE a == At(p, x)
             b == At(L, x)
  <2>1. a \in Elements /\ b \in Elements
    BY TermsAre
  <2>2. At(r, x) = Plus(a, Times(MinusOne, b))
    BY <1>3, AtCombines
  <2> HIDE DEF a, b
  <2>3. Plus(a, Times(MinusOne, b)) = Minus(a, b)
    <3>1. Times(MinusOne, b) = Minus(0, b)
      BY <2>1, MinusOneIs
    <3>2. Plus(a, Minus(0, b)) = Minus(a, b)
      BY <2>1, MinusAdds
    <3> QED  BY <3>1, <3>2
  <2>4. Minus(a, b) = 0 <=> a = b
    BY <2>1, Ring, ZeroOne
  <2> QED  BY <2>1, <2>2, <2>3, <2>4 DEF a, b
<1>5. \A i \in 1 .. n : pts[i] \in Elements /\ At(r, pts[i]) = 0
  <2> TAKE i \in 1 .. n
  <2>1. pts[i] \in Elements /\ At(L, pts[i]) = t[i]
    BY <1>1, LagrangeTakes
  <2>2. At(p, pts[i]) = t[i]
    BY DEF Takes
  <2> QED  BY <1>4, <2>1, <2>2
<1>6. AreRoots(pts, r, n)
  BY <1>5 DEF AreRoots, AreDistinct
<1>7. \A x \in Elements : At(r, x) = 0
  BY <1>3, <1>6, TooManyRoots
<1> QED  BY <1>1, <1>4, <1>7

-----------------------------------------------------------------------------
\* Interpolation.

\* The powers of the root of unity are as many points.
LEMMA SubgroupIs ==
  ASSUME NEW K \in 1 .. 30, NEW n, n = Two(K), (P - 1) % n = 0
  PROVE  /\ n \in Nat /\ n >= 2 /\ n <= P - 1 /\ IsRoot(PrimitiveRoot(n), K) /\ AreDistinct(TwoAdicDomain(n), n)
         /\ \A i \in 1 .. n : TwoAdicDomain(n)[i] = Power(PrimitiveRoot(n), i - 1)
<1> DEFINE w == PrimitiveRoot(n)
<1>1. IsRoot(w, K) /\ K \in 0 .. 30
  BY PrimitiveIsRoot
<1>2. /\ w \in Elements \ {0}
      /\ \A i, j \in 0 .. (n - 1) : Power(w, i) = Power(w, j) => i = j
  BY <1>1, RootsDistinct
<1>3. n \in Nat /\ n >= 2
  <2> DEFINE h == Two(K - 1)
  <2>1. h \in Nat /\ h > 0 /\ n = h + h
    BY TwoHalves
  <2> HIDE DEF h
  <2> QED  BY <2>1
<1>4. n <= P - 1
  <2>1. P - 1 \in Nat /\ P - 1 > 0
    BY FieldAssumption
  <2> DEFINE m == P - 1
  <2>2. m \in Nat /\ m > 0 /\ m % n = 0
    BY <2>1
  <2> HIDE DEF m
  <2>3. m < n => m % n = m
    BY <1>3, <2>2
  <2>4. n <= m
    BY <1>3, <2>2, <2>3
  <2> QED  BY <2>4 DEF m
<1>5. TwoAdicDomain(n) = [i \in 1 .. n |-> Power(w, i - 1)]
  BY DEF TwoAdicDomain
<1>6. \A i \in 1 .. n : Power(w, i - 1) \in Elements /\ i - 1 \in 0 .. (n - 1) /\ i - 1 \in Nat
  <2>1. \A i \in 1 .. n : i - 1 \in 0 .. (n - 1) /\ i - 1 \in Nat
    BY <1>3
  <2> QED  BY <1>2, <2>1, PowerTyped
<1> HIDE DEF w
<1>7. \A i, j \in 1 .. n : Power(w, i - 1) = Power(w, j - 1) => i = j
  <2> TAKE i, j \in 1 .. n
  <2> HAVE Power(w, i - 1) = Power(w, j - 1)
  <2>1. i - 1 = j - 1
    BY <1>2, <1>6
  <2> QED  BY <1>3, <2>1
<1>8. AreDistinct(TwoAdicDomain(n), n)
  BY <1>5, <1>6, <1>7 DEF AreDistinct
<1> QED  BY <1>1, <1>3, <1>4, <1>5, <1>8 DEF w

\* The interpolation over them takes the given values there, and so it is
\* the polynomial of Lagrange's formula (deep_ali.rs, interpolate_subgroup).
LEMMA SubgroupMeets ==
  ASSUME NEW K \in 1 .. 30, NEW n, n = Two(K), (P - 1) % n = 0, NEW t \in Vectors(n)
  PROVE  /\ InterpolateSubgroup(t) \in Vectors(n)
         /\ Takes(InterpolateSubgroup(t), TwoAdicDomain(n), t, n)
         /\ \A x \in Elements : At(InterpolateSubgroup(t), x) = Lagrange(TwoAdicDomain(n), t, x)
<1> DEFINE w == PrimitiveRoot(n)
           p == InterpolateSubgroup(t)
           d == TwoAdicDomain(n)
<1>1. /\ n \in Nat /\ IsRoot(w, K) /\ AreDistinct(d, n) /\ K \in 0 .. 30
      /\ \A i \in 1 .. n : d[i] = Power(w, i - 1)
  BY SubgroupIs
<1>2. Len(t) = n
  BY <1>1, VectorIsSeq DEF Vectors
<1>3. p = Ifft(t, w)
  BY <1>2 DEF InterpolateSubgroup
<1> HIDE DEF w
<1>4. Ifft(t, w) \in Vectors(n) /\ ValuesAt(t, Ifft(t, w), w, n)
  BY <1>1, IfftMeets
<1>5. p \in Vectors(n) /\ ValuesAt(t, p, w, n)
  BY <1>3, <1>4
<1> HIDE DEF p, d
<1>6. \A i \in 1 .. n : At(p, d[i]) = t[i]
  <2> TAKE i \in 1 .. n
  <2>1. i - 1 \in 0 .. (n - 1) /\ (i - 1) + 1 = i
    BY <1>1
  <2>2. t[(i - 1) + 1] = At(p, Power(w, i - 1))
    BY <1>5, <2>1 DEF ValuesAt
  <2> QED  BY <1>1, <2>1, <2>2
<1>7. Takes(p, d, t, n)
  BY <1>6 DEF Takes
<1>8. \A x \in Elements : At(p, x) = Lagrange(d, t, x)
  BY <1>1, <1>5, <1>7, LagrangeMeets
<1> QED  BY <1>5, <1>7, <1>8 DEF p, d

\* So is the one over 0 .. n-1.
LEMMA IntegersMeet ==
  ASSUME NEW n \in Nat, n <= P, NEW t \in Vectors(n), NEW x \in Elements
  PROVE  EvaluateCoeffs(InterpolateLagrangeNaive(t), x) = Lagrange([i \in 1 .. n |-> i - 1], t, x)
<1> DEFINE p == InterpolateLagrangeNaive(t)
           d == [i \in 1 .. n |-> i - 1]
<1>1. p \in Vectors(n)
  BY NaiveIs
<1>2. EvaluateCoeffs(p, x) = At(p, x)
  BY <1>1, Horner
<1>3. \A i \in 1 .. n : i - 1 \in Elements /\ i - 1 \in 0 .. (n - 1) /\ (i - 1) + 1 = i
  BY FieldAssumption DEF Elements
<1>4. AreDistinct(d, n)
  BY <1>3 DEF AreDistinct
<1>5. \A i \in 1 .. n : At(p, d[i]) = t[i]
  <2> TAKE i \in 1 .. n
  <2>1. At(p, i - 1) = t[(i - 1) + 1]
    BY <1>3, NaiveMeets
  <2> QED  BY <1>3, <2>1
<1> HIDE DEF p, d
<1>6. Takes(p, d, t, n)
  BY <1>5 DEF Takes
<1>7. At(p, x) = Lagrange(d, t, x)
  BY <1>1, <1>4, <1>6, LagrangeMeets
<1> QED  BY <1>2, <1>7 DEF p, d

\* A column of a request that is transformed.
LEMMA HeightIs ==
  ASSUME NEW r \in DeepRequests, GoodHeight(r.trace)
  PROVE  \E K \in 1 .. 30 : Len(r.trace) = Two(K) /\ (P - 1) % Two(K) = 0
<1> DEFINE n == Len(r.trace)
<1>1. n >= 2 /\ IsPowerOfTwo(n) /\ (P - 1) % n = 0
  BY HeightAssumption DEF GoodHeight
<1>2. r.trace \in Seq(Seq(Elements))
  BY FriClientsAssumption
<1>3. n \in Nat
  BY <1>2
<1> HIDE DEF n
<1>4. PICK K \in 0 .. 30 : n = Two(K)
  BY <1>1, <1>3, LogIs
<1>5. K # 0
  BY <1>1, <1>4, PowersOfTwo
<1>6. K \in 1 .. 30
  BY <1>5
<1> QED  BY <1>1, <1>4, <1>6 DEF n

\* Both interpolations of a column are Lagrange's.
LEMMA InterpolationsMeet == ClientInv => TransformsMeet
<1> SUFFICES ASSUME ClientInv, step = "requested", GoodHeight(deep.trace),
                    NEW c \in 0 .. (Len(deep.trace[1]) - 1), NEW x \in Elements
             PROVE  LET t == Column(deep.trace, c)
                        n == Len(t)
                    IN /\ EvaluateCoeffs(InterpolateSubgroup(t), x) = Lagrange(TwoAdicDomain(n), t, x)
                       /\ EvaluateColumn(deep.trace, c, x) = Lagrange([i \in 1 .. n |-> i - 1], t, x)
  BY DEF TransformsMeet
<1> DEFINE trace == deep.trace
           t == Column(trace, c)
           n == Len(trace)
           w == deep.num_columns
<1>1. deep \in DeepRequests
  BY DEF ClientInv
<1>2. PICK K \in 1 .. 30 : n = Two(K) /\ (P - 1) % Two(K) = 0
  BY <1>1, HeightIs
<1>3. n \in Nat /\ n >= 2 /\ n <= P - 1
  BY <1>2, SubgroupIs
<1>4. /\ trace \in Seq(Seq(Elements)) /\ w \in Nat
      /\ \A i \in DOMAIN trace : Len(trace[i]) = w
  BY <1>1, FriClientsAssumption
<1>5. c \in Nat /\ c < w
  <2>1. 1 \in DOMAIN trace
    BY <1>3, <1>4
  <2>2. Len(trace[1]) = w
    BY <1>4, <2>1
  <2> QED  BY <1>4, <2>2
<1>6. t \in Vectors(n) /\ Len(t) = n
  <2> HIDE DEF trace, w
  <2> QED  BY <1>4, <1>5, ColumnIs
<1>7. EvaluateColumn(trace, c, x) = EvaluateCoeffs(InterpolateLagrangeNaive(t), x)
  BY DEF EvaluateColumn
<1> HIDE DEF t, n
<1>8. n <= P
  BY <1>3, FieldAssumption
<1>9. EvaluateCoeffs(InterpolateLagrangeNaive(t), x) = Lagrange([i \in 1 .. n |-> i - 1], t, x)
  BY <1>3, <1>6, <1>8, IntegersMeet
<1>10. /\ InterpolateSubgroup(t) \in Vectors(n)
       /\ \A y \in Elements : At(InterpolateSubgroup(t), y) = Lagrange(TwoAdicDomain(n), t, y)
  BY <1>2, <1>6, SubgroupMeets
<1>11. EvaluateCoeffs(InterpolateSubgroup(t), x) = At(InterpolateSubgroup(t), x)
  BY <1>3, <1>10, Horner
<1>12. /\ EvaluateCoeffs(InterpolateSubgroup(t), x) = Lagrange(TwoAdicDomain(n), t, x)
       /\ EvaluateColumn(trace, c, x) = Lagrange([i \in 1 .. n |-> i - 1], t, x)
  BY <1>7, <1>9, <1>10, <1>11
<1> QED  BY <1>6, <1>12 DEF t

-----------------------------------------------------------------------------
\* The combined quotient.

\* q has the first m of the n coefficients of p, and the others are zero.
Shortens(q, p, m, n) ==
  /\ \A k \in 1 .. m : q[k] = p[k]
  /\ \A k \in 1 .. n : k > m => p[k] = 0

\* Then they are the same polynomial.
LEMMA ShorterAt ==
  ASSUME NEW n \in Nat, NEW m \in 0 .. n, NEW p \in Vectors(n), NEW q \in Vectors(m), Shortens(q, p, m, n),
         NEW x \in Elements
  PROVE  At(q, x) = At(p, x)
<1> DEFINE S == {k \in 0 .. n : AtTo(p, x, k) = IF k <= m THEN AtTo(q, x, k) ELSE At(q, x)}
<1>1. /\ AtTo(p, x, 0) = 0 /\ AtTo(p, x, n) = At(p, x)
      /\ \A k \in 0 .. n : AtTo(p, x, k) \in Elements
      /\ \A k \in 1 .. n : Power(x, k - 1) \in Elements /\ AtTo(p, x, k) = Plus(AtTo(p, x, k - 1), Times(p[k], Power(x, k - 1)))
  BY TermsAre
<1>2. /\ AtTo(q, x, 0) = 0 /\ AtTo(q, x, m) = At(q, x) /\ At(q, x) \in Elements
      /\ \A k \in 1 .. m : AtTo(q, x, k) = Plus(AtTo(q, x, k - 1), Times(q[k], Power(x, k - 1)))
  <2>1. m \in Nat
    OBVIOUS
  <2> QED  BY <2>1, TermsAre
<1>3. 0 \in S
  BY <1>1, <1>2
<1>4. \A k \in 1 .. n : k - 1 \in S => k \in S
  <2> TAKE k \in 1 .. n
  <2> HAVE k - 1 \in S
  <2>1. CASE k <= m
    <3>1. k \in 1 .. m /\ k - 1 <= m /\ k \in 0 .. n
      BY <2>1
    <3>2. AtTo(p, x, k - 1) = AtTo(q, x, k - 1)
      BY <3>1
    <3>3. q[k] = p[k]
      BY <3>1 DEF Shortens
    <3>4. AtTo(p, x, k) = AtTo(q, x, k)
      BY <1>1, <1>2, <3>1, <3>2, <3>3
    <3> QED  BY <2>1, <3>1, <3>4
  <2>2. CASE ~(k <= m)
    <3>1. p[k] = 0
      BY <2>2 DEF Shortens
    <3>2. AtTo(p, x, k - 1) = At(q, x)
      <4>1. k - 1 <= m => k - 1 = m
        BY <2>2
      <4> QED  BY <1>2, <4>1
    <3>3. Times(p[k], Power(x, k - 1)) = 0 /\ Plus(At(q, x), 0) = At(q, x)
      BY <1>1, <1>2, <3>1, Ring
    <3>4. AtTo(p, x, k) = At(q, x) /\ k \in 0 .. n
      BY <1>1, <3>2, <3>3
    <3> QED  BY <2>2, <3>4
  <2> QED  BY <2>1, <2>2
<1>5. n \in S
  <2> HIDE DEF S
  <2> QED  BY <1>3, <1>4, Up
<1>6. AtTo(p, x, n) = At(q, x)
  <2>1. n <= m => n = m
    OBVIOUS
  <2> QED  BY <1>2, <1>5, <2>1
<1> QED  BY <1>1, <1>6

\* Trimming leaves the zeros at the end off.
LEMMA TrimIs ==
  ASSUME NEW n \in Nat, NEW p \in Vectors(n)
  PROVE  \E m \in 0 .. n : Trim(p) \in Vectors(m) /\ Len(Trim(p)) = m /\ Shortens(Trim(p), p, m, n)
<1> DEFINE used == {k \in DOMAIN p : p[k] # 0}
           last == CHOOSE k \in used : \A j \in used : j <= k
<1>1. p \in [1 .. n -> Elements] /\ DOMAIN p = 1 .. n
  BY DEF Vectors
<1>2. used \subseteq 1 .. n
  BY <1>1
<1>z. \A k \in 1 .. n : k \notin used => p[k] = 0
  BY <1>1
<1>3. Trim(p) = IF used = {} THEN <<>> ELSE SubSeq(p, 1, last)
  BY DEF Trim
<1>4. CASE used = {}
  <2>1. Trim(p) = <<>> /\ 0 \in 0 .. n
    BY <1>3, <1>4
  <2>2. Trim(p) \in [1 .. 0 -> Elements] /\ Len(Trim(p)) = 0
    BY <2>1
  <2>3. \A k \in 1 .. n : p[k] = 0
    BY <1>4, <1>z
  <2>4. Shortens(Trim(p), p, 0, n)
    BY <2>3 DEF Shortens
  <2> QED  BY <2>1, <2>2, <2>4 DEF Vectors
<1>5. CASE used # {}
  <2> DEFINE T == {n - k : k \in used}
  <2>1. T \subseteq Nat /\ T # {}
    BY <1>2, <1>5
  <2> HIDE DEF used
  <2>2. PICK d \in T : \A e \in T : d <= e
    <3> HIDE DEF T
    <3> QED  BY <2>1, Least
  <2>3. PICK k \in used : d = n - k
    BY <2>2
  <2>4. \A j \in used : j <= k
    BY <1>2, <2>2, <2>3
  <2>5. last \in used /\ last \in 1 .. n /\ \A j \in used : j <= last
    BY <1>2, <2>4
  <2> HIDE DEF last
  <2>6. SubSeq(p, 1, last) = [i \in 1 .. last |-> p[i]]
    <3>1. p \in Seq(Elements) /\ Len(p) = n
      BY <1>1, VectorIsSeq
    <3>2. SubSeq(p, 1, last) = [i \in 1 .. (1 + last - 1) |-> p[i + 1 - 1]]
      BY <2>5, <3>1
    <3>3. 1 + last - 1 = last /\ \A i \in 1 .. last : i + 1 - 1 = i
      BY <2>5
    <3> QED  BY <3>2, <3>3
  <2> DEFINE v == [i \in 1 .. last |-> p[i]]
  <2>7. /\ v \in [1 .. last -> Elements] /\ last \in Nat /\ last \in 0 .. n
        /\ \A i \in 1 .. last : v[i] = p[i]
    BY <1>1, <2>5
  <2>8. Trim(p) = v
    BY <1>3, <1>5, <2>6
  <2> HIDE DEF v
  <2>9. Len(v) = last
    BY <2>7, VectorIsSeq
  <2>10. \A i \in 1 .. n : i > last => p[i] = 0
    BY <1>z, <2>5
  <2>11. Shortens(v, p, last, n)
    BY <2>7, <2>10 DEF Shortens
  <2> QED  BY <2>7, <2>8, <2>9, <2>11 DEF Vectors
<1> QED  BY <1>4, <1>5

\* A weighted sum of quotients has the weighted sum of their values.
LEMMA CombineAt ==
  ASSUME NEW m \in Nat, m > 0, NEW w \in Nat, NEW quotients \in [1 .. m -> Vectors(w)],
         NEW ws \in [1 .. m -> Elements], NEW x \in Elements
  PROVE  At(Combine(quotients, ws), x) = Total([q \in 1 .. m |-> Times(ws[q], At(quotients[q], x))])
<1>1. DOMAIN quotients = 1 .. m /\ DOMAIN quotients[1] = 1 .. w
  <2>1. 1 \in 1 .. m
    OBVIOUS
  <2>2. quotients[1] \in Vectors(w)
    BY <2>1
  <2> QED  BY <2>2 DEF Vectors
<1>2. \A j \in 1 .. w : Combine(quotients, ws)[j] = Total([q \in 1 .. m |-> Times(ws[q], quotients[q][j])])
  BY <1>1 DEF Combine
<1>3. Combine(quotients, ws) \in Vectors(w) /\ ws \in Vectors(m)
  BY CombineTyped DEF Vectors
<1> DEFINE r == Combine(quotients, ws)
<1> HIDE DEF r
<1>4. r \in Vectors(w) /\ \A j \in 1 .. w : r[j] = Total([q \in 1 .. m |-> Times(ws[q], quotients[q][j])])
  BY <1>2, <1>3 DEF r
<1>5. At(r, x) = Total([q \in 1 .. m |-> Times(ws[q], At(quotients[q], x))])
  BY <1>3, <1>4, AtTotal
<1> QED  BY <1>5 DEF r

\* Factors moved.
LEMMA SolvedStep ==
  ASSUME NEW d \in Elements, NEW s \in Elements, NEW i \in Elements
  PROVE  Times(Times(d, s), i) = Times(Times(d, i), s)
<1>1. /\ d \in Int /\ d % P = d
      /\ s \in Int /\ s % P = s
      /\ i \in Int /\ i % P = i
  BY OwnResidue, ZeroOne
<1>2. /\ d * s \in Int /\ Times(d, s) = (d * s) % P
      /\ d * i \in Int /\ Times(d, i) = (d * i) % P
  BY <1>1, Residues, SMTT(30)
<1>3. /\ (d * s) * i \in Int /\ Times(Times(d, s), i) = ((d * s) * i) % P
      /\ (d * i) * s \in Int /\ Times(Times(d, i), s) = ((d * i) * s) % P
  BY <1>1, <1>2, Residues, SMTT(30)
<1>4. /\ (d * s) * i = (d * i) * s
  BY <1>1
<1> QED  BY <1>3, <1>4


\* A quotient solved for.
LEMMA Solved ==
  ASSUME NEW d \in Elements \ {0}, NEW s \in Elements, NEW v \in Elements, NEW u \in Elements,
         u = Plus(Times(d, s), v)
  PROVE  s = Times(Minus(u, v), Inv(d))
<1> DEFINE i == Inv(d)
           a == Times(d, s)
<1>1. i \in Elements /\ Times(d, i) = 1
  BY InverseIs
<1>2. a \in Elements
  BY Typed
<1> HIDE DEF i
<1>3. Minus(Plus(a, v), v) = a
  <2> HIDE DEF a
  <2> QED  BY <1>2, TakenBack
<1>4. Times(a, i) = Times(Times(d, i), s)
  BY <1>1, SolvedStep
<1>5. Times(1, s) = s
  BY Ring
<1> QED  BY <1>1, <1>3, <1>4, <1>5 DEF i

\* The quotient of a column by a query tells (t(x) - t(z)) / (x - z) at the points.
LEMMA AnswerIs ==
  ASSUME NEW K \in 1 .. 30, NEW n, n = Two(K), (P - 1) % n = 0, NEW t \in Vectors(n), NEW z \in Elements
  PROVE  LET s == DivideByPoint(InterpolateSubgroup(t), z).quotient
             dom == TwoAdicDomain(n)
         IN /\ s \in Vectors(n - 1)
            /\ \A i \in 1 .. n : dom[i] # z =>
                 At(s, dom[i]) = Times(Minus(t[i], Lagrange(dom, t, z)), Inv(Minus(dom[i], z)))
<1> DEFINE p == InterpolateSubgroup(t)
           s == DivideByPoint(p, z).quotient
           dom == TwoAdicDomain(n)
<1>1. n \in Nat /\ n >= 2 /\ AreDistinct(dom, n)
  BY SubgroupIs
<1>2. p \in Vectors(n) /\ Takes(p, dom, t, n) /\ \A x \in Elements : At(p, x) = Lagrange(dom, t, x)
  BY SubgroupMeets
<1> HIDE DEF p, dom
<1>3. /\ s \in Vectors(n - 1)
      /\ \A x \in Elements : At(p, x) = Plus(Times(Minus(x, z), At(s, x)), At(p, z))
  BY <1>1, <1>2, DivideAt
<1> HIDE DEF s
<1>4. ASSUME NEW i \in 1 .. n, dom[i] # z
      PROVE  At(s, dom[i]) = Times(Minus(t[i], Lagrange(dom, t, z)), Inv(Minus(dom[i], z)))
  <2> DEFINE x == dom[i]
             d == Minus(x, z)
             a == At(s, x)
             v == At(p, z)
             u == t[i]
  <2>1. x \in Elements /\ x # z
    BY <1>1, <1>4 DEF AreDistinct
  <2>2. d \in Elements \ {0}
    BY <2>1, Ring, Typed
  <2>3. n - 1 \in Nat
    BY <1>1
  <2>4. a \in Elements /\ v \in Elements /\ u \in Elements
    <3>1. u \in Elements
      BY DEF Vectors
    <3>2. a \in Elements
      <4> HIDE DEF x
      <4> QED  BY <1>3, <2>1, <2>3, TermsAre
    <3>3. v \in Elements
      BY <1>1, <1>2, TermsAre
    <3> QED  BY <3>1, <3>2, <3>3
  <2>5. u = At(p, x)
    BY <1>2 DEF Takes
  <2>6. u = Plus(Times(d, a), v)
    BY <1>3, <2>1, <2>5
  <2>7. v = Lagrange(dom, t, z)
    BY <1>2
  <2> HIDE DEF d, a, v, u
  <2>8. a = Times(Minus(u, v), Inv(d))
    BY <2>2, <2>4, <2>6, Solved
  <2> QED  BY <2>7, <2>8 DEF a, u, d, x
<1> QED  BY <1>3, <1>4 DEF s, p, dom

\* The combined quotient p answers the queries of r under the weights ws.
Answers(r, ws, p) ==
  r.queries # <<>> =>
    LET qs == r.queries
        n == Len(r.trace)
        dom == TwoAdicDomain(n)
    IN /\ Len(p) < n
       /\ \A i \in 1 .. n :
            (\A q \in DOMAIN qs : qs[q].point # dom[i]) =>
              EvaluateCoeffs(p, dom[i]) =
                Total([q \in DOMAIN qs |->
                  LET t == Column(r.trace, qs[q].column)
                  IN Times(ws[q],
                           Times(Minus(t[i], Lagrange(dom, t, qs[q].point)),
                                 Inv(Minus(dom[i], qs[q].point))))])

\* A quotient that comes of queries comes of a trace that is transformed and
\* of columns that are there.
LEMMA QuotientComes ==
  ASSUME NEW r, NEW ws, QuotientResult(r, ws).status = "quotient", r.queries # <<>>
  PROVE  /\ GoodHeight(r.trace) /\ \A q \in DOMAIN r.queries : ~OutOfBounds(r, q)
         /\ QuotientResult(r, ws).value =
              Trim(Combine([q \in DOMAIN r.queries |-> SingleQuotient(r.trace, r.queries[q])], ws))
<1> DEFINE R(a, b, c) == [status |-> a, value |-> b, seen |-> c]
           qs == r.queries
           combined == Trim(Combine([q \in DOMAIN qs |-> SingleQuotient(r.trace, qs[q])], ws))
           good == GoodHeight(r.trace)
           there == \A q \in DOMAIN qs : ~OutOfBounds(r, q)
<1>1. \A a, b, c : R(a, b, c).status = a /\ R(a, b, c).value = b
  OBVIOUS
<1> DEFINE degree == IF combined = <<>> THEN 0 ELSE Len(combined) - 1
           seen == Cells(r.trace)
           drawn == seen \o [q \in DOMAIN qs |-> -1]
<1>2. QuotientResult(r, ws) =
        IF OutOfBounds(r, 1) THEN R("column", <<>>, seen)
        ELSE IF ~good THEN R("interpolation", <<>>, seen)
        ELSE IF ~there THEN R("column", <<>>, seen)
        ELSE IF degree >= r.max_degree THEN R("degree", <<>>, drawn)
        ELSE R("quotient", combined, drawn)
  BY DEF QuotientResult
<1> HIDE DEF R, good, there, combined, degree, seen, drawn
<1>3. good /\ there /\ QuotientResult(r, ws).value = combined
  BY <1>1, <1>2
<1> QED  BY <1>3 DEF good, there, combined

\* What the columns of a request are asked.
LEMMA QueriesAre ==
  ASSUME NEW r \in DeepRequests, \A q \in DOMAIN r.queries : ~OutOfBounds(r, q)
  PROVE  /\ Len(r.queries) \in Nat /\ DOMAIN r.queries = 1 .. Len(r.queries)
         /\ r.queries # <<>> => Len(r.queries) > 0
         /\ \A q \in 1 .. Len(r.queries) :
              /\ r.queries[q].point \in Elements
              /\ Column(r.trace, r.queries[q].column) \in Vectors(Len(r.trace))
<1> DEFINE V == [point : Elements, column : Nat, value : Elements]
           s == r.queries
           m == Len(s)
           w == r.num_columns
<1>1. /\ r.trace \in Seq(Seq(Elements)) /\ w \in Nat /\ s \in Seq(V)
      /\ \A i \in DOMAIN r.trace : Len(r.trace[i]) = w
  BY FriClientsAssumption
<1>2. \A v \in V : v.point \in Elements /\ v.column \in Nat
  OBVIOUS
<1> HIDE DEF V
<1>3. m \in Nat /\ DOMAIN s = 1 .. m /\ (s # <<>> => m > 0) /\ \A q \in 1 .. m : s[q] \in V
  <2> HIDE DEF s
  <2> QED  BY <1>1
<1>4. ASSUME NEW q \in 1 .. m
      PROVE  s[q].point \in Elements /\ Column(r.trace, s[q].column) \in Vectors(Len(r.trace))
  <2> DEFINE c == s[q].column
             trace == r.trace
  <2>1. c \in Nat /\ s[q].point \in Elements
    BY <1>2, <1>3
  <2>2. ~(c >= w)
    BY <1>3 DEF OutOfBounds
  <2> HIDE DEF c, w
  <2>3. c < w
    BY <1>1, <2>1, <2>2
  <2> HIDE DEF trace
  <2>4. trace \in Seq(Seq(Elements)) /\ \A i \in DOMAIN trace : Len(trace[i]) = w
    BY <1>1 DEF trace
  <2>5. Column(trace, c) \in Vectors(Len(trace))
    BY <1>1, <2>1, <2>3, <2>4, ColumnIs
  <2> QED  BY <2>1, <2>5 DEF c, trace
<1> QED  BY <1>3, <1>4

\* The least size is not above any other that is large enough.
LEMMA SizeIsLeast ==
  ASSUME NEW len \in Nat, NEW J \in 1 .. 30, len <= Two(J)
  PROVE  \E K \in 1 .. 30 : DomainSize(len) = Two(K) /\ len <= Two(K) /\ K <= J
<1> DEFINE sizes == {2^k : k \in 1 .. 30}
           S == {m \in sizes : m >= len}
<1>1. sizes = {Two(k) : k \in 1 .. 30}
  BY DEF Two
<1>2. \A k \in 1 .. 30 : Two(k) \in Nat
  BY PowersOfTwo
<1> HIDE DEF sizes
<1>3. sizes \subseteq Nat /\ Two(J) \in sizes
  BY <1>1, <1>2
<1>4. S \subseteq Nat /\ Two(J) \in S
  BY <1>3
<1>5. PICK n \in S : \A m \in S : n <= m
  <2> HIDE DEF S
  <2> QED  BY <1>4, Least
<1>6. n \in sizes /\ n >= len /\ \A m \in sizes : m >= len => n <= m
  BY <1>5
<1> DEFINE c == CHOOSE k \in sizes : k >= len /\ \A m \in sizes : m >= len => k <= m
<1>7. c \in sizes /\ c >= len /\ \A m \in sizes : m >= len => c <= m
  BY <1>6
<1>8. DomainSize(len) = c
  BY DEF DomainSize, sizes
<1> HIDE DEF c
<1>9. PICK K \in 1 .. 30 : c = Two(K)
  BY <1>1, <1>7
<1>10. len <= Two(K) /\ Two(K) <= Two(J)
  BY <1>2, <1>3, <1>7, <1>9
<1>11. K <= J
  <2>1. J < K => Two(J) < Two(K)
    <3>1. J \in 0 .. 30 /\ K \in 0 .. 30
      OBVIOUS
    <3> QED  BY <3>1, TwoIncreases
  <2> QED  BY <1>2, <1>10, <2>1
<1> QED  BY <1>8, <1>9, <1>10, <1>11

\* What a power of two divides, the smaller ones divide.
LEMMA SmallerDivides ==
  ASSUME NEW K \in 0 .. 30, NEW J \in 0 .. 30, K <= J, NEW m \in Nat, m % Two(J) = 0
  PROVE  m % Two(K) = 0
<1>1. J - K \in 0 .. 30 /\ K + (J - K) <= 30 /\ K + (J - K) = J
  OBVIOUS
<1> DEFINE a == Two(K)
           b == Two(J - K)
           c == Two(J)
<1>2. a \in Nat /\ a > 0 /\ b \in Nat /\ b > 0 /\ c \in Nat /\ c > 0
  BY <1>1, PowersOfTwo
<1>3. c = a * b
  BY <1>1, TwoAdds
<1> HIDE DEF a, b, c
<1>4. m = c * (m \div c) + (m % c) /\ m \div c \in Nat
  BY <1>2
<1> DEFINE d == m \div c
<1> HIDE DEF d
<1>5. m % c = 0
  BY DEF c
<1>6. m = c * d /\ d \in Nat
  BY <1>2, <1>4, <1>5 DEF d
<1>7. m = a * (b * d) + 0 /\ b * d \in Nat
  BY <1>2, <1>3, <1>6
<1>8. 0 \in 0 .. (a - 1)
  BY <1>2
<1> DEFINE e == b * d
<1> HIDE DEF e
<1>9. m = a * e + 0 /\ e \in Nat
  BY <1>7 DEF e
<1>10. m % a = 0
  BY <1>2, <1>8, <1>9
<1> QED  BY <1>10 DEF a

\* The domain of a quotient is a power of two that has a root of unity.
Rooted(p) ==
  p # <<>> => \E K \in 1 .. 30 : DomainSize(Len(p)) = Two(K) /\ Len(p) <= Two(K) /\ (P - 1) % Two(K) = 0

\* The quotient stage answers the queries, with a quotient that can be
\* committed to (deep_ali.rs, compute_deep_quotient).
LEMMA QuotientAnswers ==
  ASSUME NEW r \in DeepRequests, NEW ws \in [DOMAIN r.queries -> Elements],
         QuotientResult(r, ws).status = "quotient"
  PROVE  Answers(r, ws, QuotientResult(r, ws).value) /\ Rooted(QuotientResult(r, ws).value)
<1> DEFINE qs == r.queries
           m == Len(qs)
           trace == r.trace
           n == Len(trace)
           dom == TwoAdicDomain(n)
           T(q) == Column(trace, qs[q].column)
           z(q) == qs[q].point
           quotients == [q \in DOMAIN qs |-> SingleQuotient(trace, qs[q])]
           value == QuotientResult(r, ws).value
<1>1. CASE qs = <<>>
  <2> DEFINE R(a, b, c) == [status |-> a, value |-> b, seen |-> c]
  <2>1. R("quotient", <<>>, <<>>).value = <<>>
    OBVIOUS
  <2>2. QuotientResult(r, ws) = R("quotient", <<>>, <<>>)
    BY <1>1 DEF QuotientResult
  <2>3. value = <<>>
    BY <2>1, <2>2
  <2> QED  BY <1>1, <2>3 DEF Answers, Rooted
<1>2. CASE qs # <<>>
  <2>1. /\ GoodHeight(trace) /\ \A q \in DOMAIN qs : ~OutOfBounds(r, q)
        /\ value = Trim(Combine(quotients, ws))
    BY <1>2, QuotientComes
  <2>2. PICK K \in 1 .. 30 : n = Two(K) /\ (P - 1) % Two(K) = 0
    BY <2>1, HeightIs
  <2>3. n \in Nat /\ n >= 2 /\ n <= P - 1 /\ AreDistinct(dom, n)
    BY <2>2, SubgroupIs
  <2>4. /\ m \in Nat /\ DOMAIN qs = 1 .. m /\ m > 0
        /\ \A q \in 1 .. m : z(q) \in Elements /\ T(q) \in Vectors(n)
    BY <1>2, <2>1, QueriesAre
  <2>5. ASSUME NEW q \in 1 .. m
        PROVE  /\ quotients[q] \in Vectors(n - 1)
               /\ \A i \in 1 .. n : z(q) # dom[i] =>
                    At(quotients[q], dom[i]) = Times(Minus(T(q)[i], Lagrange(dom, T(q), z(q))), Inv(Minus(dom[i], z(q))))
    <3> DEFINE t == T(q)
               y == z(q)
    <3>1. quotients[q] = DivideByPoint(InterpolateSubgroup(t), y).quotient
      BY <2>4 DEF SingleQuotient
    <3>2. t \in Vectors(n) /\ y \in Elements
      BY <2>4
    <3> HIDE DEF t, y, quotients, T, z, n
    <3>3. /\ DivideByPoint(InterpolateSubgroup(t), y).quotient \in Vectors(n - 1)
          /\ \A i \in 1 .. n : dom[i] # y =>
               At(DivideByPoint(InterpolateSubgroup(t), y).quotient, dom[i])
                 = Times(Minus(t[i], Lagrange(dom, t, y)), Inv(Minus(dom[i], y)))
      BY <2>2, <3>2, AnswerIs
    <3> QED  BY <3>1, <3>3 DEF t, y
  <2>6. quotients \in [1 .. m -> Vectors(n - 1)] /\ ws \in [1 .. m -> Elements]
    <3>1. quotients = [q \in 1 .. m |-> quotients[q]]
      BY <2>4
    <3>2. \A q \in 1 .. m : quotients[q] \in Vectors(n - 1)
      BY <2>5
    <3> HIDE DEF quotients, n
    <3> QED  BY <2>4, <3>1, <3>2
  <2> HIDE DEF quotients
  <2>7. n - 1 \in Nat
    BY <2>3
  <2> DEFINE c == Combine(quotients, ws)
  <2> HIDE DEF n, m
  <2>8. c \in Vectors(n - 1) /\ \A x \in Elements : At(c, x) = Total([q \in 1 .. m |-> Times(ws[q], At(quotients[q], x))])
    BY <2>4, <2>6, <2>7, CombineTyped, CombineAt
  <2> HIDE DEF c
  <2>9. PICK l \in 0 .. (n - 1) : Trim(c) \in Vectors(l) /\ Len(Trim(c)) = l /\ Shortens(Trim(c), c, l, n - 1)
    BY <2>7, <2>8, TrimIs
  <2>10. value = Trim(c)
    BY <2>1 DEF c
  <2> HIDE DEF value
  <2>11. value \in Vectors(l) /\ Len(value) = l /\ l \in Nat /\ l < n
    BY <2>3, <2>9, <2>10
  <2>12. ASSUME NEW x \in Elements PROVE EvaluateCoeffs(value, x) = Total([q \in 1 .. m |-> Times(ws[q], At(quotients[q], x))])
    <3>1. At(value, x) = At(c, x)
      BY <2>7, <2>8, <2>9, <2>10, ShorterAt
    <3>2. EvaluateCoeffs(value, x) = At(value, x)
      BY <2>11, Horner
    <3> QED  BY <2>8, <3>1, <3>2
  <2> DEFINE answer(i, q) == Times(ws[q], Times(Minus(T(q)[i], Lagrange(dom, T(q), z(q))), Inv(Minus(dom[i], z(q)))))
  <2>13. ASSUME NEW i \in 1 .. n, \A q \in DOMAIN qs : z(q) # dom[i]
         PROVE  EvaluateCoeffs(value, dom[i]) = Total([q \in DOMAIN qs |-> answer(i, q)])
    <3>1. dom[i] \in Elements
      BY <2>3 DEF AreDistinct
    <3>2. \A q \in 1 .. m : Times(ws[q], At(quotients[q], dom[i])) = answer(i, q)
      <4> TAKE q \in 1 .. m
      <4>1. z(q) # dom[i]
        BY <2>4, <2>13
      <4>2. At(quotients[q], dom[i]) = Times(Minus(T(q)[i], Lagrange(dom, T(q), z(q))), Inv(Minus(dom[i], z(q))))
        BY <2>5, <4>1
      <4> QED  BY <4>2
    <3> HIDE DEF answer
    <3>3. [q \in 1 .. m |-> Times(ws[q], At(quotients[q], dom[i]))] = [q \in 1 .. m |-> answer(i, q)]
      BY <3>2
    <3> QED  BY <2>4, <2>12, <3>1, <3>3
  <2>14. Answers(r, ws, value)
    BY <2>11, <2>13 DEF Answers, n
  <2>15. Rooted(value)
    <3>1. l <= Two(K)
      <4>1. Two(K) = n
        BY <2>2 DEF n
      <4> QED  BY <2>3, <2>11, <4>1
    <3>2. PICK J \in 1 .. 30 : DomainSize(l) = Two(J) /\ l <= Two(J) /\ J <= K
      BY <2>11, <3>1, SizeIsLeast
    <3>3. J \in 0 .. 30 /\ K \in 0 .. 30 /\ P - 1 \in Nat
      BY FieldAssumption
    <3>4. (P - 1) % Two(J) = 0
      <4> DEFINE k == P - 1
      <4>1. k \in Nat /\ k % Two(K) = 0
        BY <2>2, <3>3
      <4> HIDE DEF k
      <4>2. k % Two(J) = 0
        BY <3>2, <3>3, <4>1, SmallerDivides
      <4> QED  BY <4>2 DEF k
    <3> QED  BY <2>11, <3>2, <3>4 DEF Rooted
  <2> QED  BY <2>14, <2>15 DEF value
<1> QED  BY <1>1, <1>2

\* What FRI begins with for a quotient: its values, on a domain that has every
\* point's negative and room for it.
Wired(q, d, l) ==
  /\ \A i \in DOMAIN d : l[i] = EvaluateCoeffs(q, d[i])
  /\ \A i \in 1 .. (Len(d) \div 2) : d[i + (Len(d) \div 2)] = Minus(0, d[i])
  /\ Len(d) >= Len(q)

\* The negative is half a turn away.
LEMMA HalfTurn ==
  ASSUME NEW K \in 1 .. 30, NEW w, IsRoot(w, K), NEW j \in Nat
  PROVE  Power(w, j + Two(K - 1)) = Minus(0, Power(w, j))
<1> DEFINE h == Two(K - 1)
           a == Power(w, j)
<1>1. h \in Nat
  BY TwoHalves
<1>2. w \in Elements /\ Power(w, h) = MinusOne
  BY DEF IsRoot
<1>3. a \in Elements
  BY <1>2, PowerTyped
<1> HIDE DEF h
<1>4. Power(w, j + h) = Times(a, MinusOne)
  BY <1>1, <1>2, PowerAdds
<1> HIDE DEF a
<1>5. Times(a, MinusOne) = Times(MinusOne, a) /\ Times(MinusOne, a) = Minus(0, a)
  BY <1>3, MinusOneIs, Ring
<1> QED  BY <1>4, <1>5 DEF a, h

\* The transform of the padded quotient is what FRI begins with
\* (deep_ali_fri.rs, deep_ali_fri_prove).
LEMMA WiredIs ==
  ASSUME IsQuotient(quotient), Rooted(quotient), quotient # <<>>, NEW n, n = DomainSize(Len(quotient))
  PROVE  /\ Wired(quotient, TwoAdicDomain(n), Fft(Padded(n), PrimitiveRoot(n)))
         /\ Len(Fft(Padded(n), PrimitiveRoot(n))) >= 2
<1> DEFINE l == Len(quotient)
           w == PrimitiveRoot(n)
           d == TwoAdicDomain(n)
           p == Padded(n)
           v == Fft(p, w)
<1>1. PICK K \in 1 .. 30 : n = Two(K) /\ l <= Two(K) /\ (P - 1) % Two(K) = 0
  BY DEF Rooted
<1>2. /\ n \in Nat /\ n >= 2 /\ IsRoot(w, K) /\ AreDistinct(d, n) /\ K \in 0 .. 30
      /\ \A i \in 1 .. n : d[i] = Power(w, i - 1)
  <2>1. n = Two(K) /\ (P - 1) % n = 0 /\ K \in 0 .. 30
    BY <1>1
  <2> QED  BY <2>1, SubgroupIs
<1>3. quotient \in Seq(Elements)
  BY DEF IsQuotient
<1>4. quotient \in Vectors(l) /\ l \in 0 .. n /\ DOMAIN quotient = 1 .. l
  <2>1. l \in Nat /\ quotient \in [1 .. l -> Elements] /\ DOMAIN quotient = 1 .. l
    BY <1>3, SeqIsVector
  <2> HIDE DEF l
  <2> QED  BY <1>1, <1>2, <2>1 DEF Vectors
<1>5. \A k \in 1 .. n : p[k] = IF k <= l THEN quotient[k] ELSE 0
  <2> TAKE k \in 1 .. n
  <2>1. p[k] = Coeff(quotient, k - 1) /\ (k - 1) + 1 = k
    BY <1>2 DEF Padded
  <2>2. Coeff(quotient, k - 1) = IF k \in 1 .. l THEN quotient[k] ELSE 0
    BY <1>2, <1>4, <2>1 DEF Coeff
  <2> HIDE DEF l, p
  <2> QED  BY <1>2, <1>4, <2>1, <2>2
<1>6. p \in Vectors(n) /\ Shortens(quotient, p, l, n)
  <2>1. \A k \in 1 .. l : k \in 1 .. n /\ k <= l
    <3> HIDE DEF l
    <3> QED  BY <1>2, <1>4
  <2>2. \A k \in 1 .. n : p[k] \in Elements
    <3> TAKE k \in 1 .. n
    <3>1. k <= l => k \in 1 .. l
      <4> HIDE DEF l
      <4> QED  BY <1>2, <1>4
    <3>2. k \in 1 .. l => quotient[k] \in Elements
      BY <1>4 DEF Vectors
    <3> QED  BY <1>5, <3>1, <3>2, ZeroOne
  <2>3. p \in Vectors(n)
    <3>1. p = [k \in 1 .. n |-> p[k]]
      BY DEF Padded
    <3> HIDE DEF p
    <3> QED  BY <2>2, <3>1 DEF Vectors
  <2>4. \A k \in 1 .. n : k > l => p[k] = 0
    <3> TAKE k \in 1 .. n
    <3> HAVE k > l
    <3>1. ~(k <= l)
      <4> HIDE DEF l
      <4> QED  BY <1>2, <1>4
    <3> QED  BY <1>5, <3>1
  <2>5. \A k \in 1 .. l : quotient[k] = p[k]
    BY <1>5, <2>1
  <2> HIDE DEF p, l
  <2> QED  BY <2>3, <2>4, <2>5 DEF Shortens
<1> HIDE DEF p, w, l, d
<1>7. v \in Vectors(n) /\ ValuesAt(v, p, w, n)
  <2>1. FftInPlace(p, w) \in Vectors(n) /\ ValuesAt(FftInPlace(p, w), p, w, n)
    BY <1>1, <1>2, <1>6, FftMeets
  <2> QED  BY <2>1 DEF Fft
<1> HIDE DEF v
<1>8. d \in [1 .. n -> Elements] /\ Len(d) = n /\ DOMAIN d = 1 .. n
  <2>1. d \in [1 .. n -> Elements]
    BY <1>2 DEF AreDistinct
  <2> QED  BY <1>2, <2>1, VectorIsSeq
<1>9. ASSUME NEW i \in 1 .. n PROVE v[i] = EvaluateCoeffs(quotient, d[i])
  <2>1. i - 1 \in 0 .. (n - 1) /\ (i - 1) + 1 = i
    BY <1>2
  <2>2. v[i] = At(p, d[i])
    BY <1>2, <1>7, <2>1 DEF ValuesAt
  <2> DEFINE x == d[i]
  <2>3. x \in Elements
    BY <1>8
  <2> HIDE DEF x
  <2>4. At(quotient, x) = At(p, x)
    BY <1>2, <1>4, <1>6, <2>3, ShorterAt
  <2>5. EvaluateCoeffs(quotient, x) = At(quotient, x)
    <3>1. l \in Nat
      BY <1>2, <1>4
    <3> QED  BY <1>4, <2>3, <3>1, Horner
  <2> QED  BY <2>2, <2>4, <2>5 DEF x
<1>10. ASSUME NEW i \in 1 .. (n \div 2) PROVE d[i + (n \div 2)] = Minus(0, d[i])
  <2> DEFINE h == Two(K - 1)
  <2>1. h \in Nat /\ n = h + h
    BY <1>1, TwoHalves
  <2> HIDE DEF h
  <2>2. n \div 2 = h
    BY <2>1
  <2>3. i \in 1 .. n /\ i + h \in 1 .. n /\ (i + h) - 1 = (i - 1) + h /\ i - 1 \in Nat
    BY <2>1, <2>2
  <2>4. d[i] = Power(w, i - 1) /\ d[i + h] = Power(w, (i - 1) + h)
    BY <1>2, <2>3
  <2>5. \A j \in Nat : Power(w, j + h) = Minus(0, Power(w, j))
    BY <1>2, HalfTurn DEF h
  <2> QED  BY <2>2, <2>3, <2>4, <2>5
<1>11. Len(d) >= Len(quotient)
  BY <1>2, <1>4, <1>8 DEF l
<1>12. Wired(quotient, d, v)
  BY <1>8, <1>9, <1>10, <1>11 DEF Wired
<1>13. Len(v) = n
  BY <1>2, <1>7, VectorIsSeq DEF Vectors
<1> QED  BY <1>2, <1>12, <1>13 DEF d, v, p, w

\* A quotient answers its queries; what FRI proves is the quotient, honestly;
\* and no proof of one was turned down.
DeepInv ==
  /\ step = "quotient" => Answers(deep, weights, quotient) /\ Rooted(quotient)
  /\ step = "proving" => /\ phase # "idle" /\ ~faulty /\ Len(layers[1]) >= 2
                         /\ Wired(quotient, domain, layers[1])
  /\ step # "rejected"

\* Nothing is computed at first.
LEMMA DeepInitially == Init => DeepInv
BY DEF Init, DeepInit, DeepInv

\* A wired quotient is what FRI commits to.
LEMMA WireKeeps ==
  ASSUME ClientInv, DeepInv, WireFri
  PROVE  DeepInv'
<1> DEFINE n == DomainSize(Len(quotient))
           evals == Fft(Padded(n), PrimitiveRoot(n))
           dom == TwoAdicDomain(n)
<1>1. /\ step = "quotient" /\ step' = "proving" /\ quotient # <<>> /\ UNCHANGED quotient
      /\ FriCommit(evals, dom, deep.nqueries, FALSE)
  BY DEF WireFri
<1>2. IsQuotient(quotient) /\ Rooted(quotient)
  BY <1>1 DEF ClientInv, DeepInv
<1>3. Wired(quotient, dom, evals) /\ Len(evals) >= 2
  BY <1>1, <1>2, WiredIs
<1> HIDE DEF evals, dom
<1>4. phase' = "committing" /\ faulty' = FALSE /\ domain' = dom /\ layers' = <<evals>>
  BY <1>1 DEF FriCommit
<1>5. layers'[1] = evals
  BY <1>4
<1>6. Wired(quotient', domain', layers'[1])
  BY <1>1, <1>3, <1>4, <1>5
<1> QED  BY <1>1, <1>3, <1>4, <1>5, <1>6 DEF DeepInv

\* A step of FRI leaves what it began with.
LEMMA ProveKeeps ==
  ASSUME ClientInv, DeepInv, ProveFri
  PROVE  DeepInv'
<1>1. step = "proving" /\ FriNext /\ UNCHANGED <<step, quotient>>
  BY DEF ProveFri, deepVars
<1>2. FriInv /\ phase # "idle" /\ ~faulty /\ Len(layers[1]) >= 2 /\ Wired(quotient, domain, layers[1])
  BY <1>1 DEF ClientInv, DeepInv
<1>3. phase' # "idle" /\ faulty' = faulty /\ layers'[1] = layers[1]
  BY <1>1, <1>2, FirstLayerStays
<1>4. UNCHANGED domain
  BY <1>1 DEF FriNext, FriFold, FriQuery, FriFinish
<1>5. Wired(quotient', domain', layers'[1])
  BY <1>1, <1>2, <1>3, <1>4
<1> QED  BY <1>1, <1>2, <1>3, <1>5 DEF DeepInv

\* Its verifier accepts.
LEMMA VerifyKeeps ==
  ASSUME ClientInv, DeepInv, VerifyFri
  PROVE  DeepInv'
<1>1. PICK accept \in BOOLEAN : Verified(accept) /\ step' = IF accept THEN "accepted" ELSE "rejected"
  BY DEF VerifyFri
<1>2. step = "proving" /\ phase = "proved"
  BY DEF VerifyFri
<1>3. FriInv /\ ~faulty /\ Len(layers[1]) >= 2
  BY <1>2 DEF ClientInv, DeepInv
<1>4. accept <=> Len(layers[1]) >= 2
  BY <1>1, <1>2, <1>3, HonestIsAccepted
<1>5. step' = "accepted"
  BY <1>1, <1>3, <1>4
<1> QED  BY <1>5 DEF DeepInv

\* A quotient that is computed answers.
LEMMA ComputeKeeps ==
  ASSUME ClientInv, ComputeDeepQuotient
  PROVE  DeepInv'
<1>1. PICK ws \in [DOMAIN deep.queries -> Elements] :
        /\ step' = QuotientResult(deep, ws).status
        /\ quotient' = QuotientResult(deep, ws).value
        /\ weights' = ws
  BY DEF ComputeDeepQuotient
<1>2. step = "requested" /\ UNCHANGED deep
  BY DEF ComputeDeepQuotient
<1>3. deep \in DeepRequests
  BY <1>2 DEF ClientInv
<1>4. step' \in {"quotient", "column", "interpolation", "degree"}
  BY <1>1, StatusIsNone
<1>5. ASSUME step' = "quotient" PROVE Answers(deep', weights', quotient') /\ Rooted(quotient')
  <2>1. /\ Answers(deep, ws, QuotientResult(deep, ws).value)
        /\ Rooted(QuotientResult(deep, ws).value)
    BY <1>1, <1>3, <1>5, QuotientAnswers
  <2> QED  BY <1>1, <1>2, <2>1
<1> QED  BY <1>4, <1>5 DEF DeepInv

\* Every step keeps the invariant: but for the five, nobody is near.
LEMMA DeepStep == ClientInv /\ RunInv /\ DeepInv /\ [Next]_vars => DeepInv'
<1> SUFFICES ASSUME ClientInv, RunInv, DeepInv, [Next]_vars PROVE DeepInv'
  OBVIOUS
<1>1. ASSUME step' \notin {"quotient", "proving", "rejected"} PROVE DeepInv'
  BY <1>1 DEF DeepInv
<1>2. CASE PlainFri
  <2>1. step' = "idle"
    BY <1>2 DEF PlainFri, RunInv, deepVars
  <2> QED  BY <1>1, <2>1
<1>3. CASE DeepNext
  <2>1. CASE GateDenies \/ QuotientAbsent \/ NextBatch
    BY <1>1, <2>1 DEF GateDenies, QuotientAbsent, NextBatch
  <2>2. CASE ComputeDeepQuotient
    BY <2>2, ComputeKeeps
  <2>3. CASE WireFri
    BY <2>3, WireKeeps
  <2>4. CASE ProveFri
    BY <2>4, ProveKeeps
  <2>5. CASE VerifyFri
    BY <2>5, VerifyKeeps
  <2>6. ASSUME NEW side \in Sides, NEW bits \in Bits, Consume(side, bits) PROVE DeepInv'
    BY <1>1, <2>6 DEF Consume
  <2>7. ASSUME NEW side \in Sides, Reset(side) PROVE DeepInv'
    BY <1>1, <2>7 DEF Reset
  <2>8. ASSUME NEW open \in BOOLEAN, VerifyDeepBatch(open) PROVE DeepInv'
    <3> DEFINE bad == {l \in DOMAIN deep.links : LinkResult(deep, deep.links[l]) # "ok"}
               first == CHOOSE l \in bad : \A m \in bad : l <= m
    <3>1. step' \in {"depleted", "column", "batch_ok", "owsl_halt", LinkResult(deep, deep.links[first])}
      BY <2>8 DEF VerifyDeepBatch
    <3> HIDE DEF bad, first
    <3>2. LinkResult(deep, deep.links[first]) \in {"column", "point", "violated", "ok"}
      BY LinkStatus
    <3> QED  BY <1>1, <3>1, <3>2
  <2> QED  BY <1>3, <2>1, <2>2, <2>3, <2>4, <2>5, <2>6, <2>7, <2>8 DEF DeepNext
<1>4. CASE TelemetryNext /\ UNCHANGED deepVars
  <2>1. stage # "idle"
    BY <1>4 DEF TelemetryNext, Tick, Refuse, BeginProving, BeginFri, RunFri, Serialize, BeginVerify,
                FinishVerify, GitCommit, PackRefs, ReadHead, ReadRef, ReadPackedRefs, EmitFails,
                EmitArtifact, Deliver, Reread
  <2>2. step' = "idle"
    BY <1>4, <2>1 DEF RunInv, deepVars
  <2> QED  BY <1>1, <2>2
<1>5. CASE UNCHANGED <<friVars, deepVars>>
  BY <1>5 DEF DeepInv, friVars, deepVars
<1> QED  BY <1>2, <1>3, <1>4, <1>5 DEF Next, vars

\* The invariant gives the property.
LEMMA DeepBinds == DeepInv => DeepQuotientBinds
<1> SUFFICES ASSUME DeepInv PROVE DeepQuotientBinds
  OBVIOUS
<1>1. QuotientAnswersQueries
  BY DEF DeepInv, Answers, QuotientAnswersQueries
<1>2. CommittedIsQuotient
  BY DEF DeepInv, Wired, CommittedIsQuotient
<1> QED  BY <1>1, <1>2 DEF DeepQuotientBinds

\* From the queries to the commitment the DEEP path has one polynomial, which
\* answers the queries and whose proof its verifier accepts (deep_ali.rs,
\* deep_ali_fri.rs).
THEOREM QuotientBinds == Spec => []DeepQuotientBinds
<1>1. Spec => [](ClientInv /\ RunInv)
  <2>1. Init => ClientInv /\ RunInv
    BY ClientInitially, RunInitially
  <2>2. ClientInv /\ RunInv /\ [Next]_vars => (ClientInv /\ RunInv)'
    BY ClientStep, RunStep
  <2> QED  BY <2>1, <2>2, PTL DEF Spec
<1>2. Spec => []DeepInv
  BY <1>1, DeepInitially, DeepStep, PTL DEF Spec
<1> QED  BY <1>2, DeepBinds, PTL

-----------------------------------------------------------------------------
\* Folds.

\* A half and a half.
LEMMA HalfHalf == Inv(2) \in Elements /\ Plus(Inv(2), Inv(2)) = 1
<1> DEFINE s == Inv(2)
<1>1. 2 \in Elements \ {0}
  BY FieldAssumption DEF Elements
<1>2. s \in Elements /\ Times(2, s) = 1
  BY <1>1, InverseIs
<1>3. s \in Int
  BY <1>2, OwnResidue
<1> HIDE DEF s
<1>4. 2 * s = s + s
  BY <1>3
<1> QED  BY <1>2, <1>4 DEF Times, Plus, s

\* The sum and the difference of the values at x and -x.
LEMMA HalvesMeet ==
  ASSUME NEW E \in Elements, NEW y \in Elements, NEW s \in Elements
  PROVE  /\ Times(Plus(Plus(E, y), Minus(E, y)), s) = Times(E, Plus(s, s))
         /\ Times(Minus(Plus(E, y), Minus(E, y)), s) = Times(y, Plus(s, s))
<1>1. /\ E \in Int /\ E % P = E
      /\ y \in Int /\ y % P = y
      /\ s \in Int /\ s % P = s
  BY OwnResidue, ZeroOne
<1>2. /\ E + y \in Int /\ Plus(E, y) = (E + y) % P
      /\ E - y \in Int /\ Minus(E, y) = (E - y) % P
      /\ s + s \in Int /\ Plus(s, s) = (s + s) % P
  BY <1>1, Residues, SMTT(30)
<1>3. /\ (E + y) + (E - y) \in Int /\ Plus(Plus(E, y), Minus(E, y)) = ((E + y) + (E - y)) % P
      /\ E * (s + s) \in Int /\ Times(E, Plus(s, s)) = (E * (s + s)) % P
      /\ (E + y) - (E - y) \in Int /\ Minus(Plus(E, y), Minus(E, y)) = ((E + y) - (E - y)) % P
      /\ y * (s + s) \in Int /\ Times(y, Plus(s, s)) = (y * (s + s)) % P
  BY <1>1, <1>2, Residues, SMTT(30)
<1>4. ((E + y) + (E - y)) * s \in Int /\ Times(Plus(Plus(E, y), Minus(E, y)), s) = (((E + y) + (E - y)) * s) % P
  BY <1>1, <1>3, Residues, SMTT(30)
<1>5. ((E + y) - (E - y)) * s \in Int /\ Times(Minus(Plus(E, y), Minus(E, y)), s) = (((E + y) - (E - y)) * s) % P
  BY <1>1, <1>3, Residues, SMTT(30)
<1>6. /\ ((E + y) + (E - y)) * s = E * (s + s)
      /\ ((E + y) - (E - y)) * s = y * (s + s)
  BY <1>1
<1> QED  BY <1>3, <1>4, <1>5, <1>6


\* What the fold makes of the values at x and -x of E + x O.
LEMMA FoldValue ==
  ASSUME NEW E \in Elements, NEW O \in Elements, NEW x \in Elements \ {0}, NEW beta \in Elements,
         NEW a, NEW b, a = Plus(E, Times(O, x)), b = Minus(E, Times(O, x))
  PROVE  Plus(Times(Plus(a, b), Inv(2)), Times(beta, Times(Times(Minus(a, b), Inv(2)), Inv(x))))
           = Plus(E, Times(beta, O))
<1> DEFINE s == Inv(2)
           y == Times(O, x)
           i == Inv(x)
<1>1. s \in Elements /\ Plus(s, s) = 1
  BY HalfHalf
<1>2. y \in Elements
  BY Typed
<1>3. i \in Elements /\ Times(x, i) = 1
  BY InverseIs
<1>4. Times(y, i) = O
  <2> HIDE DEF i
  <2>1. Times(Times(O, x), i) = Times(O, Times(x, i))
    BY <1>3, Ring
  <2> QED  BY <1>3, <2>1, Ring
<1> HIDE DEF s, y, i
<1>5. Times(Plus(a, b), s) = Times(E, Plus(s, s)) /\ Times(Minus(a, b), s) = Times(y, Plus(s, s))
  <2>1. a = Plus(E, y) /\ b = Minus(E, y)
    BY DEF y
  <2> QED  BY <1>1, <1>2, <2>1, HalvesMeet
<1>6. Times(E, 1) = E /\ Times(y, 1) = y
  BY <1>2, Ring, ZeroOne
<1>7. Times(Plus(a, b), s) = E /\ Times(Minus(a, b), s) = y
  BY <1>1, <1>5, <1>6
<1>8. Plus(Times(Plus(a, b), s), Times(beta, Times(Times(Minus(a, b), s), i))) = Plus(E, Times(beta, O))
  BY <1>4, <1>7
<1> QED  BY <1>8 DEF s, i

\* The points are the powers of w.
PowersOf(d, w, n) == \A i \in 1 .. n : d[i] = Power(w, i - 1)

\* The even coefficients of p and beta times the odd ones.
FoldedPoly(p, beta) == [k \in 1 .. (Len(p) \div 2) |-> Plus(p[2 * k - 1], Times(beta, p[2 * k]))]

\* A fold halves the polynomial behind the values at the powers of a root
\* (oracle-layer/src/fri.rs, fri_fold_step).
LEMMA FoldMeets ==
  ASSUME NEW K \in 1 .. 30, NEW h, h = Two(K - 1), NEW e \in Vectors(h + h), NEW w, IsRoot(w, K),
         NEW d \in Points(h + h), PowersOf(d, w, h + h), NEW beta \in Elements
  PROVE  \A i \in 1 .. h :
           FoldStep(e, d, beta)[i] = EvaluateCoeffs(FoldedPoly(Ifft(e, w), beta), Times(d[i], d[i]))
<1> DEFINE n == h + h
           p == Ifft(e, w)
           f == FoldedPoly(p, beta)
           ev == [k \in 1 .. h |-> p[2 * k - 1]]
           od == [k \in 1 .. h |-> p[2 * k]]
<1>1. h \in Nat /\ h > 0 /\ Two(K) = n /\ K \in 0 .. 30
  BY TwoHalves
<1>2. p \in Vectors(n) /\ ValuesAt(e, p, w, n)
  <2>1. e \in Vectors(Two(K))
    BY <1>1
  <2>2. Ifft(e, w) \in Vectors(Two(K)) /\ ValuesAt(e, Ifft(e, w), w, Two(K))
    BY <1>1, <2>1, IfftMeets
  <2> QED  BY <1>1, <2>2
<1> HIDE DEF p
<1>3. \A k \in 1 .. h : 2 * k - 1 \in 1 .. n /\ 2 * k \in 1 .. n
  BY <1>1
<1>4. \A k \in 1 .. h : p[2 * k - 1] \in Elements /\ p[2 * k] \in Elements
  BY <1>2, <1>3 DEF Vectors
<1>5. ev \in Vectors(h) /\ od \in Vectors(h) /\ AreHalves(p, ev, od, h)
  BY <1>4 DEF Vectors, AreHalves
<1>6. Len(p) = n /\ n \div 2 = h
  <2>1. p \in [1 .. n -> Elements] /\ n \in Nat
    BY <1>1, <1>2 DEF Vectors
  <2>2. Len(p) = n
    <3> HIDE DEF n
    <3> QED  BY <2>1, VectorIsSeq
  <2> QED  BY <1>1, <2>2
<1>7. f = [k \in 1 .. h |-> Plus(p[2 * k - 1], Times(beta, p[2 * k]))]
  BY <1>6 DEF FoldedPoly
<1>8. f \in Vectors(h)
  <2>1. \A k \in 1 .. h : Plus(p[2 * k - 1], Times(beta, p[2 * k])) \in Elements
    BY <1>4, Typed
  <2> HIDE DEF f
  <2> QED  BY <1>7, <2>1 DEF Vectors
<1>9. Combines(f, ev, beta, od, h)
  <2>1. \A k \in 1 .. h : f[k] = Plus(p[2 * k - 1], Times(beta, p[2 * k])) /\ ev[k] = p[2 * k - 1] /\ od[k] = p[2 * k]
    <3> HIDE DEF f
    <3> QED  BY <1>7
  <2> HIDE DEF f, ev, od
  <2> QED  BY <2>1 DEF Combines
<1> HIDE DEF f, ev, od
<1>10. ASSUME NEW i \in 1 .. h PROVE FoldStep(e, d, beta)[i] = EvaluateCoeffs(f, Times(d[i], d[i]))
  <2> DEFINE x == d[i]
             y == Minus(0, x)
             a == e[i]
             b == e[i + h]
             sq == Times(x, x)
             E == At(ev, sq)
             O == At(od, sq)
  <2>1. x \in Elements \ {0} /\ y \in Elements /\ sq \in Elements
    <3>1. i \in 1 .. n
      BY <1>1
    <3>2. x \in Elements \ {0}
      BY <3>1 DEF Points
    <3> HIDE DEF x
    <3> QED  BY <3>2, Typed, ZeroOne
  <2>2. E \in Elements /\ O \in Elements
    <3> HIDE DEF sq
    <3> QED  BY <1>1, <1>5, <2>1, TermsAre
  <2>3. x = Power(w, i - 1) /\ y = Power(w, (i - 1) + h) /\ a = At(p, x) /\ b = At(p, y)
    <3>1. /\ i \in 1 .. n /\ i - 1 \in 0 .. (n - 1) /\ (i - 1) + 1 = i /\ i - 1 \in Nat
          /\ (i - 1) + h \in 0 .. (n - 1) /\ ((i - 1) + h) + 1 = i + h
      BY <1>1
    <3>2. x = Power(w, i - 1)
      BY <3>1 DEF PowersOf
    <3>3. Power(w, (i - 1) + h) = Minus(0, Power(w, i - 1))
      BY <3>1, HalfTurn
    <3>4. e[(i - 1) + 1] = At(p, Power(w, i - 1)) /\ e[((i - 1) + h) + 1] = At(p, Power(w, (i - 1) + h))
      BY <1>2, <3>1 DEF ValuesAt
    <3> QED  BY <3>1, <3>2, <3>3, <3>4
  <2> HIDE DEF x
  <2>4. Times(y, y) = sq /\ Plus(E, Times(y, O)) = Minus(E, Times(O, x)) /\ Plus(E, Times(x, O)) = Plus(E, Times(O, x))
    <3> HIDE DEF E, O
    <3> QED  BY <2>1, <2>2, MinusHalves
  <2>5. At(p, x) = Plus(E, Times(x, O))
    BY <1>1, <1>2, <1>5, <2>1, AtHalves
  <2>6. At(p, y) = Plus(E, Times(y, O))
    <3> HIDE DEF y
    <3>1. At(p, y) = Plus(At(ev, Times(y, y)), Times(y, At(od, Times(y, y))))
      BY <1>1, <1>2, <1>5, <2>1, AtHalves
    <3> QED  BY <2>4, <3>1
  <2>7. a = Plus(E, Times(O, x)) /\ b = Minus(E, Times(O, x))
    BY <2>3, <2>4, <2>5, <2>6
  <2>8. FoldStep(e, d, beta)[i] = Plus(Times(Plus(a, b), Inv(2)), Times(beta, Times(Times(Minus(a, b), Inv(2)), Inv(x))))
    <3>1. e \in [1 .. (h + h) -> Elements]
      BY DEF Vectors
    <3> QED  BY <1>1, <3>1, FoldStepTyped DEF x
  <2> HIDE DEF a, b, E, O, sq
  <2>9. FoldStep(e, d, beta)[i] = Plus(E, Times(beta, O))
    BY <2>1, <2>2, <2>7, <2>8, FoldValue
  <2>10. At(f, sq) = Plus(At(ev, sq), Times(beta, At(od, sq)))
    BY <1>1, <1>5, <1>8, <1>9, <2>1, AtCombines
  <2>11. EvaluateCoeffs(f, sq) = At(f, sq)
    BY <1>1, <1>8, <2>1, Horner
  <2> QED  BY <2>9, <2>10, <2>11 DEF E, O, sq, x
<1> QED  BY <1>10 DEF f, p

\* A domain that a caller gave as it should is the powers of a root of its size.
LEMMA RootDomainIs ==
  ASSUME NEW K \in 1 .. 30, NEW dom \in Points(Two(K)), RootDomain(dom)
  PROVE  IsRoot(dom[2], K) /\ PowersOf(dom, dom[2], Two(K))
<1> DEFINE n == Two(K)
           h == Two(K - 1)
<1>1. h \in Nat /\ h > 0 /\ n = h + h /\ K \in 0 .. 30
  BY TwoHalves
<1>2. IsPowerOfTwo(n)
  BY <1>1 DEF IsPowerOfTwo, Two
<1>3. dom \in [1 .. n -> Elements \ {0}]
  BY DEF Points
<1> HIDE DEF n, h
<1>4. n >= 2 /\ n \in Nat /\ n \div 2 = h /\ 2 \in 1 .. n
  BY <1>1
<1>5. Len(dom) = n /\ DOMAIN dom = 1 .. n /\ dom[2] \in Elements \ {0}
  BY <1>3, <1>4
<1>6. /\ Power(dom[2], h) = Minus(0, 1)
      /\ \A i \in 1 .. n : dom[i] = Power(dom[2], i - 1)
  BY <1>2, <1>4, <1>5 DEF RootDomain
<1>7. IsRoot(dom[2], K)
  <2>1. K # 0
    OBVIOUS
  <2> QED  BY <1>5, <1>6, <2>1 DEF IsRoot, MinusOne, h
<1> QED  BY <1>6, <1>7 DEF PowersOf, n

\* The powers of w, squared, are the powers of w^2.
LEMMA SquaresOf ==
  ASSUME NEW K \in 1 .. 30, NEW d \in Points(Two(K)), NEW w, IsRoot(w, K), PowersOf(d, w, Two(K))
  PROVE  /\ PowersOf(FoldDomain(d), Times(w, w), Two(K - 1))
         /\ \A i \in 1 .. Two(K - 1) : FoldDomain(d)[i] = Times(d[i], d[i])
<1> DEFINE n == Two(K)
           h == Two(K - 1)
<1>1. h \in Nat /\ n = h + h /\ n \div 2 = h
  <2>1. h \in Nat /\ n = h + h
    BY TwoHalves
  <2> HIDE DEF n, h
  <2> QED  BY <2>1
<1>2. d \in [1 .. n -> Elements \ {0}]
  BY DEF Points
<1>3. PowersOf(d, w, n) /\ w \in Elements
  BY DEF IsRoot
<1> HIDE DEF n, h
<1>4. Len(d) = n
  BY <1>1, <1>2
<1>5. FoldDomain(d) = [i \in 1 .. h |-> Times(d[i], d[i])]
  BY <1>1, <1>4 DEF FoldDomain
<1>6. \A i \in 1 .. h : FoldDomain(d)[i] = Power(Times(w, w), i - 1)
  <2> TAKE i \in 1 .. h
  <2>1. i \in 1 .. n /\ i - 1 \in Nat
    BY <1>1
  <2>2. d[i] = Power(w, i - 1)
    BY <1>3, <2>1 DEF PowersOf
  <2>3. Power(Times(w, w), i - 1) = Times(Power(w, i - 1), Power(w, i - 1))
    BY <1>3, <2>1, PowerTimes
  <2> QED  BY <1>5, <2>2, <2>3
<1> QED  BY <1>5, <1>6 DEF PowersOf, h

\* Every round's domain is the powers of a root of its size.
RoundRoot(K, dom, k) ==
  \E u : IsRoot(u, K - k) /\ PowersOf(Domains(dom, K)[k + 1], u, Two(K - k))

\* Folding a domain of powers of a root leaves one.
LEMMA RoundRoots ==
  ASSUME NEW K \in 0 .. 30, NEW dom \in Points(Two(K)), NEW w, IsRoot(w, K), PowersOf(dom, w, Two(K))
  PROVE  \A k \in 0 .. K : RoundRoot(K, dom, k)
<1>1. /\ dom \in Seq(Elements) /\ K \in Nat
      /\ \A r \in 1 .. (K + 1) : Domains(dom, K)[r] \in Points(Two(K - (r - 1)))
  <2>1. K \in Nat
    OBVIOUS
  <2> QED  BY <2>1, DomainIs
<1>2. /\ Domains(dom, K)[1] = dom
      /\ \A r \in 1 .. K : Domains(dom, K)[r + 1] = FoldDomain(Domains(dom, K)[r])
  BY <1>1, DomainsAre
<1> DEFINE S == {k \in 0 .. K : RoundRoot(K, dom, k)}
<1>3. 0 \in S
  <2>1. K - 0 = K /\ 0 + 1 = 1 /\ 0 \in 0 .. K
    BY <1>1
  <2>2. IsRoot(w, K - 0) /\ PowersOf(Domains(dom, K)[0 + 1], w, Two(K - 0))
    BY <1>2, <2>1
  <2> QED  BY <2>1, <2>2 DEF RoundRoot
<1>4. \A k \in 1 .. K : k - 1 \in S => k \in S
  <2> TAKE k \in 1 .. K
  <2> HAVE k - 1 \in S
  <2> DEFINE J == K - (k - 1)
             d == Domains(dom, K)[k]
  <2>1. (k - 1) + 1 = k /\ J \in 1 .. 30 /\ K - k = J - 1 /\ k \in 1 .. (K + 1)
    BY <1>1
  <2>2. PICK u : IsRoot(u, J) /\ PowersOf(d, u, Two(J))
    BY <2>1 DEF RoundRoot
  <2>3. d \in Points(Two(J)) /\ Domains(dom, K)[k + 1] = FoldDomain(d)
    BY <1>1, <1>2, <2>1
  <2> HIDE DEF d, J
  <2>4. IsRoot(Times(u, u), J - 1)
    BY <2>1, <2>2, RootSquares
  <2>5. PowersOf(FoldDomain(d), Times(u, u), Two(J - 1))
    BY <2>1, <2>2, <2>3, SquaresOf
  <2>6. IsRoot(Times(u, u), K - k) /\ PowersOf(Domains(dom, K)[k + 1], Times(u, u), Two(K - k))
    BY <2>1, <2>3, <2>4, <2>5
  <2>7. RoundRoot(K, dom, k)
    BY <2>6 DEF RoundRoot
  <2> QED  BY <2>7
<1> HIDE DEF S
<1>5. \A k \in 0 .. K : k \in S
  BY <1>1, <1>3, <1>4, Up
<1> QED  BY <1>5 DEF S

\* In a domain of powers of a root, a layer that was folded honestly holds the
\* values of the folded polynomial.
LEMMA HonestFoldsHalve ==
  ASSUME FriInv, phase # "idle", RootDomain(domain)
  PROVE  FoldHalvesPolynomial
<1> SUFFICES ASSUME phase = "committing", betas # <<>>, ~faulty PROVE FoldHalvesPolynomial
  BY DEF FoldHalvesPolynomial
<1>1. PICK K \in 0 .. 30 : FriTyped(K) /\ FriHonest(K)
  BY DEF FriInv
<1> DEFINE r == Len(betas)
           J == K - (r - 1)
           d == Domains(domain, K)[r]
           next == FoldStep(layers[r], d, betas[r])
<1>2. /\ betas \in Seq(Elements) /\ r = Len(layers) - 1 /\ Len(layers) \in 1 .. (K + 1)
      /\ domain \in Points(Two(K)) /\ \A s \in 1 .. Len(layers) : layers[s] \in Layer(K, s)
  BY <1>1 DEF FriTyped
<1>3. r \in Nat /\ r >= 1
  BY <1>2
<1>4. /\ K \in 1 .. 30 /\ J \in 1 .. 30 /\ r \in 1 .. K /\ r + 1 = Len(layers)
      /\ r \in 1 .. Len(layers) /\ r + 1 \in 1 .. Len(layers)
      /\ r - 1 \in 0 .. K /\ (r - 1) + 1 = r /\ K - (r - 1) = J /\ J - 1 = K - r
      /\ (r + 1) - 1 = r /\ r \in 1 .. (K + 1) /\ r + 1 \in 1 .. (K + 1) /\ r \in 1 .. (r + 1) /\ r + 1 \in 1 .. (r + 1)
      /\ K \in Nat /\ r <= K
  <2> DEFINE L == Len(layers)
  <2>1. L \in 1 .. (K + 1) /\ r = L - 1 /\ r \in Nat /\ r >= 1 /\ K \in 0 .. 30
    BY <1>2, <1>3
  <2>2. L = Len(layers)
    OBVIOUS
  <2>3. J = K - (r - 1)
    OBVIOUS
  <2> HIDE DEF L, r, J
  <2>4. K \in 1 .. 30 /\ r \in 1 .. K /\ r + 1 = L /\ r \in 1 .. L /\ r + 1 \in 1 .. L
    BY <2>1
  <2>5. J \in 1 .. 30 /\ J - 1 = K - r
    BY <2>1, <2>3
  <2>6. r - 1 \in 0 .. K /\ (r - 1) + 1 = r /\ (r + 1) - 1 = r
    BY <2>1
  <2>7. r \in 1 .. (K + 1) /\ r + 1 \in 1 .. (K + 1) /\ r \in 1 .. (r + 1) /\ r + 1 \in 1 .. (r + 1)
    BY <2>1
  <2>8. K \in Nat /\ r <= K
    BY <2>1
  <2> QED  BY <2>2, <2>3, <2>4, <2>5, <2>6, <2>7, <2>8
<1>5. betas[r] \in Elements
  BY <1>2, <1>3
<1>6. layers[r] \in Vectors(Two(J)) /\ layers[r + 1] = next
  <2>1. layers[r + 1] = Folded(K, domain, layers[r], betas[r], r)
    <3> HIDE DEF J, d, next
    <3>1. r \in 1 .. r
      BY <1>3
    <3> QED  BY <1>1, <3>1 DEF FriHonest
  <2>2. layers[r] \in Layer(K, r)
    BY <1>2, <1>4
  <2> QED  BY <2>1, <2>2 DEF Folded, Layer
<1>7. /\ d \in Points(Two(J)) /\ domain \in Seq(Elements)
      /\ Domains(domain, K)[r + 1] = FoldDomain(d)
  <2>1. domain \in Seq(Elements) /\ d \in Points(Two(J))
    BY <1>2, <1>4, DomainIs
  <2> QED  BY <1>4, <2>1, DomainsAre
<1>9. IsRoot(domain[2], K) /\ PowersOf(domain, domain[2], Two(K))
  BY <1>2, <1>4, RootDomainIs
<1>10. PICK u : IsRoot(u, J) /\ PowersOf(d, u, Two(J))
  <2> HIDE DEF J, d, next
  <2>1. RoundRoot(K, domain, r - 1)
    BY <1>2, <1>4, <1>9, RoundRoots
  <2> QED  BY <1>4, <2>1 DEF RoundRoot, d
<1> DEFINE h == Two(J - 1)
<1>11. h \in Nat /\ h > 0 /\ Two(J) = h + h
  BY <1>4, TwoHalves
<1>12. d[2] = u
  <2>1. u \in Elements
    BY <1>10 DEF IsRoot
  <2>2. 2 \in 1 .. (h + h) /\ 2 - 1 = 1
    <3> HIDE DEF h
    <3> QED  BY <1>11
  <2>3. d[2] = Power(u, 1)
    <3> HIDE DEF d, h, J
    <3> QED  BY <1>10, <1>11, <2>2 DEF PowersOf
  <2> QED  BY <2>1, <2>3, Square
<1> HIDE DEF J, d, next, h
<1>13. \A i \in 1 .. h : FoldStep(layers[r], d, betas[r])[i]
                           = EvaluateCoeffs(FoldedPoly(Ifft(layers[r], u), betas[r]), Times(d[i], d[i]))
  <2>1. layers[r] \in Vectors(h + h) /\ d \in Points(h + h) /\ PowersOf(d, u, h + h) /\ h = Two(J - 1)
    BY <1>6, <1>7, <1>10, <1>11 DEF h
  <2> QED  BY <1>4, <1>5, <1>10, <2>1, FoldMeets
<1>14. Current = next
  BY <1>4, <1>6 DEF Current
<1>15. DOMAIN Current = 1 .. h
  <2>1. layers[r + 1] \in Layer(K, r + 1)
    BY <1>2, <1>4
  <2>2. Layer(K, r + 1) = Vectors(h)
    BY <1>4 DEF Layer, h
  <2> QED  BY <1>6, <1>14, <2>1, <2>2 DEF Vectors
<1>16. Domains(domain, r)[r] = d /\ Domains(domain, r)[r + 1] = FoldDomain(d)
  <2>1. \A s \in 1 .. (r + 1) : Domains(domain, r)[s] = Domains(domain, K)[s]
    BY <1>3, <1>4, <1>7, DomainsAgree
  <2> QED  BY <1>4, <1>7, <2>1 DEF d
<1>17. \A i \in 1 .. h : FoldDomain(d)[i] = Times(d[i], d[i])
  BY <1>4, <1>7, <1>10, SquaresOf DEF h
<1>18. \A i \in DOMAIN Current :
         Current[i] = EvaluateCoeffs(FoldedPoly(Ifft(layers[r], Domains(domain, r)[r][2]), betas[r]),
                                     Domains(domain, r)[r + 1][i])
  <2> TAKE i \in DOMAIN Current
  <2>1. i \in 1 .. h
    BY <1>15
  <2>2. Current[i] = FoldStep(layers[r], d, betas[r])[i]
    BY <1>14 DEF next
  <2> QED  BY <1>12, <1>13, <1>16, <1>17, <2>1, <2>2
<1> QED  BY <1>18 DEF FoldHalvesPolynomial, FoldedPoly

-----------------------------------------------------------------------------
\* Products of polynomials.

\* Zeros at the end add nothing to a total.
LEMMA ShorterTotal ==
  ASSUME NEW n \in Nat, NEW m \in 0 .. n, NEW p \in Vectors(n), NEW q \in Vectors(m), Shortens(q, p, m, n)
  PROVE  Total(q) = Total(p)
<1> DEFINE S == {k \in 0 .. n : SumTo(p, k) = IF k <= m THEN SumTo(q, k) ELSE Total(q)}
<1>1. /\ SumTo(p, 0) = 0 /\ SumTo(p, n) = Total(p)
      /\ \A k \in 1 .. n : SumTo(p, k) = Plus(SumTo(p, k - 1), p[k])
  BY Sums
<1>2. /\ SumTo(q, 0) = 0 /\ SumTo(q, m) = Total(q) /\ Total(q) \in Elements
      /\ \A k \in 1 .. m : SumTo(q, k) = Plus(SumTo(q, k - 1), q[k])
  <2>1. m \in Nat /\ m \in 0 .. m
    OBVIOUS
  <2> QED  BY <2>1, Sums
<1>3. 0 \in S
  BY <1>1, <1>2
<1>4. \A k \in 1 .. n : k - 1 \in S => k \in S
  <2> TAKE k \in 1 .. n
  <2> HAVE k - 1 \in S
  <2>1. CASE k <= m
    <3>1. k \in 1 .. m /\ k - 1 <= m /\ k \in 0 .. n
      BY <2>1
    <3>2. SumTo(p, k - 1) = SumTo(q, k - 1)
      BY <3>1
    <3>3. q[k] = p[k]
      BY <3>1 DEF Shortens
    <3>4. SumTo(p, k) = SumTo(q, k)
      BY <1>1, <1>2, <3>1, <3>2, <3>3
    <3> QED  BY <2>1, <3>1, <3>4
  <2>2. CASE ~(k <= m)
    <3>1. p[k] = 0
      BY <2>2 DEF Shortens
    <3>2. SumTo(p, k - 1) = Total(q)
      <4>1. k - 1 <= m => k - 1 = m
        BY <2>2
      <4> QED  BY <1>2, <4>1
    <3>3. Plus(Total(q), 0) = Total(q)
      BY <1>2, Ring
    <3>4. SumTo(p, k) = Total(q) /\ k \in 0 .. n
      BY <1>1, <3>1, <3>2, <3>3
    <3> QED  BY <2>2, <3>4
  <2> QED  BY <2>1, <2>2
<1>5. n \in S
  <2> HIDE DEF S
  <2> QED  BY <1>3, <1>4, Up
<1>6. SumTo(p, n) = Total(q)
  <2>1. n <= m => n = m
    OBVIOUS
  <2> QED  BY <1>2, <1>5, <2>1
<1> QED  BY <1>1, <1>6

\* A polynomial times x^s.
Shifted(q, n, s) == [k \in 1 .. (n + s) |-> IF k <= s THEN 0 ELSE q[k - s]]

\* It is a vector.
LEMMA ShiftedTyped ==
  ASSUME NEW n \in Nat, NEW q \in Vectors(n), NEW s \in Nat
  PROVE  Shifted(q, n, s) \in Vectors(n + s)
<1>1. \A k \in 1 .. (n + s) : (IF k <= s THEN 0 ELSE q[k - s]) \in Elements
  <2> TAKE k \in 1 .. (n + s)
  <2>1. ~(k <= s) => k - s \in 1 .. n
    OBVIOUS
  <2> QED  BY <2>1, ZeroOne DEF Vectors
<1> QED  BY <1>1 DEF Shifted, Vectors

\* One shift more is one factor x more.
LEMMA ShiftedAgain ==
  ASSUME NEW n \in Nat, NEW q \in Vectors(n), NEW k \in Nat, k >= 1
  PROVE  Shifted(q, n, k) = TimesLinear(Shifted(q, n, k - 1), 0)
<1> DEFINE T == Shifted(q, n, k - 1)
           m == n + (k - 1)
<1>1. k - 1 \in Nat /\ m \in Nat /\ m + 1 = n + k
  OBVIOUS
<1>2. T \in Vectors(m) /\ \A j \in 1 .. m : T[j] = IF j <= k - 1 THEN 0 ELSE q[j - (k - 1)]
  <2>1. T \in Vectors(m)
    BY <1>1, ShiftedTyped
  <2> QED  BY <2>1 DEF Shifted
<1> HIDE DEF T
<1>3. Len(T) = m /\ DOMAIN T = 1 .. m
  <2> HIDE DEF m
  <2> QED  BY <1>1, <1>2 DEF Vectors
<1>4. TimesLinear(T, 0) = [j \in 1 .. (m + 1) |-> Minus(Coeff(T, j - 2), Times(0, Coeff(T, j - 1)))]
  BY <1>3 DEF TimesLinear
<1>5. ASSUME NEW j \in 1 .. (m + 1)
      PROVE  Minus(Coeff(T, j - 2), Times(0, Coeff(T, j - 1))) = IF j <= k THEN 0 ELSE q[j - k]
  <2>1. (j - 2) + 1 = j - 1 /\ (j - 1 \in 1 .. m <=> j # 1) /\ (j - 1) + 1 = j
        /\ (j - 1) - (k - 1) = j - k /\ (j - 1 <= k - 1 <=> j <= k) /\ (j = 1 => j <= k)
    OBVIOUS
  <2>2. Coeff(T, j - 2) = (IF j <= k THEN 0 ELSE q[j - k]) /\ Coeff(T, j - 2) \in Elements
    <3>1. CASE j = 1
      BY <1>3, <2>1, <3>1, ZeroOne DEF Coeff
    <3>2. CASE j # 1
      <4>1. Coeff(T, j - 2) = T[j - 1] /\ j - 1 \in 1 .. m
        BY <1>3, <2>1, <3>2 DEF Coeff
      <4>2. T[j - 1] \in Elements
        BY <1>2, <4>1 DEF Vectors
      <4> QED  BY <1>2, <2>1, <4>1, <4>2
    <3> QED  BY <3>1, <3>2
  <2>3. Coeff(T, j - 1) \in Elements
    <3>1. j \in 1 .. m => T[j] \in Elements
      BY <1>2 DEF Vectors
    <3> QED  BY <1>3, <2>1, <3>1, ZeroOne DEF Coeff
  <2>4. Times(0, Coeff(T, j - 1)) = 0 /\ Minus(Coeff(T, j - 2), 0) = Coeff(T, j - 2)
    BY <2>2, <2>3, Ring
  <2> QED  BY <2>2, <2>4
<1>6. TimesLinear(T, 0) = [j \in 1 .. (n + k) |-> IF j <= k THEN 0 ELSE q[j - k]]
  <2> HIDE DEF m
  <2> QED  BY <1>1, <1>4, <1>5
<1> QED  BY <1>6 DEF T, Shifted

\* What it is at a point.
LEMMA ShiftAt ==
  ASSUME NEW n \in Nat, NEW q \in Vectors(n), NEW s \in Nat, NEW x \in Elements
  PROVE  At(Shifted(q, n, s), x) = Times(Power(x, s), At(q, x))
<1> DEFINE S == {k \in 0 .. s : At(Shifted(q, n, k), x) = Times(Power(x, k), At(q, x))}
<1>1. At(q, x) \in Elements
  BY TermsAre
<1>2. 0 \in S
  <2>1. Shifted(q, n, 0) = [k \in 1 .. n |-> q[k]]
    <3>1. \A k \in 1 .. n : ~(k <= 0) /\ k - 0 = k
      OBVIOUS
    <3>2. n + 0 = n
      OBVIOUS
    <3> QED  BY <3>1, <3>2 DEF Shifted
  <2>2. Shifted(q, n, 0) = q
    BY <2>1 DEF Vectors
  <2>3. Power(x, 0) = 1
    BY PowerIs
  <2>4. Times(1, At(q, x)) = At(q, x)
    BY <1>1, Ring
  <2> QED  BY <2>2, <2>3, <2>4
<1>3. \A k \in 1 .. s : k - 1 \in S => k \in S
  <2> TAKE k \in 1 .. s
  <2> HAVE k - 1 \in S
  <2> DEFINE T == Shifted(q, n, k - 1)
             w == Power(x, k - 1)
             a == At(q, x)
  <2>1. k - 1 \in Nat /\ (k - 1) + 1 = k /\ k \in Nat /\ k >= 1 /\ k \in 0 .. s /\ n + (k - 1) \in Nat
    OBVIOUS
  <2>2. At(T, x) = Times(w, a)
    BY <2>1
  <2>3. T \in Vectors(n + (k - 1))
    BY <2>1, ShiftedTyped
  <2>4. Shifted(q, n, k) = TimesLinear(T, 0)
    BY <2>1, ShiftedAgain
  <2> HIDE DEF T
  <2>5. At(TimesLinear(T, 0), x) = Times(Minus(x, 0), At(T, x))
    BY <2>1, <2>3, ZeroOne, AtLinear
  <2>6. w \in Elements /\ Power(x, k) = Times(x, w)
    <3>1. Power(x, (k - 1) + 1) = Times(x, w) /\ w \in Elements
      BY <2>1, PowerIs, PowerTyped
    <3> QED  BY <2>1, <3>1
  <2> HIDE DEF w
  <2>7. Minus(x, 0) = x /\ Times(x, Times(w, a)) = Times(Times(x, w), a)
    <3> HIDE DEF a
    <3>1. a \in Elements
      BY <1>1 DEF a
    <3> QED  BY <2>6, <3>1, Ring
  <2> QED  BY <2>1, <2>2, <2>4, <2>5, <2>6, <2>7
<1>4. s \in S
  <2> HIDE DEF S
  <2> QED  BY <1>2, <1>3, Up
<1> QED  BY <1>4

\* A polynomial times x^s with room for m + n coefficients.
Row(q, m, n, s) == [k \in 1 .. (m + n) |-> IF k <= s \/ k > n + s THEN 0 ELSE q[k - s]]

\* It has the same value.
LEMMA RowAt ==
  ASSUME NEW m \in Nat, NEW n \in Nat, NEW q \in Vectors(n), NEW s \in 0 .. m, NEW x \in Elements
  PROVE  /\ Row(q, m, n, s) \in Vectors(m + n)
         /\ At(Row(q, m, n, s), x) = Times(Power(x, s), At(q, x))
<1> DEFINE r == Row(q, m, n, s)
           t == Shifted(q, n, s)
<1>1. n + s \in 0 .. (m + n) /\ m + n \in Nat /\ s \in Nat
  OBVIOUS
<1>2. t \in Vectors(n + s) /\ At(t, x) = Times(Power(x, s), At(q, x))
  BY <1>1, ShiftedTyped, ShiftAt
<1>3. r \in Vectors(m + n)
  <2>1. \A k \in 1 .. (m + n) : (IF k <= s \/ k > n + s THEN 0 ELSE q[k - s]) \in Elements
    <3> TAKE k \in 1 .. (m + n)
    <3>1. ~(k <= s \/ k > n + s) => k - s \in 1 .. n
      OBVIOUS
    <3> QED  BY <3>1, ZeroOne DEF Vectors
  <2> QED  BY <2>1 DEF Row, Vectors
<1>4. Shortens(t, r, n + s, m + n)
  <2>1. ASSUME NEW k \in 1 .. (n + s) PROVE t[k] = r[k]
    <3>1. k \in 1 .. (m + n) /\ ~(k > n + s)
      OBVIOUS
    <3> QED  BY <3>1 DEF Row, Shifted
  <2>2. ASSUME NEW k \in 1 .. (m + n), k > n + s PROVE r[k] = 0
    BY <2>2 DEF Row
  <2> QED  BY <2>1, <2>2 DEF Shortens
<1> HIDE DEF r, t
<1>5. At(t, x) = At(r, x)
  <2> DEFINE a == n + s
             b == m + n
  <2>1. a \in 0 .. b /\ b \in Nat /\ t \in Vectors(a) /\ r \in Vectors(b) /\ Shortens(t, r, a, b)
    BY <1>1, <1>2, <1>3, <1>4
  <2> HIDE DEF a, b
  <2> QED  BY <2>1, ShorterAt
<1> QED  BY <1>2, <1>3, <1>5 DEF r

\* The terms of the k-th coefficient of a product, as the code of the
\* definition has them and by row.
ByCoeff(p, q, k) == [i \in 1 .. k |-> Times(Coeff(p, i - 1), Coeff(q, k - i))]
ByRow(p, q, m, n, k) == [i \in 1 .. m |-> Times(p[i], Row(q, m, n, i - 1)[k])]

\* A coefficient of a vector.
LEMMA CoeffIs ==
  ASSUME NEW n \in Nat, NEW p \in Vectors(n), NEW k \in Int
  PROVE  /\ Coeff(p, k) = IF k + 1 \in 1 .. n THEN p[k + 1] ELSE 0
         /\ Coeff(p, k) \in Elements
<1>1. DOMAIN p = 1 .. n
  BY DEF Vectors
<1>2. k + 1 \in 1 .. n => p[k + 1] \in Elements
  BY DEF Vectors
<1> QED  BY <1>1, <1>2, ZeroOne DEF Coeff

\* They are the same terms, but for zeros at the end.
LEMMA SameTerms ==
  ASSUME NEW m \in Nat, NEW n \in Nat, NEW p \in Vectors(m), NEW q \in Vectors(n), NEW k \in 1 .. (m + n)
  PROVE  /\ ByCoeff(p, q, k) \in Vectors(k) /\ ByRow(p, q, m, n, k) \in Vectors(m)
         /\ \A i \in 1 .. m : i <= k => ByCoeff(p, q, k)[i] = ByRow(p, q, m, n, k)[i]
         /\ \A i \in 1 .. m : i > k => ByRow(p, q, m, n, k)[i] = 0
         /\ \A i \in 1 .. k : i > m => ByCoeff(p, q, k)[i] = 0
<1> DEFINE u(i) == Coeff(p, i - 1)
           v(i) == Coeff(q, k - i)
           w(i) == Row(q, m, n, i - 1)[k]
<1>1. ASSUME NEW i \in 1 .. k
      PROVE  /\ u(i) = (IF i <= m THEN p[i] ELSE 0) /\ u(i) \in Elements
             /\ v(i) = (IF k > n + (i - 1) THEN 0 ELSE q[k - (i - 1)]) /\ v(i) \in Elements
  <2>1. i - 1 \in Int /\ k - i \in Int /\ (i - 1) + 1 = i /\ (k - i) + 1 = k - (i - 1)
        /\ (i \in 1 .. m <=> i <= m) /\ (k - (i - 1) \in 1 .. n <=> ~(k > n + (i - 1)))
    OBVIOUS
  <2>2. u(i) = (IF (i - 1) + 1 \in 1 .. m THEN p[(i - 1) + 1] ELSE 0) /\ u(i) \in Elements
    BY <2>1, CoeffIs
  <2>3. v(i) = (IF (k - i) + 1 \in 1 .. n THEN q[(k - i) + 1] ELSE 0) /\ v(i) \in Elements
    BY <2>1, CoeffIs
  <2> HIDE DEF u, v
  <2> QED  BY <2>1, <2>2, <2>3
<1>2. ASSUME NEW i \in 1 .. m
      PROVE  /\ p[i] \in Elements /\ w(i) \in Elements
             /\ w(i) = (IF k <= i - 1 \/ k > n + (i - 1) THEN 0 ELSE q[k - (i - 1)])
  <2>1. i - 1 \in 0 .. m
    OBVIOUS
  <2>2. Row(q, m, n, i - 1) \in Vectors(m + n)
    BY <2>1, ZeroOne, RowAt
  <2>3. w(i) \in Elements
    BY <2>2 DEF Vectors
  <2> QED  BY <2>3 DEF Row, Vectors
<1> DEFINE f == [i \in 1 .. k |-> Times(u(i), v(i))]
           g == [i \in 1 .. m |-> Times(p[i], w(i))]
<1>3. ByCoeff(p, q, k) = f /\ ByRow(p, q, m, n, k) = g
  BY DEF ByCoeff, ByRow
<1> HIDE DEF u, v, w
<1>4. f \in Vectors(k)
  <2>1. \A i \in 1 .. k : Times(u(i), v(i)) \in Elements
    BY <1>1, Typed
  <2> QED  BY <2>1 DEF Vectors
<1>5. g \in Vectors(m)
  <2>1. \A i \in 1 .. m : Times(p[i], w(i)) \in Elements
    BY <1>2, Typed
  <2> QED  BY <2>1 DEF Vectors
<1>6. ASSUME NEW i \in 1 .. m, i <= k PROVE f[i] = g[i]
  <2>1. i \in 1 .. k /\ ~(k <= i - 1)
    BY <1>6
  <2>2. u(i) = p[i]
    BY <1>1, <2>1
  <2>3. v(i) = w(i)
    BY <1>1, <1>2, <2>1
  <2> QED  BY <2>1, <2>2, <2>3
<1>7. ASSUME NEW i \in 1 .. m, i > k PROVE g[i] = 0
  <2>1. k <= i - 1
    BY <1>7
  <2>2. w(i) = 0
    BY <1>2, <2>1
  <2>3. Times(p[i], 0) = 0
    BY <1>2, Ring, ZeroOne
  <2> QED  BY <2>2, <2>3
<1>8. ASSUME NEW i \in 1 .. k, i > m PROVE f[i] = 0
  <2>1. u(i) = 0 /\ v(i) \in Elements
    BY <1>1, <1>8
  <2>2. Times(0, v(i)) = 0
    BY <2>1, Ring, ZeroOne
  <2> QED  BY <2>1, <2>2
<1> HIDE DEF f, g
<1> QED  BY <1>3, <1>4, <1>5, <1>6, <1>7, <1>8

\* So they have the same total.
LEMMA SameTotals ==
  ASSUME NEW m \in Nat, NEW n \in Nat, NEW p \in Vectors(m), NEW q \in Vectors(n), NEW k \in 1 .. (m + n)
  PROVE  Total(ByCoeff(p, q, k)) = Total(ByRow(p, q, m, n, k))
<1> DEFINE f == ByCoeff(p, q, k)
           g == ByRow(p, q, m, n, k)
<1>1. /\ f \in Vectors(k) /\ g \in Vectors(m)
      /\ \A i \in 1 .. m : i <= k => f[i] = g[i]
      /\ \A i \in 1 .. m : i > k => g[i] = 0
      /\ \A i \in 1 .. k : i > m => f[i] = 0
  BY SameTerms
<1> HIDE DEF f, g
<1>2. k \in Nat
  OBVIOUS
<1>3. CASE k <= m
  <2>1. k \in 0 .. m /\ \A i \in 1 .. k : i \in 1 .. m /\ i <= k
    BY <1>3
  <2>2. Shortens(f, g, k, m)
    BY <1>1, <2>1 DEF Shortens
  <2> QED  BY <1>1, <2>1, <2>2, ShorterTotal DEF f, g
<1>4. CASE ~(k <= m)
  <2>1. m \in 0 .. k /\ \A i \in 1 .. m : i <= k
    BY <1>4
  <2>2. Shortens(g, f, m, k)
    BY <1>1, <2>1 DEF Shortens
  <2>3. Total(g) = Total(f)
    BY <1>1, <1>2, <2>1, <2>2, ShorterTotal
  <2> QED  BY <2>3 DEF f, g
<1> QED  BY <1>3, <1>4

\* The vector of a product holds the totals.
LEMMA PolyTimesIs ==
  ASSUME NEW m \in Nat, NEW n \in Nat, NEW p \in Vectors(m), NEW q \in Vectors(n)
  PROVE  /\ PolyTimes(p, q) \in Vectors(m + n)
         /\ \A k \in 1 .. (m + n) : PolyTimes(p, q)[k] = Total(ByCoeff(p, q, k))
<1>1. Len(p) = m /\ Len(q) = n
  BY DEF Vectors
<1>2. PolyTimes(p, q) = [k \in 1 .. (m + n) |-> Total(ByCoeff(p, q, k))]
  BY <1>1 DEF PolyTimes, ByCoeff
<1>3. \A k \in 1 .. (m + n) : Total(ByCoeff(p, q, k)) \in Elements
  <2> TAKE k \in 1 .. (m + n)
  <2>1. ByCoeff(p, q, k) \in Vectors(k) /\ k \in Nat
    BY SameTerms
  <2> QED  BY <2>1, TotalTyped
<1> QED  BY <1>2, <1>3 DEF Vectors

\* A vector that is the sum of the vectors B, each times its coefficient.
RowsAdd(q, c, B, m, n) == \A k \in 1 .. n : q[k] = Total([i \in 1 .. m |-> Times(c[i], B[i][k])])
Weighted(c, B, x, m) == [i \in 1 .. m |-> Times(c[i], At(B[i], x))]

\* Its value is the sum of theirs.
LEMMA RowsAt ==
  ASSUME NEW n \in Nat, NEW m \in Nat, NEW B \in [1 .. m -> Vectors(n)], NEW c \in Vectors(m),
         NEW q \in Vectors(n), NEW x \in Elements, RowsAdd(q, c, B, m, n)
  PROVE  Weighted(c, B, x, m) \in Vectors(m) /\ At(q, x) = Total(Weighted(c, B, x, m))
<1>1. \A k \in 1 .. n : q[k] = Total([i \in 1 .. m |-> Times(c[i], B[i][k])])
  BY DEF RowsAdd
<1>2. /\ [i \in 1 .. m |-> Times(c[i], At(B[i], x))] \in Vectors(m)
      /\ At(q, x) = Total([i \in 1 .. m |-> Times(c[i], At(B[i], x))])
  BY <1>1, AtTotal
<1> QED  BY <1>2 DEF Weighted

\* The value of a product is the product of the values.
LEMMA PolyTimesAt ==
  ASSUME NEW m \in Nat, NEW n \in Nat, NEW p \in Vectors(m), NEW q \in Vectors(n), NEW x \in Elements
  PROVE  At(PolyTimes(p, q), x) = Times(At(p, x), At(q, x))
<1> DEFINE B == [i \in 1 .. m |-> Row(q, m, n, i - 1)]
           r == PolyTimes(p, q)
           a == At(q, x)
           u == [i \in 1 .. m |-> Times(p[i], At(B[i], x))]
<1>1. r \in Vectors(m + n) /\ m + n \in Nat
  BY PolyTimesIs
<1>2. ASSUME NEW i \in 1 .. m
      PROVE  Row(q, m, n, i - 1) \in Vectors(m + n) /\ At(Row(q, m, n, i - 1), x) = Times(Power(x, i - 1), a)
  <2>1. i - 1 \in 0 .. m
    OBVIOUS
  <2> QED  BY <2>1, RowAt
<1>3. B \in [1 .. m -> Vectors(m + n)] /\ \A i \in 1 .. m : At(B[i], x) = Times(Power(x, i - 1), a)
  BY <1>2
<1>4. RowsAdd(r, p, B, m, m + n)
  <2>1. ASSUME NEW k \in 1 .. (m + n) PROVE r[k] = Total([i \in 1 .. m |-> Times(p[i], B[i][k])])
    <3>1. r[k] = Total(ByRow(p, q, m, n, k))
      BY PolyTimesIs, SameTotals
    <3>2. ByRow(p, q, m, n, k) = [i \in 1 .. m |-> Times(p[i], B[i][k])]
      BY DEF ByRow
    <3> QED  BY <3>1, <3>2
  <2> HIDE DEF B, r
  <2> QED  BY <2>1 DEF RowsAdd
<1> HIDE DEF B, r
<1>5. u \in Vectors(m) /\ At(r, x) = Total(u)
  <2> DEFINE l == m + n
  <2>1. l \in Nat /\ r \in Vectors(l) /\ B \in [1 .. m -> Vectors(l)] /\ RowsAdd(r, p, B, m, l)
    BY <1>1, <1>3, <1>4
  <2> HIDE DEF l
  <2>2. Weighted(p, B, x, m) \in Vectors(m) /\ At(r, x) = Total(Weighted(p, B, x, m))
    BY <2>1, RowsAt
  <2> QED  BY <2>2 DEF Weighted
<1>6. a \in Elements /\ Terms(p, x) \in Vectors(m)
      /\ \A k \in 1 .. m : /\ p[k] \in Elements /\ Power(x, k - 1) \in Elements
                           /\ Terms(p, x)[k] = Times(p[k], Power(x, k - 1))
  BY TermsAre
<1> HIDE DEF a
<1>7. \A k \in 1 .. m : u[k] = Times(a, Terms(p, x)[k])
  <2> TAKE k \in 1 .. m
  <2> DEFINE w == Power(x, k - 1)
             c == p[k]
  <2>1. w \in Elements /\ c \in Elements /\ Terms(p, x)[k] = Times(c, w) /\ u[k] = Times(c, Times(w, a))
    BY <1>3, <1>6
  <2> HIDE DEF w, c, u
  <2>2. Times(c, Times(w, a)) = Times(Times(c, w), a)
    BY <1>6, <2>1, Ring
  <2>3. Times(c, w) \in Elements
    BY <2>1, Typed
  <2>4. Times(Times(c, w), a) = Times(a, Times(c, w))
    BY <1>6, <2>3, Ring
  <2> QED  BY <2>1, <2>2, <2>4
<1> HIDE DEF u
<1>8. Total(u) = Times(a, Total(Terms(p, x)))
  BY <1>5, <1>6, <1>7, TotalScaled
<1>9. At(p, x) \in Elements /\ Total(Terms(p, x)) = At(p, x)
  BY TermsAre DEF At
<1>10. Times(a, At(p, x)) = Times(At(p, x), a)
  BY <1>6, <1>9, Ring
<1> QED  BY <1>5, <1>8, <1>9, <1>10 DEF r, a

-----------------------------------------------------------------------------
\* Quotients by x^n - 1.

\* The upper half of a vector, and the sum of its halves.
Upper(c, n) == [k \in 1 .. n |-> c[k + n]]
Wrapped(c, n) == [k \in 1 .. n |-> Plus(c[k], c[k + n])]

\* They are vectors.
LEMMA UpperTyped ==
  ASSUME NEW n \in Nat, NEW c \in Vectors(n + n)
  PROVE  Upper(c, n) \in Vectors(n) /\ Wrapped(c, n) \in Vectors(n)
<1>1. \A k \in 1 .. n : c[k] \in Elements /\ c[k + n] \in Elements /\ Plus(c[k], c[k + n]) \in Elements
  <2> TAKE k \in 1 .. n
  <2>1. k \in 1 .. (n + n) /\ k + n \in 1 .. (n + n)
    OBVIOUS
  <2>2. c[k] \in Elements /\ c[k + n] \in Elements
    BY <2>1 DEF Vectors
  <2> QED  BY <2>2, Typed
<1> QED  BY <1>1 DEF Upper, Wrapped, Vectors

\* Dividing takes the upper half as the quotient, and adds it to the lower one
\* (oracle-layer/src/quotient.rs, divide_by_vanishing_poly).
LEMMA VanishingRuns ==
  ASSUME NEW n \in Nat, n > 0, NEW c \in Vectors(n + n)
  PROVE  DivideByVanishing(c, n) = [quotient |-> Upper(c, n), remainder |-> Wrapped(c, n)]
<1> DEFINE d == n + n
           g == [i \in 1 .. d |-> IF i + n > d THEN c[i] ELSE Plus(c[i], c[i + n])]
<1>1. Len(c) = d /\ d \in Nat /\ ~(d <= n) /\ d - n = n
  <2>1. d \in Nat /\ c \in [1 .. d -> Elements]
    BY DEF Vectors
  <2>2. ~(d <= n) /\ d - n = n
    OBVIOUS
  <2> HIDE DEF d
  <2> QED  BY <2>1, <2>2
<1>2. g = [i \in 1 .. d |-> IF i + n > d THEN c[i] ELSE Plus(c[i], g[i + n])]
  <2>1. ASSUME NEW i \in 1 .. d, ~(i + n > d) PROVE g[i + n] = c[i + n]
    <3>1. i + n \in 1 .. d /\ (i + n) + n > d
      BY <2>1
    <3> QED  BY <3>1
  <2> QED  BY <2>1
<1> HIDE DEF g, d
<1> DEFINE run(l, f) == f = [i \in 1 .. l |-> IF i + n > l THEN c[i] ELSE Plus(c[i], f[i + n])]
           f == CHOOSE f : run(Len(c), f)
<1>a. DivideByVanishing(c, n) = [quotient |-> [k \in 1 .. (Len(c) - n) |-> f[k + n]],
                                 remainder |-> [k \in 1 .. n |-> f[k]]]
  BY <1>1 DEF DivideByVanishing
<1>b. run(Len(c), f)
  <2>1. run(d, g)
    BY <1>2
  <2> HIDE DEF run
  <2>2. run(Len(c), g)
    BY <1>1, <2>1
  <2> QED  BY <2>2
<1>c. run(d, f)
  <2> HIDE DEF run, f
  <2> QED  BY <1>1, <1>b
<1> HIDE DEF f
<1>3. /\ f = [i \in 1 .. d |-> IF i + n > d THEN c[i] ELSE Plus(c[i], f[i + n])]
      /\ DivideByVanishing(c, n) = [quotient |-> [k \in 1 .. (d - n) |-> f[k + n]],
                                    remainder |-> [k \in 1 .. n |-> f[k]]]
  BY <1>1, <1>a, <1>c
<1>4. ASSUME NEW k \in 1 .. n PROVE f[k + n] = c[k + n] /\ f[k] = Plus(c[k], c[k + n])
  <2>1. k \in 1 .. d /\ k + n \in 1 .. d /\ (k + n) + n > d /\ ~(k + n > d)
    BY DEF d
  <2>2. f[k + n] = c[k + n]
    BY <1>3, <2>1
  <2>3. f[k] = Plus(c[k], f[k + n])
    BY <1>3, <2>1
  <2> QED  BY <2>2, <2>3
<1>5. [k \in 1 .. (d - n) |-> f[k + n]] = Upper(c, n) /\ [k \in 1 .. n |-> f[k]] = Wrapped(c, n)
  BY <1>1, <1>4 DEF Upper, Wrapped
<1> QED  BY <1>3, <1>5

\* The coefficients of x^n - 1.
LEMMA VanishingIs ==
  ASSUME NEW n \in Nat, n > 0
  PROVE  /\ VanishingPoly(n) \in Vectors(n + 1)
         /\ \A j \in Int : Coeff(VanishingPoly(n), j) = IF j = 0 THEN MinusOne ELSE IF j = n THEN 1 ELSE 0
<1>1. MinusOne \in Elements /\ 0 \in Elements /\ 1 \in Elements
  BY MinusOneIs, ZeroOne
<1>2. VanishingPoly(n) = [k \in 1 .. (n + 1) |-> IF k = 1 THEN MinusOne ELSE IF k = n + 1 THEN 1 ELSE 0]
  BY DEF VanishingPoly, MinusOne
<1>3. VanishingPoly(n) \in Vectors(n + 1)
  BY <1>1, <1>2 DEF Vectors
<1>4. ASSUME NEW j \in Int
      PROVE  Coeff(VanishingPoly(n), j) = IF j = 0 THEN MinusOne ELSE IF j = n THEN 1 ELSE 0
  <2>1. n + 1 \in Nat
    OBVIOUS
  <2>2. Coeff(VanishingPoly(n), j) = IF j + 1 \in 1 .. (n + 1) THEN VanishingPoly(n)[j + 1] ELSE 0
    BY <1>3, <2>1, CoeffIs
  <2>3. CASE j = 0
    <3>1. j + 1 = 1 /\ j + 1 \in 1 .. (n + 1)
      BY <2>3
    <3> QED  BY <1>2, <2>2, <2>3, <3>1
  <2>4. CASE j = n
    <3>1. j + 1 = n + 1 /\ j + 1 # 1 /\ j + 1 \in 1 .. (n + 1) /\ j # 0
      BY <2>4
    <3> QED  BY <1>2, <2>2, <2>4, <3>1
  <2>5. CASE j # 0 /\ j # n
    <3>1. j + 1 # 1 /\ j + 1 # n + 1
      BY <2>5
    <3> QED  BY <1>2, <2>2, <2>5, <3>1
  <2> QED  BY <2>3, <2>4, <2>5
<1> QED  BY <1>3, <1>4

\* Multiplying by x^n - 1 shifts up by n and takes the vector itself off.
LEMMA TimesVanishing ==
  ASSUME NEW n \in Nat, n > 0, NEW q \in Vectors(n), NEW k \in 0 .. (n + n)
  PROVE  PolyTimes(q, VanishingPoly(n))[k + 1] = Minus(Coeff(q, k - n), Coeff(q, k))
<1> DEFINE V == VanishingPoly(n)
           s == ByCoeff(q, V, k + 1)
           A == Coeff(q, k - n)
           C == Coeff(q, k)
           a == [i \in 1 .. (k + 1) |-> IF i = (k + 1) - n THEN A ELSE 0]
           b == [i \in 1 .. (k + 1) |-> IF i = k + 1 THEN C ELSE 0]
<1>1. V \in Vectors(n + 1) /\ \A j \in Int : Coeff(V, j) = IF j = 0 THEN MinusOne ELSE IF j = n THEN 1 ELSE 0
  BY VanishingIs
<1>2. n + 1 \in Nat /\ k + 1 \in 1 .. (n + (n + 1)) /\ k + 1 \in Nat /\ k \in Int /\ k - n \in Int
  OBVIOUS
<1> HIDE DEF V
<1>3. PolyTimes(q, V)[k + 1] = Total(s) /\ s \in Vectors(k + 1)
  <2> DEFINE l == n + 1
             i == k + 1
  <2>1. V \in Vectors(l) /\ l \in Nat /\ i \in 1 .. (n + l)
    BY <1>1, <1>2
  <2> HIDE DEF l, i
  <2>2. \A j \in 1 .. (n + l) : PolyTimes(q, V)[j] = Total(ByCoeff(q, V, j))
    BY <2>1, PolyTimesIs
  <2>3. ByCoeff(q, V, i) \in Vectors(i)
    BY <2>1, SameTerms
  <2> QED  BY <2>1, <2>2, <2>3 DEF i
<1>4. A \in Elements /\ C \in Elements /\ MinusOne \in Elements /\ 0 \in Elements /\ 1 \in Elements
  BY <1>2, CoeffIs, MinusOneIs, ZeroOne
<1>5. \A i \in 1 .. (k + 1) : s[i] = Times(Coeff(q, i - 1), Coeff(V, (k + 1) - i))
  BY DEF ByCoeff
<1> DEFINE m == k + 1
<1> HIDE DEF s, A, C
<1>6. a \in Vectors(k + 1) /\ b \in Vectors(k + 1)
  BY <1>4 DEF Vectors
<1>7. ASSUME NEW i \in 1 .. (k + 1) PROVE s[i] = Plus(a[i], Times(MinusOne, b[i]))
  <2>0. Times(MinusOne, 0) = 0 /\ Plus(A, 0) = A /\ Plus(0, 0) = 0 /\ Times(A, 1) = A
        /\ Times(C, MinusOne) = Times(MinusOne, C) /\ Times(MinusOne, C) \in Elements
        /\ Plus(0, Times(MinusOne, C)) = Times(MinusOne, C)
    <3>1. Times(MinusOne, C) \in Elements
      BY <1>4, Typed
    <3> QED  BY <1>4, <3>1, Ring
  <2>1. i \in Int /\ (k + 1) - i \in Int /\ i - 1 \in Int
        /\ ((k + 1) - i = 0 <=> i = k + 1) /\ ((k + 1) - i = n <=> i = (k + 1) - n)
        /\ (i = k + 1 => i - 1 = k) /\ (i = (k + 1) - n => i - 1 = k - n /\ i # k + 1)
    OBVIOUS
  <2>2. s[i] = Times(Coeff(q, i - 1), Coeff(V, (k + 1) - i))
    BY <1>5
  <2>3. Coeff(V, (k + 1) - i) = IF i = k + 1 THEN MinusOne ELSE IF i = (k + 1) - n THEN 1 ELSE 0
    BY <1>1, <2>1
  <2>4. a[i] = (IF i = (k + 1) - n THEN A ELSE 0) /\ b[i] = (IF i = k + 1 THEN C ELSE 0)
    OBVIOUS
  <2> HIDE DEF a, b
  <2>5. CASE i = k + 1
    <3>1. s[i] = Times(C, MinusOne)
      BY <2>1, <2>2, <2>3, <2>5 DEF C
    <3>2. a[i] = 0 /\ b[i] = C
      BY <2>1, <2>4, <2>5
    <3> QED  BY <2>0, <3>1, <3>2
  <2>6. CASE i = (k + 1) - n
    <3>1. s[i] = Times(A, 1)
      BY <2>1, <2>2, <2>3, <2>6 DEF A
    <3>2. a[i] = A /\ b[i] = 0
      BY <2>1, <2>4, <2>6
    <3> QED  BY <2>0, <3>1, <3>2
  <2>7. CASE i # k + 1 /\ i # (k + 1) - n
    <3>1. Coeff(q, i - 1) \in Elements
      BY <2>1, CoeffIs
    <3>2. Times(Coeff(q, i - 1), 0) = 0
      BY <3>1, Ring, ZeroOne
    <3>3. s[i] = 0 /\ a[i] = 0 /\ b[i] = 0
      BY <2>2, <2>3, <2>4, <2>7, <3>2
    <3> QED  BY <2>0, <3>3
  <2> QED  BY <2>5, <2>6, <2>7
<1>8. Total(b) = C
  <2>1. k + 1 \in 1 .. (k + 1)
    OBVIOUS
  <2>2. \A i \in 1 .. (k + 1) : i # k + 1 => b[i] = 0
    OBVIOUS
  <2>3. b[k + 1] = C
    BY <2>1
  <2> HIDE DEF b
  <2>4. Total(b) = b[k + 1]
    BY <1>2, <1>6, <2>1, <2>2, TotalSingle
  <2> QED  BY <2>3, <2>4
<1>9. Total(a) = A
  <2> DEFINE j == (k + 1) - n
  <2>1. CASE k >= n
    <3>1. j \in 1 .. (k + 1)
      BY <2>1
    <3>2. \A i \in 1 .. (k + 1) : i # j => a[i] = 0
      OBVIOUS
    <3>3. a[j] = A
      BY <3>1
    <3> HIDE DEF a, j
    <3>4. Total(a) = a[j]
      BY <1>2, <1>6, <3>1, <3>2, TotalSingle
    <3> QED  BY <3>3, <3>4
  <2>2. CASE ~(k >= n)
    <3>1. \A i \in 1 .. (k + 1) : i # j
      BY <2>2
    <3>2. \A i \in 1 .. (k + 1) : a[i] = 0
      BY <3>1
    <3>3. (k - n) + 1 \notin 1 .. n
      BY <2>2
    <3>4. A = 0
      BY <1>2, <3>3, CoeffIs DEF A
    <3> HIDE DEF a
    <3>5. Total(a) = 0
      BY <1>2, <1>6, <3>2, TotalZero
    <3> QED  BY <3>4, <3>5
  <2> QED  BY <2>1, <2>2
<1> HIDE DEF a, b
<1>10. Total(s) = Plus(Total(a), Times(MinusOne, Total(b)))
  BY <1>2, <1>3, <1>4, <1>6, <1>7, TotalCombines
<1>11. Plus(A, Times(MinusOne, C)) = Minus(A, C)
  <2>1. Times(MinusOne, C) = Minus(0, C)
    BY <1>4, MinusOneIs
  <2> QED  BY <1>4, <2>1, MinusAdds
<1> QED  BY <1>3, <1>8, <1>9, <1>10, <1>11 DEF V, A, C

\* What a half adds, taken off.
LEMMA Unwrapped ==
  ASSUME NEW x \in Elements, NEW y \in Elements
  PROVE  Plus(Minus(0, y), Plus(x, y)) = x
<1>1. /\ x \in Int /\ x % P = x
      /\ y \in Int /\ y % P = y
      /\ 0 \in Int /\ 0 % P = 0
  BY OwnResidue, ZeroOne
<1>2. /\ 0 - y \in Int /\ Minus(0, y) = (0 - y) % P
      /\ x + y \in Int /\ Plus(x, y) = (x + y) % P
  BY <1>1, Residues, SMTT(30)
<1>3. /\ (0 - y) + (x + y) \in Int /\ Plus(Minus(0, y), Plus(x, y)) = ((0 - y) + (x + y)) % P
  BY <1>1, <1>2, Residues, SMTT(30)
<1>4. /\ (0 - y) + (x + y) = x
  BY <1>1
<1> QED  BY <1>1, <1>3, <1>4


\* The quotient times x^n - 1, with the remainder, is what was divided.
LEMMA DivisionIsExact ==
  ASSUME NEW n \in Nat, n > 0, NEW c \in Vectors(n + n), NEW k \in 0 .. (2 * n)
  PROVE  Coeff(c, k) = Plus(Coeff(PolyTimes(Upper(c, n), VanishingPoly(n)), k), Coeff(Wrapped(c, n), k))
<1> DEFINE q == Upper(c, n)
           r == Wrapped(c, n)
           p == PolyTimes(q, VanishingPoly(n))
<1>1. q \in Vectors(n) /\ r \in Vectors(n)
  BY UpperTyped
<1>2. n + 1 \in Nat /\ n + n \in Nat /\ k \in 0 .. (n + n) /\ k + 1 \in 1 .. (n + (n + 1)) /\ k \in Int /\ k - n \in Int
  OBVIOUS
<1>3. /\ \A i \in 1 .. n : q[i] = c[i + n] /\ r[i] = Plus(c[i], c[i + n])
      /\ \A i \in 1 .. (n + n) : c[i] \in Elements
  BY DEF Upper, Wrapped, Vectors
<1> HIDE DEF q, r
<1>4. Coeff(p, k) = Minus(Coeff(q, k - n), Coeff(q, k))
  <2>1. VanishingPoly(n) \in Vectors(n + 1)
    BY VanishingIs
  <2>2. p \in Vectors(n + (n + 1)) /\ n + (n + 1) \in Nat
    BY <1>1, <1>2, <2>1, PolyTimesIs
  <2>3. p[k + 1] = Minus(Coeff(q, k - n), Coeff(q, k))
    BY <1>1, <1>2, TimesVanishing
  <2> HIDE DEF p
  <2>4. Coeff(p, k) = p[k + 1]
    <3> DEFINE l == n + (n + 1)
    <3>1. p \in Vectors(l) /\ l \in Nat /\ k + 1 \in 1 .. l
      BY <1>2, <2>2
    <3> HIDE DEF l
    <3> QED  BY <1>2, <3>1, CoeffIs
  <2> QED  BY <2>3, <2>4
<1> HIDE DEF p
<1>5. /\ Coeff(q, k) = (IF k + 1 \in 1 .. n THEN q[k + 1] ELSE 0)
      /\ Coeff(r, k) = (IF k + 1 \in 1 .. n THEN r[k + 1] ELSE 0)
      /\ Coeff(q, k - n) = (IF (k - n) + 1 \in 1 .. n THEN q[(k - n) + 1] ELSE 0)
  BY <1>1, <1>2, CoeffIs
<1>6. Coeff(c, k) = IF k + 1 \in 1 .. (n + n) THEN c[k + 1] ELSE 0
  <2> DEFINE l == n + n
  <2>1. c \in Vectors(l) /\ l \in Nat
    BY <1>2
  <2> HIDE DEF l
  <2>2. Coeff(c, k) = IF k + 1 \in 1 .. l THEN c[k + 1] ELSE 0
    BY <1>2, <2>1, CoeffIs
  <2> QED  BY <2>2 DEF l
<1>7. CASE k + 1 \in 1 .. n
  <2> DEFINE x == c[k + 1]
             y == c[(k + 1) + n]
  <2>1. (k - n) + 1 \notin 1 .. n /\ k + 1 \in 1 .. (n + n) /\ (k + 1) + n \in 1 .. (n + n)
    BY <1>7
  <2>2. x \in Elements /\ y \in Elements
    BY <1>3, <2>1
  <2>3. Coeff(c, k) = x /\ Coeff(q, k) = y /\ Coeff(r, k) = Plus(x, y) /\ Coeff(q, k - n) = 0
    BY <1>3, <1>5, <1>6, <1>7, <2>1
  <2> HIDE DEF x, y
  <2>4. Plus(Minus(0, y), Plus(x, y)) = x
    BY <2>2, Unwrapped
  <2> QED  BY <1>4, <2>3, <2>4 DEF p, q, r
<1>8. CASE (k - n) + 1 \in 1 .. n
  <2> DEFINE x == c[k + 1]
  <2>1. k + 1 \notin 1 .. n /\ k + 1 \in 1 .. (n + n) /\ ((k - n) + 1) + n = k + 1
    BY <1>8
  <2>2. x \in Elements
    BY <1>3, <2>1
  <2>3. Coeff(c, k) = x /\ Coeff(q, k) = 0 /\ Coeff(r, k) = 0 /\ Coeff(q, k - n) = x
    BY <1>3, <1>5, <1>6, <1>8, <2>1
  <2> HIDE DEF x
  <2>4. Minus(x, 0) = x /\ Plus(x, 0) = x
    BY <2>2, Ring
  <2> QED  BY <1>4, <2>3, <2>4 DEF p, q, r
<1>9. CASE k = n + n
  <2>1. k + 1 \notin 1 .. n /\ k + 1 \notin 1 .. (n + n) /\ (k - n) + 1 \notin 1 .. n
    BY <1>9
  <2>2. Coeff(c, k) = 0 /\ Coeff(q, k) = 0 /\ Coeff(r, k) = 0 /\ Coeff(q, k - n) = 0
    BY <1>5, <1>6, <2>1
  <2>3. Minus(0, 0) = 0 /\ Plus(0, 0) = 0
    BY Ring, ZeroOne
  <2> QED  BY <1>4, <2>2, <2>3 DEF p, q, r
<1>10. k + 1 \in 1 .. n \/ (k - n) + 1 \in 1 .. n \/ k = n + n
  BY <1>2
<1> QED  BY <1>7, <1>8, <1>9, <1>10

\* A step of the long division, and what its recursion computes.
LongStep(num, den, v, j) ==
  LET d == Len(den)
      k == (Len(num) - d) - j + 1
      c == Times(v[k + d], Inv(den[d]))
  IN [i \in DOMAIN num |-> Minus(v[i], Times(c, Coeff(den, i - 1 - k)))]
LongRun(num, den, f) ==
  f = [j \in 0 .. (Len(num) - Len(den)) |-> IF j = 0 THEN num ELSE LongStep(num, den, f[j - 1], j)]

\* What is left of the upper half before step j + 1.
KeepsUpper(v, c, n, j) == \A i \in (n + 1) .. ((n + n) - j) : v[i] = c[i]

\* A step by x^n - 1.
LEMMA LongStepIs ==
  ASSUME NEW n \in Nat, n > 0, NEW c \in Vectors(n + n), NEW v \in Vectors(n + n), NEW j \in 1 .. (n - 1)
  PROVE  /\ LongStep(c, VanishingPoly(n), v, j) \in Vectors(n + n)
         /\ KeepsUpper(v, c, n, j - 1) => KeepsUpper(LongStep(c, VanishingPoly(n), v, j), c, n, j)
<1> DEFINE V == VanishingPoly(n)
           m == n + n
           k == (Len(c) - Len(V)) - j + 1
           e == Times(v[k + Len(V)], Inv(V[Len(V)]))
           w == LongStep(c, V, v, j)
<1>1. Len(V) = n + 1 /\ V[n + 1] = 1
  <2>1. n + 1 \in Nat /\ n + 1 # 1 /\ n + 1 \in 1 .. (n + 1)
    OBVIOUS
  <2> QED  BY <2>1 DEF VanishingPoly
<1>2. Len(c) = m /\ DOMAIN c = 1 .. m /\ m \in Nat
  <2>1. m \in Nat /\ c \in [1 .. m -> Elements]
    BY DEF Vectors
  <2> HIDE DEF m
  <2> QED  BY <2>1
<1>3. k = n - j /\ k + Len(V) = ((n + n) - j) + 1
  BY <1>1, <1>2
<1>4. w = [i \in 1 .. m |-> Minus(v[i], Times(e, Coeff(V, i - 1 - k)))]
  BY <1>2 DEF LongStep
<1>5. e \in Elements
  <2>1. v[k + Len(V)] \in Elements
    <3>1. ((n + n) - j) + 1 \in 1 .. m
      OBVIOUS
    <3> QED  BY <1>3, <3>1 DEF Vectors
  <2>2. V[Len(V)] \in Elements \ {0}
    BY <1>1, ZeroOne
  <2> QED  BY <2>1, <2>2, InverseIs, Typed
<1>6. V \in Vectors(n + 1) /\ \A i \in Int : Coeff(V, i) = IF i = 0 THEN MinusOne ELSE IF i = n THEN 1 ELSE 0
  BY VanishingIs
<1>7. \A i \in 1 .. m : v[i] \in Elements
  BY DEF Vectors
<1> HIDE DEF e, w, V
<1>8. w \in Vectors(m)
  <2>1. ASSUME NEW i \in 1 .. m PROVE Minus(v[i], Times(e, Coeff(V, i - 1 - k))) \in Elements
    <3>1. i - 1 - k \in Int
      BY <1>3
    <3>2. Coeff(V, i - 1 - k) \in Elements
      BY <1>6, <3>1, MinusOneIs, ZeroOne
    <3> QED  BY <1>5, <1>7, <2>1, <3>2, Typed
  <2> QED  BY <1>4, <2>1 DEF Vectors
<1>9. ASSUME KeepsUpper(v, c, n, j - 1) PROVE KeepsUpper(w, c, n, j)
  <2>1. ASSUME NEW i \in (n + 1) .. ((n + n) - j) PROVE w[i] = c[i]
    <3>1. /\ i \in (n + 1) .. ((n + n) - (j - 1)) /\ i \in 1 .. m
          /\ i - 1 - (n - j) \in Int /\ i - 1 - (n - j) # 0 /\ i - 1 - (n - j) # n
      OBVIOUS
    <3>2. v[i] = c[i] /\ v[i] \in Elements
      BY <1>7, <1>9, <3>1 DEF KeepsUpper
    <3>3. Coeff(V, i - 1 - k) = 0
      BY <1>3, <1>6, <3>1
    <3>4. w[i] = Minus(v[i], Times(e, 0))
      BY <1>4, <3>1, <3>3
    <3>5. Times(e, 0) = 0 /\ Minus(v[i], 0) = v[i]
      BY <1>5, <3>2, Ring
    <3> QED  BY <3>2, <3>4, <3>5
  <2> QED  BY <2>1 DEF KeepsUpper
<1> QED  BY <1>8, <1>9 DEF w, V

\* The recursion of the long division by x^n - 1 is one.
LEMMA LongRuns ==
  ASSUME NEW n \in Nat, n > 0, NEW c \in Vectors(n + n)
  PROVE  \E f : LongRun(c, VanishingPoly(n), f)
<1> DEFINE V == VanishingPoly(n)
           m == n + n
           top == n - 1
           S == Vectors(m)
           F == [j \in 1 .. top |-> [v \in S |-> LongStep(c, V, v, j)]]
<1>1. Len(c) - Len(V) = top /\ top \in Nat
  <2>1. Len(V) = n + 1
    BY DEF VanishingPoly
  <2>2. Len(c) = m
    BY DEF Vectors
  <2> QED  BY <2>1, <2>2
<1>2. \A j \in 1 .. top : \A v \in S : LongStep(c, V, v, j) \in S
  BY LongStepIs
<1>3. F \in [1 .. top -> [S -> S]] /\ \A j \in 1 .. top, v \in S : F[j][v] = LongStep(c, V, v, j)
  BY <1>2
<1>4. c \in S
  OBVIOUS
<1> HIDE DEF F, S, V, top
<1>5. PICK t : Iterates(top, S, c, F, t)
  BY <1>1, <1>3, <1>4, Recursion
<1>6. t \in [0 .. top -> S] /\ t[0] = c /\ \A j \in 1 .. top : t[j] = F[j][t[j - 1]]
  BY <1>5 DEF Iterates
<1>7. ASSUME NEW j \in 0 .. top PROVE t[j] = IF j = 0 THEN c ELSE LongStep(c, V, t[j - 1], j)
  <2>1. CASE j = 0
    BY <1>6, <2>1
  <2>2. CASE j # 0
    <3>1. j \in 1 .. top /\ j - 1 \in 0 .. top
      BY <1>1, <2>2
    <3>2. t[j - 1] \in S
      BY <1>6, <3>1
    <3> QED  BY <1>3, <1>6, <2>2, <3>1, <3>2
  <2> QED  BY <2>1, <2>2
<1>8. t = [j \in 0 .. top |-> IF j = 0 THEN c ELSE LongStep(c, V, t[j - 1], j)]
  BY <1>6, <1>7
<1>9. LongRun(c, V, t)
  BY <1>1, <1>8 DEF LongRun
<1> QED  BY <1>9 DEF V

\* Long division finds the upper half, too
\* (oracle-layer/src/quotient.rs, build_quotient; poly.rs).
LEMMA BuildIs ==
  ASSUME NEW n \in Nat, n > 0, NEW c \in Vectors(n + n)
  PROVE  BuildQuotient(c, n) = Upper(c, n)
<1> DEFINE V == VanishingPoly(n)
           m == n + n
           top == n - 1
           f == CHOOSE f : LongRun(c, V, f)
<1>1. /\ Len(V) = n + 1 /\ V[n + 1] = 1 /\ Len(c) = m
      /\ Len(c) - Len(V) = top /\ top \in Nat
  <2>1. n + 1 \in Nat /\ n + 1 # 1 /\ n + 1 \in 1 .. (n + 1)
    OBVIOUS
  <2>2. Len(V) = n + 1 /\ V[n + 1] = 1
    BY <2>1 DEF VanishingPoly
  <2>3. Len(c) = m
    BY DEF Vectors
  <2> QED  BY <2>2, <2>3
<1>2. LongRun(c, V, f)
  <2>1. \E g : LongRun(c, V, g)
    BY LongRuns
  <2> HIDE DEF V
  <2> QED  BY <2>1
<1>3. \A j \in 0 .. top : f[j] = IF j = 0 THEN c ELSE LongStep(c, V, f[j - 1], j)
  <2> HIDE DEF f, V
  <2> QED  BY <1>1, <1>2 DEF LongRun
<1> DEFINE S == {j \in 0 .. top : f[j] \in Vectors(m) /\ KeepsUpper(f[j], c, n, j)}
<1> HIDE DEF f
<1>4. 0 \in S
  <2>1. f[0] = c /\ 0 \in 0 .. top
    BY <1>1, <1>3
  <2> QED  BY <2>1 DEF KeepsUpper
<1>5. \A j \in 1 .. top : j - 1 \in S => j \in S
  <2> TAKE j \in 1 .. top
  <2> HAVE j - 1 \in S
  <2>1. j \in 0 .. top /\ j # 0 /\ j \in 1 .. (n - 1)
    OBVIOUS
  <2>2. f[j] = LongStep(c, V, f[j - 1], j)
    BY <1>3, <2>1
  <2>3. f[j - 1] \in Vectors(n + n) /\ KeepsUpper(f[j - 1], c, n, j - 1)
    OBVIOUS
  <2>4. f[j] \in Vectors(n + n) /\ KeepsUpper(f[j], c, n, j)
    BY <2>1, <2>2, <2>3, LongStepIs
  <2> QED  BY <2>1, <2>4
<1>6. \A j \in 0 .. top : j \in S
  <2> HIDE DEF S, top
  <2> QED  BY <1>1, <1>4, <1>5, Up
<1>7. BuildQuotient(c, n) = [k \in 1 .. n |-> Times(f[(n - 1) - k + 1][(k + (n + 1)) - 1], Inv(1))]
  <2>1. ~(Len(c) - Len(V) < 0) /\ ~(V[Len(V)] = 0) /\ top + 1 = n
    BY <1>1
  <2>2. PolyDiv(c, V) = [k \in 1 .. ((Len(c) - Len(V)) + 1) |->
                           Times(f[(Len(c) - Len(V)) - k + 1][k + Len(V) - 1], Inv(V[Len(V)]))]
    <3> HIDE DEF V
    <3> QED  BY <2>1 DEF PolyDiv, LongRun, LongStep, f
  <2> DEFINE G(t, d, e) == [k \in 1 .. (t + 1) |-> Times(f[t - k + 1][k + d - 1], Inv(e))]
  <2>3. PolyDiv(c, V) = G(Len(c) - Len(V), Len(V), V[Len(V)])
    BY <2>2
  <2>4. PolyDiv(c, V) = G(n - 1, n + 1, 1)
    <3> HIDE DEF V, G
    <3> QED  BY <1>1, <2>3
  <2>5. G(n - 1, n + 1, 1) = [k \in 1 .. n |-> Times(f[(n - 1) - k + 1][(k + (n + 1)) - 1], Inv(1))]
    <3>1. (n - 1) + 1 = n
      OBVIOUS
    <3> QED  BY <3>1
  <2> QED  BY <2>4, <2>5 DEF BuildQuotient
<1>8. Inv(1) = 1
  <2>1. Inv(1) \in Elements /\ Times(1, Inv(1)) = 1
    BY ZeroOne, InverseIs
  <2> QED  BY <2>1, Ring
<1>9. ASSUME NEW k \in 1 .. n
      PROVE  Times(f[(n - 1) - k + 1][(k + (n + 1)) - 1], Inv(1)) = c[k + n]
  <2>1. /\ (n - 1) - k + 1 = n - k /\ n - k \in 0 .. top /\ (k + (n + 1)) - 1 = k + n
        /\ k + n \in (n + 1) .. ((n + n) - (n - k)) /\ k + n \in 1 .. m
    OBVIOUS
  <2>2. KeepsUpper(f[n - k], c, n, n - k)
    BY <1>6, <2>1
  <2>3. f[n - k][k + n] = c[k + n]
    BY <2>1, <2>2 DEF KeepsUpper
  <2>4. c[k + n] \in Elements
    BY <2>1 DEF Vectors
  <2>5. Times(c[k + n], 1) = c[k + n]
    BY <2>4, Ring
  <2> QED  BY <1>8, <2>1, <2>3, <2>5
<1> QED  BY <1>7, <1>9 DEF Upper

\* The sum of the halves has the same value at the n-th roots of one.
LEMMA WrappedAt ==
  ASSUME NEW n \in Nat, NEW c \in Vectors(n + n), NEW x \in Elements, Power(x, n) = 1
  PROVE  At(Wrapped(c, n), x) = At(c, x)
<1> DEFINE m == n + n
           lo == [k \in 1 .. n |-> c[k]]
           l == [k \in 1 .. m |-> IF k <= n THEN c[k] ELSE 0]
           hi == Upper(c, n)
           u == Shifted(hi, n, n)
           r == Wrapped(c, n)
<1>1. m \in Nat /\ n \in 0 .. m /\ \A k \in 1 .. n : k \in 1 .. m
  OBVIOUS
<1>2. \A k \in 1 .. m : c[k] \in Elements
  BY DEF Vectors
<1>3. hi \in Vectors(n) /\ r \in Vectors(n)
  BY UpperTyped
<1>4. lo \in Vectors(n)
  BY <1>1, <1>2 DEF Vectors
<1>5. l \in Vectors(m)
  BY <1>2, ZeroOne DEF Vectors
<1>6. Combines(r, lo, 1, hi, n)
  <2>1. ASSUME NEW k \in 1 .. n PROVE r[k] = Plus(lo[k], Times(1, hi[k]))
    <3>1. r[k] = Plus(c[k], c[k + n]) /\ lo[k] = c[k] /\ hi[k] = c[k + n]
      BY DEF Wrapped, Upper
    <3>2. k + n \in 1 .. m
      OBVIOUS
    <3>3. Times(1, c[k + n]) = c[k + n]
      BY <1>2, <3>2, Ring
    <3> QED  BY <3>1, <3>3
  <2> QED  BY <2>1 DEF Combines
<1>7. Combines(c, l, 1, u, m)
  <2>1. ASSUME NEW k \in 1 .. m PROVE c[k] = Plus(l[k], Times(1, u[k]))
    <3>1. u[k] = IF k <= n THEN 0 ELSE hi[k - n]
      BY DEF Shifted
    <3>2. Times(1, 0) = 0 /\ Plus(c[k], 0) = c[k] /\ Times(1, c[k]) = c[k] /\ Plus(0, c[k]) = c[k]
      BY <1>2, ZeroOne, Ring
    <3>3. ~(k <= n) => k - n \in 1 .. n /\ (k - n) + n = k
      OBVIOUS
    <3>4. ~(k <= n) => hi[k - n] = c[k]
      BY <3>3 DEF Upper
    <3> QED  BY <3>1, <3>2, <3>4
  <2> QED  BY <2>1 DEF Combines
<1>8. Shortens(lo, l, n, m)
  BY <1>1 DEF Shortens
<1>9. u \in Vectors(m) /\ At(u, x) = Times(Power(x, n), At(hi, x))
  BY <1>3, ShiftedTyped, ShiftAt
<1>10. c \in Vectors(m)
  OBVIOUS
<1> HIDE DEF lo, l, hi, u, r, m
<1>11. At(r, x) = Plus(At(lo, x), Times(1, At(hi, x)))
  BY <1>3, <1>4, <1>6, ZeroOne, AtCombines
<1>12. At(c, x) = Plus(At(l, x), Times(1, At(u, x)))
  BY <1>1, <1>5, <1>7, <1>9, <1>10, ZeroOne, AtCombines
<1>13. At(lo, x) = At(l, x)
  BY <1>1, <1>4, <1>5, <1>8, ShorterAt
<1>14. At(u, x) = At(hi, x)
  <2>1. At(hi, x) \in Elements
    BY <1>3, TermsAre
  <2>2. Times(1, At(hi, x)) = At(hi, x)
    BY <2>1, Ring
  <2> QED  BY <1>9, <2>2
<1> QED  BY <1>11, <1>12, <1>13, <1>14 DEF r

\* One minus a polynomial.
OneMinus(p, n) == [k \in 1 .. n |-> Minus(IF k = 1 THEN 1 ELSE 0, p[k])]

\* Its value.
LEMMA OneMinusAt ==
  ASSUME NEW n \in Nat, n > 0, NEW p \in Vectors(n), NEW x \in Elements
  PROVE  OneMinus(p, n) \in Vectors(n) /\ At(OneMinus(p, n), x) = Minus(1, At(p, x))
<1> DEFINE e == [k \in 1 .. n |-> IF k = 1 THEN 1 ELSE 0]
           q == OneMinus(p, n)
<1>1. e \in Vectors(n) /\ \A k \in 1 .. n : p[k] \in Elements
  BY ZeroOne DEF Vectors
<1>2. \A k \in 1 .. n : q[k] = Minus(e[k], p[k]) /\ e[k] \in Elements
  BY <1>1 DEF OneMinus, Vectors
<1>3. q \in Vectors(n)
  <2>1. q = [k \in 1 .. n |-> Minus(e[k], p[k])]
    BY DEF OneMinus
  <2>2. \A k \in 1 .. n : Minus(e[k], p[k]) \in Elements
    BY <1>1, <1>2, Typed
  <2> QED  BY <2>1, <2>2 DEF Vectors
<1>4. e[1] = 1 /\ \A k \in 1 .. n : k # 1 => e[k] = 0
  OBVIOUS
<1> HIDE DEF e, q
<1>5. Combines(q, e, MinusOne, p, n)
  <2>1. ASSUME NEW k \in 1 .. n PROVE q[k] = Plus(e[k], Times(MinusOne, p[k]))
    <3>1. Times(MinusOne, p[k]) = Minus(0, p[k])
      BY <1>1, MinusOneIs
    <3>2. Plus(e[k], Minus(0, p[k])) = Minus(e[k], p[k])
      BY <1>1, <1>2, MinusAdds
    <3> QED  BY <1>2, <3>1, <3>2
  <2> QED  BY <2>1 DEF Combines
<1>6. At(q, x) = Plus(At(e, x), Times(MinusOne, At(p, x)))
  BY <1>1, <1>3, <1>5, MinusOneIs, AtCombines
<1>7. At(e, x) = 1
  <2>1. Terms(e, x) \in Vectors(n)
        /\ \A k \in 1 .. n : Power(x, k - 1) \in Elements /\ Terms(e, x)[k] = Times(e[k], Power(x, k - 1))
    BY <1>1, TermsAre
  <2>2. 1 \in 1 .. n /\ 1 - 1 = 0
    OBVIOUS
  <2>3. \A k \in 1 .. n : k # 1 => Terms(e, x)[k] = 0
    <3> TAKE k \in 1 .. n
    <3> HAVE k # 1
    <3>1. Times(0, Power(x, k - 1)) = 0
      BY <2>1, Ring
    <3> QED  BY <1>4, <2>1, <3>1
  <2>4. Total(Terms(e, x)) = Terms(e, x)[1]
    BY <2>1, <2>2, <2>3, TotalSingle
  <2>5. Power(x, 0) = 1 /\ Times(1, 1) = 1
    BY PowerIs, Ring, ZeroOne
  <2>6. Terms(e, x)[1] = Times(e[1], Power(x, 1 - 1))
    BY <2>1, <2>2
  <2> QED  BY <1>4, <2>2, <2>4, <2>5, <2>6 DEF At
<1>8. At(p, x) \in Elements
  BY TermsAre
<1>9. Plus(1, Times(MinusOne, At(p, x))) = Minus(1, At(p, x))
  <2>1. Times(MinusOne, At(p, x)) = Minus(0, At(p, x))
    BY <1>8, MinusOneIs
  <2> QED  BY <1>8, <2>1, MinusAdds, ZeroOne
<1> QED  BY <1>3, <1>6, <1>7, <1>9 DEF q

\* t(1-t) is zero for zero and one only.
LEMMA ZeroOrOne ==
  ASSUME NEW a \in Elements
  PROVE  Times(a, Minus(1, a)) = 0 <=> a \in {0, 1}
<1>1. Minus(1, a) \in Elements /\ (Minus(1, a) = 0 <=> 1 = a)
  BY Ring, Typed, ZeroOne
<1>2. ASSUME a # 0, a # 1 PROVE Times(a, Minus(1, a)) # 0
  BY <1>1, <1>2, NoZeroDivisor
<1>3. Times(0, Minus(1, a)) = 0
  BY <1>1, Ring
<1>4. Minus(1, 1) = 0 /\ Times(1, 0) = 0
  BY ZeroOne, Ring
<1> QED  BY <1>2, <1>3, <1>4

\* The rule t(1-t) of a column.
Rule(t) == PolyTimes(InterpolateSubgroup(t), OneMinus(InterpolateSubgroup(t), Len(t)))

\* At the points of the domain it has the rule's value in the rows.
LEMMA RuleIs ==
  ASSUME NEW K \in 1 .. 30, NEW n, n = Two(K), (P - 1) % n = 0, NEW t \in Vectors(n)
  PROVE  /\ Rule(t) \in Vectors(n + n)
         /\ \A i \in 1 .. n : At(Wrapped(Rule(t), n), TwoAdicDomain(n)[i]) = Times(t[i], Minus(1, t[i]))
<1> DEFINE p == InterpolateSubgroup(t)
           q == OneMinus(p, n)
           dom == TwoAdicDomain(n)
<1>1. /\ n \in Nat /\ n >= 2 /\ n > 0 /\ IsRoot(PrimitiveRoot(n), K) /\ AreDistinct(dom, n)
      /\ \A i \in 1 .. n : dom[i] = Power(PrimitiveRoot(n), i - 1)
  BY SubgroupIs
<1>2. p \in Vectors(n) /\ Takes(p, dom, t, n)
  BY SubgroupMeets
<1>3. Rule(t) = PolyTimes(p, q)
  <2>1. Len(t) = n
    BY <1>1 DEF Vectors
  <2> QED  BY <2>1 DEF Rule
<1> HIDE DEF p, dom
<1>4. q \in Vectors(n) /\ \A x \in Elements : At(q, x) = Minus(1, At(p, x))
  BY <1>1, <1>2, ZeroOne, OneMinusAt
<1> HIDE DEF q
<1>5. PolyTimes(p, q) \in Vectors(n + n)
  BY <1>1, <1>2, <1>4, PolyTimesIs
<1> DEFINE c == PolyTimes(p, q)
<1>6. ASSUME NEW i \in 1 .. n PROVE At(Wrapped(c, n), dom[i]) = Times(t[i], Minus(1, t[i]))
  <2> DEFINE x == dom[i]
             w == PrimitiveRoot(n)
  <2>1. x \in Elements /\ x = Power(w, i - 1) /\ At(p, x) = t[i]
    BY <1>1, <1>2 DEF AreDistinct, Takes
  <2>2. w \in Elements /\ Power(w, n) = 1
    <3>1. K \in 0 .. 30 /\ IsRoot(w, K)
      BY <1>1
    <3> HIDE DEF w
    <3> QED  BY <3>1, RootsDistinct
  <2> HIDE DEF x, w
  <2>3. Power(x, n) = 1
    <3>1. i - 1 \in Nat
      BY <1>1
    <3>2. Power(Power(w, i - 1), n) = Power(Power(w, n), i - 1)
      BY <1>1, <2>2, <3>1, PowersCommute
    <3> QED  BY <2>1, <2>2, <3>1, <3>2, OneStays
  <2>4. At(c, x) = Times(At(p, x), At(q, x))
    BY <1>1, <1>2, <1>4, <2>1, PolyTimesAt
  <2> HIDE DEF c
  <2>5. At(Wrapped(c, n), x) = At(c, x)
    BY <1>1, <1>5, <2>1, <2>3, WrappedAt DEF c
  <2> QED  BY <1>4, <2>1, <2>4, <2>5 DEF x
<1> QED  BY <1>3, <1>5, <1>6 DEF dom

\* The rule holds in every row exactly if its remainder is zero.
LEMMA RowsVanish ==
  ASSUME NEW K \in 1 .. 30, NEW n, n = Two(K), (P - 1) % n = 0, NEW t \in Vectors(n)
  PROVE  VanishesOnDomain(Rule(t), n) <=> \A r \in 1 .. n : t[r] \in {0, 1}
<1> DEFINE c == Rule(t)
           w == Wrapped(c, n)
           dom == TwoAdicDomain(n)
<1>1. n \in Nat /\ n > 0 /\ AreDistinct(dom, n)
  BY SubgroupIs
<1>2. c \in Vectors(n + n) /\ \A i \in 1 .. n : At(w, dom[i]) = Times(t[i], Minus(1, t[i]))
  BY RuleIs
<1> HIDE DEF c, dom
<1>3. w \in Vectors(n) /\ DOMAIN w = 1 .. n
  BY <1>1, <1>2, UpperTyped DEF Wrapped
<1>4. DivideByVanishing(c, n).remainder = w
  <2>1. DivideByVanishing(c, n) = [quotient |-> Upper(c, n), remainder |-> w]
    BY <1>1, <1>2, VanishingRuns
  <2> HIDE DEF w
  <2> QED  BY <2>1
<1> HIDE DEF w
<1>5. VanishesOnDomain(c, n) <=> \A k \in 1 .. n : w[k] = 0
  BY <1>3, <1>4 DEF VanishesOnDomain
<1>6. \A i \in 1 .. n : dom[i] \in Elements /\ t[i] \in Elements
  BY <1>1 DEF AreDistinct, Vectors
<1>7. ASSUME \A k \in 1 .. n : w[k] = 0 PROVE \A r \in 1 .. n : t[r] \in {0, 1}
  <2> TAKE i \in 1 .. n
  <2> DEFINE x == dom[i]
  <2>1. x \in Elements
    BY <1>6
  <2>2. At(w, x) = Times(t[i], Minus(1, t[i]))
    BY <1>2
  <2> HIDE DEF x
  <2>3. At(w, x) = 0
    <3>1. Terms(w, x) \in Vectors(n)
          /\ \A k \in 1 .. n : Power(x, k - 1) \in Elements /\ Terms(w, x)[k] = Times(w[k], Power(x, k - 1))
      BY <1>1, <1>3, <2>1, TermsAre
    <3>2. \A k \in 1 .. n : Terms(w, x)[k] = 0
      <4> TAKE k \in 1 .. n
      <4>1. Times(0, Power(x, k - 1)) = 0
        BY <3>1, Ring
      <4> QED  BY <1>7, <3>1, <4>1
    <3> QED  BY <1>1, <3>1, <3>2, TotalZero DEF At
  <2> QED  BY <1>6, <2>2, <2>3, ZeroOrOne
<1>8. ASSUME \A r \in 1 .. n : t[r] \in {0, 1} PROVE \A k \in 1 .. n : w[k] = 0
  <2>1. \A i \in 1 .. n : At(w, dom[i]) = 0
    <3> TAKE i \in 1 .. n
    <3>1. t[i] \in {0, 1} /\ t[i] \in Elements
      BY <1>6, <1>8
    <3>2. Times(t[i], Minus(1, t[i])) = 0
      BY <3>1, ZeroOrOne
    <3> QED  BY <1>2, <3>2
  <2>2. AreRoots(dom, w, n)
    BY <1>1, <1>6, <2>1 DEF AreRoots, AreDistinct
  <2> QED  BY <1>1, <1>3, <2>2, TooManyRoots
<1> QED  BY <1>5, <1>7, <1>8 DEF c

\* Equal vectors are equal polynomials.
LEMMA SameIsSame == \A p : SamePoly(p, p)
BY DEF SamePoly

\* A rule over a column holds in every row exactly if x^n - 1 divides it, and
\* both divisions find its quotient.
LEMMA RulesMeet == ClientInv => RuleVanishesOnRows
<1> SUFFICES ASSUME ClientInv, step = "requested", GoodHeight(deep.trace),
                    NEW c \in 0 .. (Len(deep.trace[1]) - 1)
             PROVE  LET t == Column(deep.trace, c)
                        n == Len(t)
                        p == InterpolateSubgroup(t)
                        rule == PolyTimes(p, [k \in 1 .. n |-> Minus(IF k = 1 THEN 1 ELSE 0, p[k])])
                        divided == DivideByVanishing(rule, n)
                        product == PolyTimes(divided.quotient, VanishingPoly(n))
                    IN /\ VanishesOnDomain(rule, n) <=> \A r \in 1 .. n : t[r] \in {0, 1}
                       /\ \A k \in 0 .. (2 * n) :
                            Coeff(rule, k) = Plus(Coeff(product, k), Coeff(divided.remainder, k))
                       /\ SamePoly(BuildQuotient(rule, n), divided.quotient)
  BY DEF RuleVanishesOnRows
<1> DEFINE trace == deep.trace
           t == Column(trace, c)
           n == Len(trace)
           w == deep.num_columns
<1>1. deep \in DeepRequests
  BY DEF ClientInv
<1>2. PICK K \in 1 .. 30 : n = Two(K) /\ (P - 1) % Two(K) = 0
  BY <1>1, HeightIs
<1>3. n \in Nat /\ n >= 2 /\ n > 0
  <2>1. n \in Nat /\ n >= 2
    BY <1>2, SubgroupIs
  <2> HIDE DEF n
  <2> QED  BY <2>1
<1>4. /\ trace \in Seq(Seq(Elements)) /\ w \in Nat
      /\ \A i \in DOMAIN trace : Len(trace[i]) = w
  BY <1>1, FriClientsAssumption
<1>5. c \in Nat /\ c < w
  <2>1. 1 \in DOMAIN trace
    BY <1>3, <1>4
  <2>2. Len(trace[1]) = w
    BY <1>4, <2>1
  <2> QED  BY <1>4, <2>2
<1>6. t \in Vectors(n) /\ Len(t) = n
  <2> HIDE DEF trace, w
  <2> QED  BY <1>4, <1>5, ColumnIs
<1> HIDE DEF t, n
<1>7. n = Two(K) /\ (P - 1) % n = 0
  BY <1>2
<1> DEFINE rule == Rule(t)
           divided == DivideByVanishing(rule, n)
           product == PolyTimes(divided.quotient, VanishingPoly(n))
<1>8. rule = PolyTimes(InterpolateSubgroup(t),
                       [k \in 1 .. n |-> Minus(IF k = 1 THEN 1 ELSE 0, InterpolateSubgroup(t)[k])])
  BY <1>6 DEF Rule, OneMinus
<1>9. rule \in Vectors(n + n)
  BY <1>6, <1>7, RuleIs
<1>10. VanishesOnDomain(rule, n) <=> \A r \in 1 .. n : t[r] \in {0, 1}
  BY <1>6, <1>7, RowsVanish
<1> HIDE DEF rule
<1>11. divided.quotient = Upper(rule, n) /\ divided.remainder = Wrapped(rule, n)
  <2>1. divided = [quotient |-> Upper(rule, n), remainder |-> Wrapped(rule, n)]
    BY <1>3, <1>9, VanishingRuns
  <2> HIDE DEF divided
  <2> QED  BY <2>1
<1> HIDE DEF divided
<1>12. \A k \in 0 .. (2 * n) : Coeff(rule, k) = Plus(Coeff(product, k), Coeff(divided.remainder, k))
  <2> TAKE k \in 0 .. (2 * n)
  <2>1. Coeff(rule, k) = Plus(Coeff(PolyTimes(Upper(rule, n), VanishingPoly(n)), k), Coeff(Wrapped(rule, n), k))
    BY <1>3, <1>9, DivisionIsExact
  <2> QED  BY <1>11, <2>1
<1>13. SamePoly(BuildQuotient(rule, n), divided.quotient)
  <2>1. BuildQuotient(rule, n) = divided.quotient
    BY <1>3, <1>9, <1>11, BuildIs
  <2> QED  BY <2>1, SameIsSame
<1> HIDE DEF product
<1> QED  BY <1>6, <1>8, <1>10, <1>12, <1>13 DEF t, divided, product

-----------------------------------------------------------------------------
\* What FRI folds over is the powers of a root of unity.
DomainInv == phase # "idle" => RootDomain(domain)

\* The domain of a quotient is.
LEMMA SubgroupIsRoot ==
  ASSUME NEW K \in 1 .. 30, NEW n, n = Two(K), (P - 1) % n = 0
  PROVE  RootDomain(TwoAdicDomain(n))
<1> DEFINE w == PrimitiveRoot(n)
           d == TwoAdicDomain(n)
           h == Two(K - 1)
<1>1. n \in Nat /\ n >= 2 /\ IsRoot(w, K) /\ \A i \in 1 .. n : d[i] = Power(w, i - 1)
  BY SubgroupIs
<1>2. Len(d) = n /\ DOMAIN d = 1 .. n
  BY <1>1 DEF TwoAdicDomain
<1>3. h \in Nat /\ n = h + h
  BY TwoHalves
<1>4. w \in Elements /\ Power(w, h) = MinusOne
  <2>1. K # 0
    OBVIOUS
  <2> QED  BY <1>1, <2>1 DEF IsRoot
<1> HIDE DEF w, d, h
<1>5. n \div 2 = h
  BY <1>3
<1>6. d[2] = w
  <2>1. 2 \in 1 .. n /\ 2 - 1 = 1
    BY <1>1
  <2>2. d[2] = Power(w, 1)
    BY <1>1, <2>1
  <2> QED  BY <1>4, <2>2, Square
<1>7. /\ Power(d[2], Len(d) \div 2) = Minus(0, 1)
      /\ \A i \in DOMAIN d : d[i] = Power(d[2], i - 1)
  BY <1>1, <1>2, <1>4, <1>5, <1>6 DEF MinusOne
<1> QED  BY <1>7 DEF RootDomain, d

\* A step of FRI keeps its domain.
LEMMA FriKeepsDomain ==
  ASSUME FriNext, DomainInv
  PROVE  DomainInv'
<1>1. phase = "committing" /\ UNCHANGED domain
  BY DEF FriNext, FriFold, FriQuery, FriFinish
<1> QED  BY <1>1 DEF DomainInv

\* No domain is there at first.
LEMMA DomainInitially == Init => DomainInv
BY DEF Init, FriInit, DomainInv

\* Every step keeps what domains are.
LEMMA DomainStep ==
  ASSUME CallersGiveRoots, ClientInv, DeepInv, DomainInv, [Next]_vars
  PROVE  DomainInv'
<1>1. ASSUME UNCHANGED friVars PROVE DomainInv'
  BY <1>1 DEF DomainInv, friVars
<1>2. CASE PlainFri
  <2>1. CASE FriCommit(job.evals, job.domain, job.queries, job.faulty)
    <3>1. job \in FriJobs
      BY <1>2 DEF PlainFri, ClientInv
    <3>2. domain' = job.domain
      BY <2>1 DEF FriCommit
    <3> QED  BY <3>1, <3>2 DEF CallersGiveRoots, DomainInv
  <2>2. CASE FriNext
    BY <2>2, FriKeepsDomain
  <2> QED  BY <1>2, <2>1, <2>2 DEF PlainFri
<1>3. CASE DeepNext
  <2>1. CASE WireFri
    <3> DEFINE n == DomainSize(Len(quotient))
    <3>1. step = "quotient" /\ quotient # <<>>
          /\ FriCommit(Fft(Padded(n), PrimitiveRoot(n)), TwoAdicDomain(n), deep.nqueries, FALSE)
      BY <2>1 DEF WireFri
    <3>2. domain' = TwoAdicDomain(n)
      BY <3>1 DEF FriCommit
    <3>3. PICK K \in 1 .. 30 : n = Two(K) /\ (P - 1) % Two(K) = 0
      BY <3>1 DEF DeepInv, Rooted
    <3> HIDE DEF n
    <3>4. n = Two(K) /\ (P - 1) % n = 0
      BY <3>3
    <3>5. RootDomain(TwoAdicDomain(n))
      BY <3>4, SubgroupIsRoot
    <3>6. RootDomain(domain')
      BY <3>2, <3>5
    <3>7. DomainInv' <=> (phase' # "idle" => RootDomain(domain'))
      BY DEF DomainInv, RootDomain
    <3> QED  BY <3>6, <3>7
  <2>2. CASE ProveFri
    BY <2>2, FriKeepsDomain DEF ProveFri
  <2>3. CASE GateDenies \/ ComputeDeepQuotient \/ QuotientAbsent \/ VerifyFri \/ NextBatch
    BY <1>1, <2>3 DEF GateDenies, ComputeDeepQuotient, QuotientAbsent, VerifyFri, NextBatch
  <2>4. ASSUME NEW side \in Sides, NEW bits \in Bits, Consume(side, bits) PROVE DomainInv'
    BY <1>1, <2>4 DEF Consume
  <2>5. ASSUME NEW side \in Sides, Reset(side) PROVE DomainInv'
    BY <1>1, <2>5 DEF Reset
  <2>6. ASSUME NEW open \in BOOLEAN, VerifyDeepBatch(open) PROVE DomainInv'
    BY <1>1, <2>6 DEF VerifyDeepBatch
  <2> QED  BY <1>3, <2>1, <2>2, <2>3, <2>4, <2>5, <2>6 DEF DeepNext
<1>4. CASE TelemetryNext
  <2>1. CASE BeginFri
    <3>1. job \in Jobs /\ FriCommit(job.evals, job.domain, job.queries, FALSE)
      BY <2>1 DEF BeginFri, ClientInv
    <3>2. domain' = job.domain
      BY <3>1 DEF FriCommit
    <3> QED  BY <3>1, <3>2 DEF CallersGiveRoots, DomainInv
  <2>2. CASE RunFri
    BY <2>2, FriKeepsDomain DEF RunFri
  <2>3. CASE ~BeginFri /\ ~RunFri
    <3>1. UNCHANGED friVars
      BY <1>4, <2>3 DEF TelemetryNext, Tick, Refuse, BeginProving, Serialize, BeginVerify,
                FinishVerify, GitCommit, PackRefs, ReadHead, ReadRef, ReadPackedRefs, EmitFails,
                EmitArtifact, Deliver, Reread
    <3> QED  BY <1>1, <3>1
  <2> QED  BY <2>1, <2>2, <2>3
<1> QED  BY <1>1, <1>2, <1>3, <1>4 DEF Next, vars

\* The invariants give the property.
LEMMA PolynomialsTold ==
  ASSUME ClientInv, DomainInv
  PROVE  PolynomialsMeet
<1>1. FoldHalvesPolynomial
  <2>1. CASE phase = "idle"
    BY <2>1 DEF FoldHalvesPolynomial
  <2>2. CASE phase # "idle"
    BY <2>2, HonestFoldsHalve DEF ClientInv, DomainInv
  <2> QED  BY <2>1, <2>2
<1> QED  BY <1>1, InterpolationsMeet, RulesMeet DEF PolynomialsMeet

\* Folds, transforms, interpolations and divisions are what they are named for
\* on polynomials, when callers of FRI give it domains of roots of unity
\* (oracle-layer: fri.rs, fft.rs, poly.rs, quotient.rs; deep_ali.rs).
THEOREM PolynomialsAgree == CallersGiveRoots => (Spec => []PolynomialsMeet)
<1> SUFFICES ASSUME CallersGiveRoots PROVE Spec => []PolynomialsMeet
  OBVIOUS
<1>1. Spec => [](ClientInv /\ RunInv)
  <2>1. Init => ClientInv /\ RunInv
    BY ClientInitially, RunInitially
  <2>2. ClientInv /\ RunInv /\ [Next]_vars => (ClientInv /\ RunInv)'
    BY ClientStep, RunStep
  <2> QED  BY <2>1, <2>2, PTL DEF Spec
<1>2. Spec => []DeepInv
  BY <1>1, DeepInitially, DeepStep, PTL DEF Spec
<1>3. ClientInv /\ DeepInv /\ DomainInv /\ [Next]_vars => DomainInv'
  BY DomainStep
<1>4. Spec => []DomainInv
  BY <1>1, <1>2, <1>3, DomainInitially, PTL DEF Spec
<1>5. ClientInv /\ DomainInv => PolynomialsMeet
  BY PolynomialsTold
<1> QED  BY <1>1, <1>4, <1>5, PTL

-----------------------------------------------------------------------------
\* The words of a proof, and what inverts them.

Words == Seq(Nat)

\* Words put together.
LEMMA Concat ==
  ASSUME NEW S, NEW a \in Seq(S), NEW b \in Seq(S), NEW c \in Seq(S)
  PROVE  /\ (a \o b) \o c = a \o (b \o c) /\ a \o b \in Seq(S)
         /\ <<>> \o a = a /\ a \o <<>> = a /\ <<>> \in Seq(S)
         /\ Len(a \o b) = Len(a) + Len(b)
<1>1. a \o b \in Seq(S) /\ Len(a \o b) = Len(a) + Len(b) /\ b \o c \in Seq(S)
  OBVIOUS
<1>2. <<>> \o a = a /\ a \o <<>> = a /\ <<>> \in Seq(S)
  OBVIOUS
<1>3. (a \o b) \o c = a \o (b \o c)
  OBVIOUS
<1> QED  BY <1>1, <1>2, <1>3

\* Words are put together in any grouping.
LEMMA Assoc ==
  ASSUME NEW a \in Words, NEW b \in Words, NEW c \in Words
  PROVE  (a \o b) \o c = a \o (b \o c)
BY Concat DEF Words

Grouped(a, b, c) == (a \o b) \o c = a \o (b \o c)

\* The same, by name.
LEMMA AnyGroup ==
  ASSUME NEW a \in Words, NEW b \in Words, NEW c \in Words PROVE Grouped(a, b, c)
BY Assoc, Zenon DEF Grouped

\* Words put together are words, as many as both.
LEMMA Joined ==
  ASSUME NEW a \in Words, NEW b \in Words
  PROVE  a \o b \in Words /\ Len(a \o b) = Len(a) + Len(b)
BY Concat DEF Words

\* One word before others.
LEMMA Word ==
  ASSUME NEW S, NEW x \in S, NEW w \in Seq(S)
  PROVE  /\ <<x>> \in Seq(S) /\ <<x>> \o w \in Seq(S) /\ <<x>> \o w # <<>> /\ <<x>> # <<>>
         /\ Head(<<x>> \o w) = x /\ Tail(<<x>> \o w) = w
         /\ Len(<<x>> \o w) = Len(w) + 1 /\ Len(<<x>>) = 1
<1>1. <<x>> \in Seq(S) /\ Len(<<x>>) = 1 /\ <<x>> # <<>>
  OBVIOUS
<1>2. <<x>> \o w \in Seq(S) /\ Len(<<x>> \o w) = Len(w) + 1
  OBVIOUS
<1>3. <<x>> \o w # <<>> /\ Head(<<x>> \o w) = x
  OBVIOUS
<1>4. Tail(<<x>> \o w) = w
  OBVIOUS
<1> QED  BY <1>1, <1>2, <1>3, <1>4

\* And taken from them.
LEMMA FirstWord ==
  ASSUME NEW S, NEW w \in Seq(S), w # <<>>
  PROVE  Head(w) \in S /\ Tail(w) \in Seq(S) /\ w = <<Head(w)>> \o Tail(w) /\ Len(w) = Len(Tail(w)) + 1
<1>1. Head(w) \in S /\ Tail(w) \in Seq(S) /\ Len(w) = Len(Tail(w)) + 1
  OBVIOUS
<1>2. w = <<Head(w)>> \o Tail(w)
  OBVIOUS
<1> QED  BY <1>1, <1>2

\* What a parser may yield.
Results(T) == [ok : {TRUE}, value : T, rest : Words] \cup {Fail}

\* A result is a value and what is left, or a failure.
LEMMA ResultIs ==
  ASSUME NEW T, NEW x \in Results(T)
  PROVE  /\ x.ok \in BOOLEAN
         /\ x.ok => x = Done(x.value, x.rest) /\ x.value \in T /\ x.rest \in Words
         /\ ~x.ok => x = Fail
<1>1. CASE x = Fail
  BY <1>1 DEF Fail
<1>2. CASE x \in [ok : {TRUE}, value : T, rest : Words]
  <2>1. x.ok = TRUE /\ x.value \in T /\ x.rest \in Words
    BY <1>2
  <2>2. x = [ok |-> TRUE, value |-> x.value, rest |-> x.rest]
    BY <1>2
  <2> QED  BY <2>1, <2>2 DEF Done
<1> QED  BY <1>1, <1>2 DEF Results

\* Both are results.
LEMMA DoneIs ==
  ASSUME NEW T, NEW v \in T, NEW r \in Words
  PROVE  Done(v, r) \in Results(T) /\ Done(v, r).ok /\ Done(v, r).value = v /\ Done(v, r).rest = r
         /\ Fail \in Results(T) /\ ~Fail.ok
BY DEF Results, Fail, Done

-----------------------------------------------------------------------------
\* Partial concatenations of a sequence of sequences.
Joins(s, n, S, h) ==
  /\ h \in [0 .. n -> Seq(S)] /\ h[0] = <<>>
  /\ \A k \in 1 .. n : h[k] = h[k - 1] \o s[k]

\* There is such a concatenation, part by part.
LEMMA JoinsExist ==
  ASSUME NEW S, NEW n \in Nat, NEW s \in [1 .. n -> Seq(S)]
  PROVE  \E h : Joins(s, n, S, h)
<1> DEFINE V == Seq(S)
           F == [k \in 1 .. n |-> [v \in V |-> v \o s[k]]]
<1>1. <<>> \in V /\ \A k \in 1 .. n : \A v \in V : v \o s[k] \in V
  OBVIOUS
<1>2. F \in [1 .. n -> [V -> V]] /\ \A k \in 1 .. n : \A v \in V : F[k][v] = v \o s[k]
  BY <1>1
<1> HIDE DEF F, V
<1>3. PICK h : Iterates(n, V, <<>>, F, h)
  BY <1>1, <1>2, Recursion
<1>4. h \in [0 .. n -> V] /\ h[0] = <<>> /\ \A k \in 1 .. n : h[k] = F[k][h[k - 1]]
  BY <1>3 DEF Iterates
<1>5. ASSUME NEW k \in 1 .. n PROVE h[k] = h[k - 1] \o s[k]
  <2>1. k - 1 \in 0 .. n
    OBVIOUS
  <2>2. h[k - 1] \in V
    BY <1>4, <2>1
  <2> QED  BY <1>2, <1>4, <2>2
<1>6. h \in [0 .. n -> Seq(S)]
  BY <1>4 DEF V
<1> QED  BY <1>4, <1>5, <1>6 DEF Joins

\* The last of them is what FlattenSeq yields.
LEMMA FlattenIs ==
  ASSUME NEW S, NEW n \in Nat, NEW s \in [1 .. n -> Seq(S)], NEW h, Joins(s, n, S, h)
  PROVE  FlattenSeq(s) = h[n]
<1>1. Len(s) = n /\ DOMAIN s = 1 .. n
  BY VectorIsSeq
<1>2. CASE n = 0
  <2>1. FlattenSeq(s) = IF Len(s) = 0 THEN s ELSE FlattenSeq(s)
    BY <1>1, <1>2 DEF FlattenSeq
  <2>2. s = <<>>
    BY <1>1, <1>2
  <2> QED  BY <1>1, <1>2, <2>1, <2>2 DEF Joins
<1>3. CASE n # 0
  <2> DEFINE g == [i \in 1 .. n |-> h[i]]
  <2>1. h[1] = s[1] /\ \A k \in 1 .. n : h[k] = h[k - 1] \o s[k]
    <3>1. 1 \in 1 .. n /\ 1 - 1 = 0
      BY <1>3
    <3>2. h[1] = h[1 - 1] \o s[1]
      BY <3>1 DEF Joins
    <3>3. <<>> \o s[1] = s[1]
      BY <3>1
    <3> QED  BY <3>1, <3>2, <3>3 DEF Joins
  <2>2. g = [i \in 1 .. n |-> IF i = 1 THEN s[i] ELSE g[i - 1] \o s[i]]
    <3> SUFFICES ASSUME NEW i \in 1 .. n PROVE g[i] = IF i = 1 THEN s[i] ELSE g[i - 1] \o s[i]
      OBVIOUS
    <3>1. CASE i = 1
      BY <2>1, <3>1
    <3>2. CASE i # 1
      <4>1. i - 1 \in 1 .. n
        BY <3>2
      <4>2. g[i - 1] = h[i - 1] /\ g[i] = h[i]
        BY <4>1
      <4> QED  BY <2>1, <3>2, <4>2
    <3> QED  BY <3>1, <3>2
  <2> HIDE DEF g
  <2>3. FlattenSeq(s) =
          LET flatten[i \in 1 .. n] == IF i = 1 THEN s[i] ELSE flatten[i - 1] \o s[i]
          IN flatten[n]
    BY <1>1, <1>3 DEF FlattenSeq
  <2>4. PICK f : /\ f = [i \in 1 .. n |-> IF i = 1 THEN s[i] ELSE f[i - 1] \o s[i]]
                 /\ FlattenSeq(s) = f[n]
    BY <2>2, <2>3
  <2> DEFINE A == {k \in Nat : k \in 0 .. n /\ (k = 0 \/ f[k] = h[k])}
  <2>5. ASSUME NEW k \in 1 .. n, k - 1 \in A PROVE k \in A
    <3>1. CASE k = 1
      <4>1. f[1] = s[1]
        BY <2>4, <3>1
      <4> QED  BY <2>1, <3>1, <4>1
    <3>2. CASE k # 1
      <4>1. k - 1 # 0 /\ f[k - 1] = h[k - 1]
        BY <2>5, <3>2
      <4>2. f[k] = f[k - 1] \o s[k]
        BY <2>4, <3>2
      <4>3. f[k] = h[k]
        BY <2>1, <4>1, <4>2
      <4> QED  BY <4>3
    <3>3. k = 1 \/ k # 1
      OBVIOUS
    <3> QED  BY <3>1, <3>2, <3>3
  <2>6. 0 \in A
    OBVIOUS
  <2> HIDE DEF A
  <2>7. \A k \in 1 .. n : k - 1 \in A => k \in A
    BY <2>5
  <2>8. n \in A
    <3>1. \A k \in 0 .. n : k \in A
      BY <2>6, <2>7, Up
    <3> QED  BY <3>1
  <2> QED  BY <1>3, <2>4, <2>8 DEF A
<1> QED  BY <1>2, <1>3

Flattens(s, x) == FlattenSeq(s) = x

\* The same, by name.
LEMMA FlatEnd ==
  ASSUME NEW S, NEW n \in Nat, NEW s \in [1 .. n -> Seq(S)], NEW h, Joins(s, n, S, h)
  PROVE  Flattens(s, h[n])
BY FlattenIs, Zenon DEF Flattens

-----------------------------------------------------------------------------
\* Parsers and encoders.

\* A parser, as the function p, and an encoder, as the function e, invert each
\* other on the values T.
Inverts(p, e, T) ==
  /\ p \in [Words -> Results(T)] /\ e \in [T -> Words]
  /\ \A v \in T, r \in Words : p[e[v] \o r] = Done(v, r)
  /\ \A w \in Words : p[w].ok => w = e[p[w].value] \o p[w].rest

Flat(e, v) == FlattenSeq([i \in DOMAIN v |-> e[v[i]]])

\* What was parsed, and one more item.
More(p, u) ==
  IF ~u.ok THEN Fail
  ELSE IF ~p[u.rest].ok THEN Fail
  ELSE Done(Append(u.value, p[u.rest].value), p[u.rest].rest)

\* The results of a parser that is applied n times.
Runs(p, n, T, w, f) ==
  /\ f \in [0 .. n -> Results(Seq(T))] /\ f[0] = Done(<<>>, w)
  /\ \A k \in 1 .. n : f[k] = More(p, f[k - 1])

\* One more item keeps it a result.
LEMMA MoreIs ==
  ASSUME NEW T, NEW p \in [Words -> Results(T)], NEW u \in Results(Seq(T))
  PROVE  More(p, u) \in Results(Seq(T))
<1>1. Fail \in Results(Seq(T))
  BY DEF Results
<1>2. ASSUME u.ok, p[u.rest].ok
      PROVE  Done(Append(u.value, p[u.rest].value), p[u.rest].rest) \in Results(Seq(T))
  <2>1. u.value \in Seq(T) /\ u.rest \in Words
    BY <1>2, ResultIs
  <2>2. p[u.rest] \in Results(T)
    BY <2>1
  <2>3. p[u.rest].value \in T /\ p[u.rest].rest \in Words
    BY <1>2, <2>2, ResultIs
  <2>4. Append(u.value, p[u.rest].value) \in Seq(T)
    BY <2>1, <2>3
  <2> QED  BY <2>3, <2>4, DoneIs
<1> QED  BY <1>1, <1>2 DEF More

\* A parser can be applied any number of times.
LEMMA RunsExist ==
  ASSUME NEW T, NEW p \in [Words -> Results(T)], NEW n \in Nat, NEW w \in Words
  PROVE  \E f : Runs(p, n, T, w, f)
<1> DEFINE V == Results(Seq(T))
           F == [k \in 1 .. n |-> [v \in V |-> More(p, v)]]
<1>1. \A v \in V : More(p, v) \in V
  BY MoreIs
<1>2. Done(<<>>, w) \in V
  <2>1. <<>> \in Seq(T)
    OBVIOUS
  <2> QED  BY <2>1, DoneIs
<1> HIDE DEF V
<1>3. F \in [1 .. n -> [V -> V]] /\ \A k \in 1 .. n : \A v \in V : F[k][v] = More(p, v)
  BY <1>1
<1> HIDE DEF F
<1>4. PICK f : Iterates(n, V, Done(<<>>, w), F, f)
  BY <1>2, <1>3, Recursion
<1>5. f \in [0 .. n -> V] /\ f[0] = Done(<<>>, w) /\ \A k \in 1 .. n : f[k] = F[k][f[k - 1]]
  BY <1>4 DEF Iterates
<1>6. ASSUME NEW k \in 1 .. n PROVE f[k] = More(p, f[k - 1])
  <2>1. k - 1 \in 0 .. n
    OBVIOUS
  <2>2. f[k - 1] \in V
    BY <1>5, <2>1
  <2> QED  BY <1>3, <1>5, <2>2
<1> QED  BY <1>5, <1>6 DEF Runs, V

\* Whatever computes one item after another computes the same.
LEMMA SameRun ==
  ASSUME NEW n \in Nat, NEW f, NEW g, f[0] = g[0],
         \A k \in 1 .. n : f[k - 1] = g[k - 1] => f[k] = g[k]
  PROVE  f[n] = g[n]
<1> DEFINE A == {k \in Nat : f[k] = g[k]}
<1>1. 0 \in A /\ \A k \in 1 .. n : k - 1 \in A => k \in A
  OBVIOUS
<1> HIDE DEF A
<1>2. \A k \in 0 .. n : k \in A
  BY <1>1, Up
<1>3. n \in 0 .. n
  OBVIOUS
<1> QED  BY <1>2, <1>3 DEF A

\* The parts after each place.
LEMMA RestsExist ==
  ASSUME NEW n \in Nat, NEW s \in [1 .. n -> Words], NEW r \in Words
  PROVE  \E g : /\ g \in [0 .. n -> Words] /\ g[n] = r /\ g[0] = FlattenSeq(s) \o r
                /\ \A k \in 1 .. n : g[k - 1] = s[k] \o g[k]
<1> DEFINE V == Words
           F == [j \in 1 .. n |-> [v \in V |-> s[(n + 1) - j] \o v]]
<1>1. \A j \in 1 .. n : (n + 1) - j \in 1 .. n
  OBVIOUS
<1>2. \A j \in 1 .. n : \A v \in V : s[(n + 1) - j] \o v \in V
  BY <1>1 DEF Words
<1>3. F \in [1 .. n -> [V -> V]] /\ \A j \in 1 .. n : \A v \in V : F[j][v] = s[(n + 1) - j] \o v
  BY <1>2
<1> HIDE DEF F
<1>4. PICK t : Iterates(n, V, r, F, t)
  BY <1>3, Recursion
<1>5. t \in [0 .. n -> V] /\ t[0] = r /\ \A j \in 1 .. n : t[j] = F[j][t[j - 1]]
  BY <1>4 DEF Iterates
<1>6. ASSUME NEW j \in 1 .. n PROVE t[j] = s[(n + 1) - j] \o t[j - 1]
  <2>1. j - 1 \in 0 .. n
    OBVIOUS
  <2>2. t[j - 1] \in V
    BY <1>5, <2>1
  <2> QED  BY <1>3, <1>5, <2>2
<1> DEFINE g == [k \in 0 .. n |-> t[n - k]]
<1>7. g \in [0 .. n -> Words] /\ g[n] = r /\ \A k \in 1 .. n : g[k - 1] = s[k] \o g[k]
  <2>1. \A k \in 0 .. n : n - k \in 0 .. n
    OBVIOUS
  <2>2. g \in [0 .. n -> Words]
    BY <1>5, <2>1
  <2>3. g[n] = r
    <3>1. g[n] = t[n - n] /\ n - n = 0
      OBVIOUS
    <3> QED  BY <1>5, <3>1
  <2>4. ASSUME NEW k \in 1 .. n PROVE g[k - 1] = s[k] \o g[k]
    <3>1. g[k - 1] = t[n - (k - 1)] /\ g[k] = t[n - k]
      OBVIOUS
    <3>2. n - (k - 1) \in 1 .. n /\ (n + 1) - (n - (k - 1)) = k /\ (n - (k - 1)) - 1 = n - k
      OBVIOUS
    <3>3. t[n - (k - 1)] = s[(n + 1) - (n - (k - 1))] \o t[(n - (k - 1)) - 1]
      BY <1>6, <3>2
    <3> QED  BY <3>1, <3>2, <3>3
  <2> QED  BY <2>2, <2>3, <2>4
<1> HIDE DEF g
<1>8. PICK h : Joins(s, n, Nat, h)
  BY JoinsExist DEF Words
<1>9. /\ h \in [0 .. n -> Words] /\ h[0] = <<>> /\ FlattenSeq(s) = h[n]
      /\ \A k \in 1 .. n : h[k] = h[k - 1] \o s[k]
  <2>1. FlattenSeq(s) = h[n]
    BY <1>8, FlattenIs DEF Words
  <2> QED  BY <1>8, <2>1, Zenon DEF Words, Joins
<1> DEFINE A == {k \in Nat : k \in 0 .. n /\ h[k] \o g[k] = g[0]}
<1>10. 0 \in A
  <2>1. g[0] \in Words /\ 0 \in 0 .. n
    BY <1>7
  <2>2. <<>> \o g[0] = g[0]
    BY <2>1, Concat DEF Words
  <2> QED  BY <1>9, <2>1, <2>2
<1>11. ASSUME NEW k \in 1 .. n, k - 1 \in A PROVE k \in A
  <2>1. k - 1 \in 0 .. n /\ k \in 0 .. n /\ k \in Nat
    OBVIOUS
  <2>2. h[k - 1] \in Words /\ s[k] \in Words /\ g[k] \in Words
    BY <1>7, <1>9, <2>1
  <2>3. (h[k - 1] \o s[k]) \o g[k] = h[k - 1] \o (s[k] \o g[k])
    <3>1. Grouped(h[k - 1], s[k], g[k])
      BY <2>2, AnyGroup
    <3> QED  BY <3>1, Zenon DEF Grouped
  <2>4. h[k] = h[k - 1] \o s[k] /\ g[k - 1] = s[k] \o g[k]
    BY <1>7, <1>9
  <2>5. h[k - 1] \o g[k - 1] = g[0]
    BY <1>11
  <2>6. h[k] \o g[k] = g[0]
    BY <2>3, <2>4, <2>5
  <2> QED  BY <2>1, <2>6
<1> HIDE DEF A
<1>12. n \in A
  <2>1. \A k \in 1 .. n : k - 1 \in A => k \in A
    BY <1>11
  <2>2. \A k \in 0 .. n : k \in A
    BY <1>10, <2>1, Up
  <2>3. n \in 0 .. n
    OBVIOUS
  <2> QED  BY <2>2, <2>3
<1> QED  BY <1>7, <1>9, <1>12 DEF A

\* Items encoded are items decoded.
LEMMA RunEncodes ==
  ASSUME NEW T, NEW p, NEW e, Inverts(p, e, T), NEW n \in Nat, NEW v \in [1 .. n -> T],
         NEW r \in Words, NEW f, Runs(p, n, T, Flat(e, v) \o r, f)
  PROVE  f[n] = Done(v, r)
<1> DEFINE s == [i \in 1 .. n |-> e[v[i]]]
<1>1. s \in [1 .. n -> Words] /\ Flat(e, v) = FlattenSeq(s)
  BY DEF Inverts, Flat
<1>2. \A k \in 1 .. n : s[k] = e[v[k]] /\ v[k] \in T
  OBVIOUS
<1> HIDE DEF s
<1>3. PICK g : /\ g \in [0 .. n -> Words] /\ g[n] = r /\ g[0] = FlattenSeq(s) \o r
               /\ \A k \in 1 .. n : g[k - 1] = s[k] \o g[k]
  BY <1>1, RestsExist
<1> DEFINE first(k) == [i \in 1 .. k |-> v[i]]
           F == [k \in 0 .. n |-> Done(first(k), g[k])]
<1>4. f[0] = F[0]
  <2>1. first(0) = <<>>
    OBVIOUS
  <2>2. F[0] = Done(first(0), g[0])
    OBVIOUS
  <2> QED  BY <1>1, <1>3, <2>1, <2>2 DEF Runs
<1>5. ASSUME NEW k \in 1 .. n, f[k - 1] = F[k - 1] PROVE f[k] = F[k]
  <2>1. k - 1 \in 0 .. n /\ k \in 0 .. n /\ k - 1 \in Nat /\ k \in Nat /\ k = (k - 1) + 1
    OBVIOUS
  <2>2. F[k - 1] = Done(first(k - 1), g[k - 1]) /\ F[k] = Done(first(k), g[k])
    BY <2>1
  <2>3. g[k] \in Words /\ g[k - 1] \in Words /\ g[k - 1] = e[v[k]] \o g[k]
    BY <1>2, <1>3, <2>1
  <2>4. p[g[k - 1]] = Done(v[k], g[k])
    BY <1>2, <2>3 DEF Inverts
  <2>5. first(k - 1) \in Seq(T) /\ Append(first(k - 1), v[k]) = first(k)
    <3>1. first(k - 1) \in [1 .. (k - 1) -> T] /\ first(k) \in [1 .. k -> T]
      OBVIOUS
    <3>2. first(k - 1) \in Seq(T) /\ Len(first(k - 1)) = k - 1 /\ first(k) \in Seq(T) /\ Len(first(k)) = k
      BY <2>1, <3>1, VectorIsSeq
    <3>3. \A i \in 1 .. k : first(k)[i] = IF i = k THEN v[k] ELSE first(k - 1)[i]
      OBVIOUS
    <3> HIDE DEF first
    <3>4. Append(first(k - 1), v[k]) \in [1 .. k -> T]
      <4>1. Append(first(k - 1), v[k]) \in Seq(T) /\ Len(Append(first(k - 1), v[k])) = k
        BY <3>2, <1>2, <2>1
      <4> QED  BY <4>1, SeqIsVector
    <3>5. \A i \in 1 .. k : Append(first(k - 1), v[k])[i] = first(k)[i]
      BY <3>2, <3>3
    <3> QED  BY <3>1, <3>2, <3>4, <3>5
  <2>6. f[k] = More(p, f[k - 1])
    BY DEF Runs
  <2> HIDE DEF F, first
  <2>7. f[k - 1].ok /\ f[k - 1].rest = g[k - 1] /\ f[k - 1].value = first(k - 1)
    BY <1>5, <2>2 DEF Done
  <2>8. p[g[k - 1]].ok /\ p[g[k - 1]].value = v[k] /\ p[g[k - 1]].rest = g[k]
    BY <2>4 DEF Done
  <2> QED  BY <2>2, <2>5, <2>6, <2>7, <2>8 DEF More
<1>6. F[n] = Done(v, r)
  <2>1. n \in 0 .. n /\ first(n) = v
    OBVIOUS
  <2>2. F[n] = Done(first(n), g[n])
    BY <2>1
  <2> QED  BY <1>3, <2>1, <2>2
<1> HIDE DEF F
<1>7. f[n] = F[n]
  <2>1. \A k \in 1 .. n : f[k - 1] = F[k - 1] => f[k] = F[k]
    BY <1>5
  <2> QED  BY <1>4, <2>1, SameRun
<1> QED  BY <1>6, <1>7

-----------------------------------------------------------------------------
\* Repeated parsers.

\* Words that begin with the encoded items v.
Begins(w, e, v, r) == w = Flat(e, v) \o r

\* One item more is encoded behind the others.
LEMMA FlatAppend ==
  ASSUME NEW T, NEW e \in [T -> Words], NEW k \in Nat, NEW x \in [1 .. k -> T], NEW y \in T
  PROVE  /\ Append(x, y) \in [1 .. (k + 1) -> T]
         /\ Flat(e, x) \in Words
         /\ Begins(Flat(e, Append(x, y)), e, x, e[y])
<1>1. x \in Seq(T) /\ Len(x) = k
  BY VectorIsSeq
<1>2. Append(x, y) \in Seq(T) /\ Len(Append(x, y)) = k + 1
  BY <1>1
<1>3. Append(x, y) \in [1 .. (k + 1) -> T]
  BY <1>2, SeqIsVector
<1>4. \A i \in 1 .. (k + 1) : Append(x, y)[i] = IF i = k + 1 THEN y ELSE x[i]
  BY <1>1
<1> DEFINE z == Append(x, y)
           s == [i \in 1 .. k |-> e[x[i]]]
           s2 == [i \in 1 .. (k + 1) |-> e[z[i]]]
<1> HIDE DEF z
<1>5. z \in [1 .. (k + 1) -> T] /\ \A i \in 1 .. (k + 1) : z[i] = IF i = k + 1 THEN y ELSE x[i]
  BY <1>3, <1>4 DEF z
<1>6. s \in [1 .. k -> Words] /\ s2 \in [1 .. (k + 1) -> Words] /\ k + 1 \in Nat
  BY <1>5
<1>7. s2[k + 1] = e[y] /\ \A i \in 1 .. k : s2[i] = s[i]
  <2>1. k + 1 \in 1 .. (k + 1) /\ \A i \in 1 .. k : i \in 1 .. (k + 1) /\ i # k + 1
    OBVIOUS
  <2> QED  BY <1>5, <2>1
<1>8. Flat(e, x) = FlattenSeq(s) /\ Flat(e, z) = FlattenSeq(s2)
  <2>1. DOMAIN x = 1 .. k /\ DOMAIN z = 1 .. (k + 1)
    BY <1>5
  <2> QED  BY <2>1 DEF Flat
<1> HIDE DEF s, s2
<1>9. s \in [1 .. k -> Seq(Nat)] /\ s2 \in [1 .. (k + 1) -> Seq(Nat)]
  BY <1>6 DEF Words
<1>10. PICK h : Joins(s2, k + 1, Nat, h)
  BY <1>6, <1>9, JoinsExist
<1> DEFINE g == [i \in 0 .. k |-> h[i]]
<1>11. /\ h \in [0 .. (k + 1) -> Seq(Nat)] /\ h[0] = <<>>
       /\ \A i \in 1 .. (k + 1) : h[i] = h[i - 1] \o s2[i]
  BY <1>10 DEF Joins
<1>12. Joins(s, k, Nat, g)
  <2>1. g \in [0 .. k -> Seq(Nat)] /\ g[0] = <<>>
    <3>1. \A i \in 0 .. k : i \in 0 .. (k + 1)
      OBVIOUS
    <3>2. 0 \in 0 .. k
      OBVIOUS
    <3> QED  BY <1>11, <3>1, <3>2
  <2>2. ASSUME NEW i \in 1 .. k PROVE g[i] = g[i - 1] \o s[i]
    <3>1. i \in 1 .. (k + 1) /\ i \in 0 .. k /\ i - 1 \in 0 .. k
      OBVIOUS
    <3>2. g[i] = h[i] /\ g[i - 1] = h[i - 1]
      BY <3>1
    <3>3. h[i] = h[i - 1] \o s2[i]
      BY <1>11, <3>1
    <3> QED  BY <1>7, <3>2, <3>3
  <2> QED  BY <2>1, <2>2 DEF Joins
<1>13. FlattenSeq(s) = g[k] /\ FlattenSeq(s2) = h[k + 1]
  BY <1>6, <1>9, <1>10, <1>12, FlattenIs
<1>14. g[k] = h[k] /\ h[k + 1] = h[k] \o s2[k + 1] /\ h[k] \in Seq(Nat)
  <2>1. k + 1 \in 1 .. (k + 1) /\ (k + 1) - 1 = k /\ k \in 0 .. k /\ k \in 0 .. (k + 1)
    OBVIOUS
  <2>2. h[k + 1] = h[(k + 1) - 1] \o s2[k + 1]
    BY <1>11, <2>1
  <2> QED  BY <1>11, <2>1, <2>2
<1> HIDE DEF g
<1>15. Flat(e, z) = Flat(e, x) \o e[y] /\ Flat(e, x) \in Words
  BY <1>7, <1>8, <1>13, <1>14 DEF Words
<1> QED  BY <1>3, <1>15 DEF z, Begins

\* Nothing encodes to nothing.
LEMMA FlatNothing == ASSUME NEW e PROVE Flat(e, <<>>) = <<>>
<1>1. [i \in DOMAIN <<>> |-> e[<<>>[i]]] = <<>>
  OBVIOUS
<1>2. FlattenSeq(<<>>) = <<>>
  BY DEF FlattenSeq
<1> QED  BY <1>1, <1>2 DEF Flat

\* Items decoded are the items that were encoded.
LEMMA RunDecodes ==
  ASSUME NEW T, NEW p, NEW e, Inverts(p, e, T), NEW n \in Nat, NEW w \in Words, NEW f,
         Runs(p, n, T, w, f), f[n].ok
  PROVE  /\ f[n].value \in [1 .. n -> T] /\ f[n].rest \in Words
         /\ Begins(w, e, f[n].value, f[n].rest)
<1> DEFINE Reads(k) == f[k].ok => /\ f[k].value \in [1 .. k -> T] /\ f[k].rest \in Words
                                  /\ w = Flat(e, f[k].value) \o f[k].rest
           A == {k \in Nat : Reads(k)}
<1>0. p \in [Words -> Results(T)] /\ e \in [T -> Words]
  BY DEF Inverts
<1>1. 0 \in A
  <2>1. f[0].value = <<>> /\ f[0].rest = w
    BY DEF Runs, Done
  <2>2. <<>> \in [1 .. 0 -> T] /\ 0 \in Nat
    OBVIOUS
  <2>3. <<>> \o w = w
    BY Concat DEF Words
  <2> QED  BY <2>1, <2>2, <2>3, FlatNothing
<1>2. ASSUME NEW k \in 1 .. n, k - 1 \in A PROVE k \in A
  <2>0. Reads(k) => k \in A
    <3>1. k \in Nat
      OBVIOUS
    <3> HIDE DEF Reads
    <3> QED  BY <3>1, Zenon
  <2> SUFFICES ASSUME f[k].ok PROVE Reads(k)
    <3> HIDE DEF A
    <3> QED  BY <2>0
  <2>1. k - 1 \in Nat /\ (k - 1) + 1 = k /\ k \in Nat
    OBVIOUS
  <2>2. f[k] = More(p, f[k - 1])
    BY DEF Runs
  <2> DEFINE u == f[k - 1]
             x == p[u.rest]
  <2>3. u.ok /\ x.ok /\ f[k] = Done(Append(u.value, x.value), x.rest)
    <3>1. ~Fail.ok
      BY DEF Fail
    <3> QED  BY <2>2, <3>1 DEF More
  <2>4. u.value \in [1 .. (k - 1) -> T] /\ u.rest \in Words /\ w = Flat(e, u.value) \o u.rest
    BY <1>2, <2>3
  <2> HIDE DEF u, A
  <2>5. x \in Results(T) /\ u.rest = e[x.value] \o x.rest
    BY <1>0, <2>3, <2>4, Zenon DEF Inverts
  <2> HIDE DEF x
  <2>6. x.value \in T /\ x.rest \in Words
    <3>1. x.ok => x.value \in T /\ x.rest \in Words
      BY <2>5, ResultIs
    <3> QED  BY <2>3, <3>1
  <2>7. f[k].value = Append(u.value, x.value) /\ f[k].rest = x.rest
    <3> DEFINE v == Append(u.value, x.value)
               r == x.rest
    <3>1. f[k] = Done(v, r)
      BY <2>3
    <3> HIDE DEF v, r
    <3>2. f[k].value = v /\ f[k].rest = r
      BY <3>1 DEF Done
    <3> QED  BY <3>2 DEF v, r
  <2>8. /\ Append(u.value, x.value) \in [1 .. k -> T] /\ Flat(e, u.value) \in Words
        /\ Flat(e, Append(u.value, x.value)) = Flat(e, u.value) \o e[x.value]
    <3>1. /\ Append(u.value, x.value) \in [1 .. ((k - 1) + 1) -> T] /\ Flat(e, u.value) \in Words
          /\ Begins(Flat(e, Append(u.value, x.value)), e, u.value, e[x.value])
      BY <1>0, <2>1, <2>4, <2>6, FlatAppend
    <3> QED  BY <2>1, <3>1, Zenon DEF Begins
  <2>9. (Flat(e, u.value) \o e[x.value]) \o x.rest = Flat(e, u.value) \o (e[x.value] \o x.rest)
    <3>1. Flat(e, u.value) \in Words /\ e[x.value] \in Words /\ x.rest \in Words
      BY <1>0, <2>6, <2>8
    <3>2. Grouped(Flat(e, u.value), e[x.value], x.rest)
      BY <3>1, AnyGroup
    <3> QED  BY <3>2, Zenon DEF Grouped
  <2>10. w = Flat(e, f[k].value) \o f[k].rest
    BY <2>4, <2>5, <2>7, <2>8, <2>9
  <2> QED  BY <2>6, <2>7, <2>8, <2>10
<1> HIDE DEF A
<1>3. \A k \in 1 .. n : k - 1 \in A => k \in A
  BY <1>2
<1>4. \A k \in 0 .. n : k \in A
  BY <1>1, <1>3, Up
<1>5. n \in A
  <2>1. n \in 0 .. n
    OBVIOUS
  <2> QED  BY <1>4, <2>1
<1> QED  BY <1>5 DEF A, Begins

\* A parser that is applied n times, and its encoder.
Repeated(p, n, T) == [w \in Words |-> (CHOOSE f : Runs(p, n, T, w, f))[n]]

\* It is the end of such a run.
LEMMA RepeatedIs ==
  ASSUME NEW T, NEW p \in [Words -> Results(T)], NEW n \in Nat, NEW w \in Words
  PROVE  \E f : Runs(p, n, T, w, f) /\ Repeated(p, n, T)[w] = f[n]
<1>1. \E f : Runs(p, n, T, w, f)
  BY RunsExist
<1>2. Runs(p, n, T, w, CHOOSE f : Runs(p, n, T, w, f))
  BY <1>1
<1>3. Repeated(p, n, T)[w] = (CHOOSE f : Runs(p, n, T, w, f))[n]
  BY DEF Repeated
<1> QED  BY <1>2, <1>3

\* It undoes the concatenation of the encoded items, and takes nothing else.
Undoes(q, e, V) ==
  /\ q \in [Words -> Results(V)]
  /\ \A v \in V, r, w \in Words : Begins(w, e, v, r) => q[w] = Done(v, r)
  /\ \A w \in Words : q[w].ok => Begins(w, e, q[w].value, q[w].rest)

\* Repetition keeps parser and encoder inverse to each other.
LEMMA RepeatedInverts ==
  ASSUME NEW T, NEW p, NEW e, Inverts(p, e, T), NEW n \in Nat
  PROVE  Undoes(Repeated(p, n, T), e, [1 .. n -> T])
<1>0. p \in [Words -> Results(T)] /\ e \in [T -> Words]
  BY DEF Inverts
<1>1. ASSUME NEW v \in [1 .. n -> T] PROVE Flat(e, v) \in Words
  <2> DEFINE s == [i \in 1 .. n |-> e[v[i]]]
  <2>1. s \in [1 .. n -> Seq(Nat)] /\ Flat(e, v) = FlattenSeq(s)
    BY <1>0 DEF Flat, Words
  <2> QED  BY <2>1, FlattenTyped DEF Words
<1>2. ASSUME NEW v \in [1 .. n -> T], NEW r \in Words
      PROVE  Repeated(p, n, T)[Flat(e, v) \o r] = Done(v, r)
  <2>1. Flat(e, v) \o r \in Words
    BY <1>1, Joined
  <2>2. PICK f : Runs(p, n, T, Flat(e, v) \o r, f) /\ Repeated(p, n, T)[Flat(e, v) \o r] = f[n]
    BY <1>0, <2>1, RepeatedIs
  <2>3. f[n] = Done(v, r)
    BY <2>2, RunEncodes
  <2> QED  BY <2>2, <2>3
<1>3. ASSUME NEW w \in Words
      PROVE  /\ Repeated(p, n, T)[w] \in Results([1 .. n -> T])
             /\ Repeated(p, n, T)[w].ok =>
                  Begins(w, e, Repeated(p, n, T)[w].value, Repeated(p, n, T)[w].rest)
  <2>1. PICK f : Runs(p, n, T, w, f) /\ Repeated(p, n, T)[w] = f[n]
    BY <1>0, RepeatedIs
  <2>2. f[n] \in Results(Seq(T))
    <3>1. n \in 0 .. n /\ f \in [0 .. n -> Results(Seq(T))]
      BY <2>1 DEF Runs
    <3> QED  BY <3>1
  <2>3. CASE f[n].ok
    <3>1. /\ f[n].value \in [1 .. n -> T] /\ f[n].rest \in Words
          /\ Begins(w, e, f[n].value, f[n].rest)
      BY <2>1, <2>3, RunDecodes
    <3>2. f[n] = Done(f[n].value, f[n].rest)
      BY <2>2, <2>3, ResultIs
    <3>3. Done(f[n].value, f[n].rest) \in Results([1 .. n -> T])
      BY <3>1, DoneIs
    <3> QED  BY <2>1, <3>1, <3>2, <3>3
  <2>4. CASE ~f[n].ok
    <3>1. f[n] = Fail
      BY <2>2, <2>4, ResultIs
    <3>2. Fail \in Results([1 .. n -> T])
      BY DEF Results
    <3> QED  BY <2>1, <2>4, <3>1, <3>2
  <2> QED  BY <2>2, <2>3, <2>4, ResultIs
<1>4. Repeated(p, n, T) \in [Words -> Results([1 .. n -> T])]
  <2>1. Repeated(p, n, T) = [w \in Words |-> Repeated(p, n, T)[w]]
    BY DEF Repeated
  <2> QED  BY <1>3, <2>1
<1>5. ASSUME NEW v \in [1 .. n -> T], NEW r \in Words, NEW w \in Words, Begins(w, e, v, r)
      PROVE  Repeated(p, n, T)[w] = Done(v, r)
  BY <1>2, <1>5 DEF Begins
<1> QED  BY <1>3, <1>4, <1>5 DEF Undoes

-----------------------------------------------------------------------------
\* Counted items.

\* Items that take a word each take as many words as there are.
LEMMA FlatLength ==
  ASSUME NEW T, NEW e \in [T -> Words], \A v \in T : e[v] # <<>>,
         NEW n \in Nat, NEW v \in [1 .. n -> T]
  PROVE  Flat(e, v) \in Words /\ Len(Flat(e, v)) >= n
<1> DEFINE s == [i \in 1 .. n |-> e[v[i]]]
<1>1. s \in [1 .. n -> Seq(Nat)] /\ Flat(e, v) = FlattenSeq(s) /\ \A i \in 1 .. n : s[i] # <<>>
  BY DEF Flat, Words
<1> HIDE DEF s
<1>2. PICK h : Joins(s, n, Nat, h)
  BY <1>1, JoinsExist
<1>3. /\ h \in [0 .. n -> Seq(Nat)] /\ h[0] = <<>> /\ FlattenSeq(s) = h[n]
      /\ \A k \in 1 .. n : h[k] = h[k - 1] \o s[k]
  <2>1. FlattenSeq(s) = h[n]
    <3>1. Flattens(s, h[n])
      BY <1>1, <1>2, FlatEnd
    <3> QED  BY <3>1, Zenon DEF Flattens
  <2> QED  BY <1>2, <2>1 DEF Joins
<1> DEFINE A == {k \in Nat : k \in 0 .. n /\ Len(h[k]) >= k}
<1>4. 0 \in A
  BY <1>3
<1>5. ASSUME NEW k \in 1 .. n, k - 1 \in A PROVE k \in A
  <2>1. k - 1 \in 0 .. n /\ k \in 0 .. n /\ k \in Nat /\ Len(h[k - 1]) >= k - 1
    BY <1>5
  <2>2. h[k - 1] \in Seq(Nat) /\ s[k] \in Seq(Nat) /\ Len(s[k]) \in Nat /\ Len(s[k]) # 0
    BY <1>1, <1>3, <2>1
  <2>3. Len(h[k]) = Len(h[k - 1]) + Len(s[k]) /\ Len(h[k - 1]) \in Nat
    <3>1. h[k] = h[k - 1] \o s[k]
      BY <1>3
    <3>2. Len(h[k - 1] \o s[k]) = Len(h[k - 1]) + Len(s[k])
      BY <2>2, Concat
    <3> QED  BY <2>2, <3>1, <3>2
  <2>4. Len(h[k]) >= k
    <3>1. \A a, b \in Nat : a >= k - 1 /\ b # 0 => a + b >= k
      OBVIOUS
    <3> QED  BY <2>1, <2>2, <2>3, <3>1, Zenon
  <2> QED  BY <2>1, <2>4
<1> HIDE DEF A
<1>6. n \in A
  <2>1. \A k \in 1 .. n : k - 1 \in A => k \in A
    BY <1>5
  <2>2. \A k \in 0 .. n : k \in A
    BY <1>4, <2>1, Up
  <2>3. n \in 0 .. n
    OBVIOUS
  <2> QED  BY <2>2, <2>3
<1>7. Len(h[n]) >= n /\ h[n] \in Seq(Nat)
  <2>1. n \in 0 .. n /\ Len(h[n]) >= n
    BY <1>6 DEF A
  <2> QED  BY <1>3, <2>1
<1> QED  BY <1>1, <1>3, <1>7 DEF Words

\* Lists whose length is one of A, behind that length.
Lists(T, A) == {v \in Seq(T) : Len(v) \in A}
ListCode(e, T, A) == [v \in Lists(T, A) |-> <<Len(v)>> \o Flat(e, v)]
Counting(p, T, A) ==
  [w \in Words |-> IF w # <<>> /\ Head(w) <= Len(w) - 1 /\ Head(w) \in A
                   THEN Repeated(p, Head(w), T)[Tail(w)] ELSE Fail]

\* So does a count before the items, if every item takes a word: then the bound
\* read_bounded_len checks rejects no list (oracle_bridge.rs).
LEMMA CountingInverts ==
  ASSUME NEW T, NEW p, NEW e, Inverts(p, e, T), \A v \in T : e[v] # <<>>, NEW A, A \subseteq Nat
  PROVE  /\ Inverts(Counting(p, T, A), ListCode(e, T, A), Lists(T, A))
         /\ \A v \in Lists(T, A) : ListCode(e, T, A)[v] # <<>>
<1> DEFINE q == Counting(p, T, A)
           c == ListCode(e, T, A)
<1>0. e \in [T -> Words]
  BY DEF Inverts
<1>1. ASSUME NEW v \in Lists(T, A)
      PROVE  /\ v \in [1 .. Len(v) -> T] /\ Len(v) \in Nat /\ Len(v) \in A
             /\ Flat(e, v) \in Words /\ Len(Flat(e, v)) >= Len(v)
             /\ c[v] = <<Len(v)>> \o Flat(e, v) /\ c[v] \in Words /\ c[v] # <<>>
  <2>1. v \in [1 .. Len(v) -> T] /\ Len(v) \in Nat /\ Len(v) \in A
    BY SeqIsVector DEF Lists
  <2>2. Flat(e, v) \in Words /\ Len(Flat(e, v)) >= Len(v)
    BY <1>0, <2>1, FlatLength
  <2>3. c[v] = <<Len(v)>> \o Flat(e, v)
    BY DEF ListCode
  <2>4. <<Len(v)>> \o Flat(e, v) \in Words /\ <<Len(v)>> \o Flat(e, v) # <<>>
    BY <2>1, <2>2, Word DEF Words
  <2> QED  BY <2>1, <2>2, <2>3, <2>4
<1>2. ASSUME NEW v \in Lists(T, A), NEW r \in Words PROVE q[c[v] \o r] = Done(v, r)
  <2> DEFINE f == Flat(e, v)
             w == <<Len(v)>> \o (f \o r)
  <2>1. f \in Words /\ f \o r \in Words /\ Len(f \o r) >= Len(v)
    <3>1. f \in Words /\ Len(f) >= Len(v) /\ Len(v) \in Nat
      BY <1>1
    <3> HIDE DEF f
    <3>2. f \o r \in Words /\ Len(f \o r) = Len(f) + Len(r) /\ Len(f) \in Nat /\ Len(r) \in Nat
      BY <3>1, Joined DEF Words
    <3> QED  BY <3>1, <3>2
  <2>2. c[v] \o r = w
    <3>1. <<Len(v)>> \in Words
      BY <1>1 DEF Words
    <3>2. (<<Len(v)>> \o f) \o r = <<Len(v)>> \o (f \o r)
      BY <2>1, <3>1, Assoc, Zenon
    <3> QED  BY <1>1, <3>2
  <2> HIDE DEF f
  <2>3. /\ w \in Words /\ w # <<>> /\ Head(w) = Len(v) /\ Tail(w) = f \o r
        /\ Len(w) = Len(f \o r) + 1 /\ Len(f \o r) \in Nat
    BY <1>1, <2>1, Word DEF Words
  <2> HIDE DEF w
  <2>4. q[w] = Repeated(p, Len(v), T)[f \o r]
    <3>1. Head(w) <= Len(w) - 1 /\ Head(w) \in A
      <4>1. \A a, b \in Nat : b >= a => a <= (b + 1) - 1
        OBVIOUS
      <4>2. Len(v) \in Nat /\ Len(v) \in A
        BY <1>1
      <4>3. Len(v) <= (Len(f \o r) + 1) - 1
        BY <2>1, <2>3, <4>1, <4>2, Zenon
      <4> QED  BY <2>3, <4>2, <4>3, Zenon
    <3> QED  BY <2>3, <3>1 DEF Counting
  <2>5. Repeated(p, Len(v), T)[f \o r] = Done(v, r)
    <3> DEFINE n == Len(v)
    <3>1. n \in Nat /\ v \in [1 .. n -> T]
      BY <1>1
    <3> HIDE DEF n
    <3>2. Begins(f \o r, e, v, r)
      BY DEF Begins, f
    <3>3. \A u \in [1 .. n -> T], s, x \in Words : Begins(x, e, u, s) => Repeated(p, n, T)[x] = Done(u, s)
      <4>1. Undoes(Repeated(p, n, T), e, [1 .. n -> T])
        BY <3>1, RepeatedInverts
      <4> QED  BY <4>1 DEF Undoes
    <3>4. Repeated(p, n, T)[f \o r] = Done(v, r)
      BY <2>1, <3>1, <3>2, <3>3, Zenon
    <3> QED  BY <3>4 DEF n
  <2> QED  BY <2>2, <2>4, <2>5
<1>3. ASSUME NEW w \in Words
      PROVE  q[w] \in Results(Lists(T, A)) /\ (q[w].ok => w = c[q[w].value] \o q[w].rest)
  <2>1. CASE w # <<>> /\ Head(w) <= Len(w) - 1 /\ Head(w) \in A
    <3> DEFINE n == Head(w)
               t == Tail(w)
               x == Repeated(p, n, T)[t]
    <3>1. n \in Nat /\ t \in Words /\ w = <<n>> \o t
      BY <2>1, FirstWord DEF Words
    <3>2. q[w] = x
      BY <2>1 DEF Counting
    <3> HIDE DEF n, t
    <3>3. x \in Results([1 .. n -> T]) /\ (x.ok => Begins(t, e, x.value, x.rest))
      <4>1. Undoes(Repeated(p, n, T), e, [1 .. n -> T])
        BY <3>1, RepeatedInverts
      <4> QED  BY <3>1, <4>1 DEF Undoes
    <3>4. CASE x.ok
      <4>1. x = Done(x.value, x.rest) /\ x.value \in [1 .. n -> T] /\ x.rest \in Words
        BY <3>3, <3>4, ResultIs
      <4>2. x.value \in Seq(T) /\ Len(x.value) = n
        BY <3>1, <4>1, VectorIsSeq
      <4>3. x.value \in Lists(T, A)
        BY <2>1, <4>2 DEF Lists, n
      <4>4. c[x.value] = <<n>> \o Flat(e, x.value) /\ Flat(e, x.value) \in Words
        BY <1>1, <4>2, <4>3
      <4>5. (<<n>> \o Flat(e, x.value)) \o x.rest = <<n>> \o (Flat(e, x.value) \o x.rest)
        <5>1. <<n>> \in Words
          BY <3>1 DEF Words
        <5> QED  BY <4>1, <4>4, <5>1, Assoc, Zenon
      <4>6. t = Flat(e, x.value) \o x.rest
        BY <3>3, <3>4 DEF Begins
      <4>7. w = c[x.value] \o x.rest
        BY <3>1, <4>4, <4>5, <4>6
      <4>8. x \in Results(Lists(T, A))
        <5>1. Done(x.value, x.rest) \in Results(Lists(T, A))
          BY <4>1, <4>3, DoneIs
        <5> QED  BY <4>1, <5>1
      <4> QED  BY <3>2, <4>7, <4>8
    <3>5. CASE ~x.ok
      <4>1. x = Fail
        BY <3>3, <3>5, ResultIs
      <4>2. Fail \in Results(Lists(T, A))
        BY DEF Results
      <4> QED  BY <3>2, <3>5, <4>1, <4>2
    <3> QED  BY <3>4, <3>5
  <2>2. CASE ~(w # <<>> /\ Head(w) <= Len(w) - 1 /\ Head(w) \in A)
    <3>1. q[w] = Fail
      BY <2>2 DEF Counting
    <3>2. Fail \in Results(Lists(T, A)) /\ ~Fail.ok
      BY DEF Results, Fail
    <3> QED  BY <3>1, <3>2
  <2> QED  BY <2>1, <2>2
<1>4. q \in [Words -> Results(Lists(T, A))]
  <2>1. q = [w \in Words |-> q[w]]
    BY DEF Counting
  <2> HIDE DEF q
  <2> QED  BY <1>3, <2>1
<1>5. c \in [Lists(T, A) -> Words]
  <2>1. c = [v \in Lists(T, A) |-> c[v]]
    BY DEF ListCode
  <2> HIDE DEF c
  <2> QED  BY <1>1, <2>1
<1> HIDE DEF q, c
<1>6. Inverts(q, c, Lists(T, A))
  BY <1>2, <1>3, <1>4, <1>5 DEF Inverts
<1> QED  BY <1>1, <1>6 DEF q, c

-----------------------------------------------------------------------------
\* Digests, paths and roots.

\* Digests, and other words.
Word1 == [v \in Nat |-> <<v>>]
DigestParser == [w \in Words |-> ReadDigest(w)]

\* A digest is one word.
LEMMA DigestInverts == Inverts(DigestParser, Word1, Nat) /\ \A v \in Nat : Word1[v] # <<>>
<1>0. \A w \in Words : ReadDigest(w) = IF w # <<>> THEN Done(Head(w), Tail(w)) ELSE Fail
  BY DEF ReadDigest, Take
<1>1. \A v \in Nat : Word1[v] = <<v>> /\ <<v>> # <<>> /\ <<v>> \in Words
  BY DEF Word1, Words
<1>2. ASSUME NEW w \in Words
      PROVE  DigestParser[w] \in Results(Nat) /\ (DigestParser[w].ok => w = Word1[DigestParser[w].value] \o DigestParser[w].rest)
  <2>1. DigestParser[w] = ReadDigest(w)
    BY DEF DigestParser
  <2>2. CASE w # <<>>
    <3>1. Head(w) \in Nat /\ Tail(w) \in Words /\ w = <<Head(w)>> \o Tail(w)
      BY <2>2, FirstWord DEF Words
    <3>2. DigestParser[w] = Done(Head(w), Tail(w))
      BY <1>0, <2>1, <2>2
    <3>3. Done(Head(w), Tail(w)) \in Results(Nat)
      BY <3>1, DoneIs
    <3>4. DigestParser[w].value = Head(w) /\ DigestParser[w].rest = Tail(w)
      BY <3>2 DEF Done
    <3> QED  BY <1>1, <3>1, <3>2, <3>3, <3>4
  <2>3. CASE w = <<>>
    <3>1. DigestParser[w] = Fail
      BY <1>0, <2>1, <2>3
    <3> QED  BY <3>1 DEF Results, Fail
  <2> QED  BY <2>2, <2>3
<1>3. ASSUME NEW v \in Nat, NEW r \in Words PROVE DigestParser[Word1[v] \o r] = Done(v, r)
  <2> DEFINE w == <<v>> \o r
  <2>1. w \in Words /\ w # <<>> /\ Head(w) = v /\ Tail(w) = r
    BY Word DEF Words
  <2>2. Word1[v] \o r = w
    BY <1>1
  <2> HIDE DEF w
  <2> QED  BY <1>0, <2>1, <2>2 DEF DigestParser
<1>4. DigestParser \in [Words -> Results(Nat)]
  <2>1. DigestParser = [w \in Words |-> DigestParser[w]]
    BY DEF DigestParser
  <2> QED  BY <1>2, <2>1
<1>5. Word1 \in [Nat -> Words]
  BY <1>1 DEF Word1
<1> QED  BY <1>1, <1>2, <1>3, <1>4, <1>5 DEF Inverts

\* Many of the model is repetition, for digests
LEMMA ManyDigests ==
  ASSUME NEW n \in Nat, NEW w \in Words
  PROVE  Many(n, ReadDigest, w) = Repeated(DigestParser, n, Nat)[w]
<1> DEFINE Body(k, f) ==
             IF k = 0 THEN Done(<<>>, w)
             ELSE IF ~f[k - 1].ok THEN Fail
             ELSE IF ~ReadDigest(f[k - 1].rest).ok THEN Fail
             ELSE Done(Append(f[k - 1].value, ReadDigest(f[k - 1].rest).value), ReadDigest(f[k - 1].rest).rest)
<1>1. PICK f : Runs(DigestParser, n, Nat, w, f) /\ Repeated(DigestParser, n, Nat)[w] = f[n]
  BY DigestInverts, RepeatedIs DEF Inverts
<1>2. f = [k \in 0 .. n |-> Body(k, f)]
  <2> SUFFICES ASSUME NEW k \in 0 .. n PROVE f[k] = Body(k, f)
    BY <1>1 DEF Runs
  <2>1. CASE k = 0
    BY <1>1, <2>1 DEF Runs
  <2>2. CASE k # 0
    <3>1. k \in 1 .. n /\ k - 1 \in 0 .. n
      BY <2>2
    <3>2. f[k] = More(DigestParser, f[k - 1]) /\ f[k - 1] \in Results(Seq(Nat))
      BY <1>1, <3>1 DEF Runs
    <3>3. f[k - 1].ok => DigestParser[f[k - 1].rest] = ReadDigest(f[k - 1].rest)
      BY <3>2, ResultIs DEF DigestParser
    <3> QED  BY <2>2, <3>2, <3>3 DEF More
  <2> QED  BY <2>1, <2>2
<1>3. Many(n, ReadDigest, w) = (CHOOSE g : g = [k \in 0 .. n |-> Body(k, g)])[n]
  BY Zenon DEF Many, Then
<1>4. PICK g : g = [k \in 0 .. n |-> Body(k, g)] /\ Many(n, ReadDigest, w) = g[n]
  BY <1>2, <1>3
<1>5. f[0] = g[0] /\ \A k \in 1 .. n : f[k - 1] = g[k - 1] => f[k] = g[k]
  BY <1>2, <1>4
<1> HIDE DEF Body
<1>6. f[n] = g[n]
  BY <1>5, SameRun
<1> QED  BY <1>1, <1>4, <1>6

\* and for numbers.
LEMMA ManyNats ==
  ASSUME NEW n \in Nat, NEW w \in Words
  PROVE  Many(n, ReadNat, w) = Repeated(DigestParser, n, Nat)[w]
<1> DEFINE Body(k, f) ==
             IF k = 0 THEN Done(<<>>, w)
             ELSE IF ~f[k - 1].ok THEN Fail
             ELSE IF ~ReadNat(f[k - 1].rest).ok THEN Fail
             ELSE Done(Append(f[k - 1].value, ReadNat(f[k - 1].rest).value), ReadNat(f[k - 1].rest).rest)
<1>1. PICK f : Runs(DigestParser, n, Nat, w, f) /\ Repeated(DigestParser, n, Nat)[w] = f[n]
  BY DigestInverts, RepeatedIs DEF Inverts
<1>2. f = [k \in 0 .. n |-> Body(k, f)]
  <2> SUFFICES ASSUME NEW k \in 0 .. n PROVE f[k] = Body(k, f)
    BY <1>1 DEF Runs
  <2>1. CASE k = 0
    BY <1>1, <2>1 DEF Runs
  <2>2. CASE k # 0
    <3>1. k \in 1 .. n /\ k - 1 \in 0 .. n
      BY <2>2
    <3>2. f[k] = More(DigestParser, f[k - 1]) /\ f[k - 1] \in Results(Seq(Nat))
      BY <1>1, <3>1 DEF Runs
    <3>3. f[k - 1].ok => DigestParser[f[k - 1].rest] = ReadNat(f[k - 1].rest)
      BY <3>2, ResultIs DEF DigestParser, ReadNat, ReadDigest
    <3> QED  BY <2>2, <3>2, <3>3 DEF More
  <2> QED  BY <2>1, <2>2
<1>3. Many(n, ReadNat, w) = (CHOOSE g : g = [k \in 0 .. n |-> Body(k, g)])[n]
  BY Zenon DEF Many, Then
<1>4. PICK g : g = [k \in 0 .. n |-> Body(k, g)] /\ Many(n, ReadNat, w) = g[n]
  BY <1>2, <1>3
<1>5. f[0] = g[0] /\ \A k \in 1 .. n : f[k - 1] = g[k - 1] => f[k] = g[k]
  BY <1>2, <1>4
<1> HIDE DEF Body
<1>6. f[n] = g[n]
  BY <1>5, SameRun
<1> QED  BY <1>1, <1>4, <1>6

\* Words are their own code.
LEMMA FlatWords == ASSUME NEW v \in Words PROVE Flat(Word1, v) = v
<1> DEFINE n == Len(v)
           s == [i \in 1 .. n |-> <<v[i]>>]
<1>1. n \in Nat /\ v \in [1 .. n -> Nat]
  BY SeqIsVector DEF Words
<1> HIDE DEF n
<1>2. s \in [1 .. n -> Seq(Nat)] /\ Flat(Word1, v) = FlattenSeq(s)
  <2>1. DOMAIN v = 1 .. n /\ \A i \in 1 .. n : v[i] \in Nat
    BY <1>1
  <2>2. \A i \in 1 .. n : Word1[v[i]] = <<v[i]>> /\ <<v[i]>> \in Seq(Nat)
    BY <2>1 DEF Word1
  <2>3. [i \in DOMAIN v |-> Word1[v[i]]] = s
    BY <2>1, <2>2
  <2> QED  BY <2>2, <2>3 DEF Flat
<1>3. \A i \in 1 .. n : s[i] = <<v[i]>> /\ v[i] \in Nat
  BY <1>1
<1> HIDE DEF s
<1>4. PICK h : Joins(s, n, Nat, h)
  BY <1>1, <1>2, JoinsExist
<1>5. /\ h \in [0 .. n -> Seq(Nat)] /\ h[0] = <<>> /\ FlattenSeq(s) = h[n]
      /\ \A k \in 1 .. n : h[k] = h[k - 1] \o s[k]
  BY <1>1, <1>2, <1>4, FlattenIs DEF Joins
<1> DEFINE first(k) == [i \in 1 .. k |-> v[i]]
           A == {k \in Nat : k \in 0 .. n /\ h[k] = first(k)}
<1>6. 0 \in A
  <2>1. first(0) = <<>>
    OBVIOUS
  <2>2. 0 \in Nat /\ 0 \in 0 .. n
    BY <1>1
  <2> QED  BY <1>5, <2>1, <2>2
<1>7. ASSUME NEW k \in 1 .. n, k - 1 \in A PROVE k \in A
  <2>1. k - 1 \in 0 .. n /\ k \in 0 .. n /\ k \in Nat /\ k - 1 \in Nat
    BY <1>1
  <2>2. h[k - 1] = first(k - 1)
    BY <1>7
  <2>3. h[k] = first(k - 1) \o <<v[k]>>
    BY <1>3, <1>5, <2>2
  <2>4. first(k - 1) \o <<v[k]>> = first(k)
    <3>1. first(k - 1) \in [1 .. (k - 1) -> Nat] /\ first(k) \in [1 .. k -> Nat] /\ v[k] \in Nat
      BY <1>1
    <3>2. first(k - 1) \in Seq(Nat) /\ Len(first(k - 1)) = k - 1
      BY <2>1, <3>1, VectorIsSeq
    <3>3. \A i \in 1 .. k : first(k)[i] = IF i = k THEN v[k] ELSE first(k - 1)[i]
      BY <1>1
    <3> HIDE DEF first
    <3>4. first(k - 1) \o <<v[k]>> \in Seq(Nat) /\ Len(first(k - 1) \o <<v[k]>>) = k
      BY <3>1, <3>2, <2>1
    <3>5. first(k - 1) \o <<v[k]>> \in [1 .. k -> Nat]
      BY <3>4, SeqIsVector
    <3>6. \A i \in 1 .. k : (first(k - 1) \o <<v[k]>>)[i] = first(k)[i]
      BY <3>1, <3>2, <3>3
    <3> QED  BY <3>1, <3>5, <3>6
  <2> QED  BY <2>1, <2>3, <2>4
<1> HIDE DEF A
<1>8. n \in A
  <2>1. \A k \in 1 .. n : k - 1 \in A => k \in A
    BY <1>7
  <2>2. \A k \in 0 .. n : k \in A
    BY <1>1, <1>6, <2>1, Up
  <2>3. n \in 0 .. n
    BY <1>1
  <2> QED  BY <2>2, <2>3
<1>9. first(n) = v
  BY <1>1
<1> QED  BY <1>2, <1>5, <1>8, <1>9 DEF A

\* Paths and roots.
PathParser == [w \in Words |-> ReadDigests(w, LAMBDA n : TRUE)]
PathCode == [v \in Words |-> EncodeDigests(v)]
Caps == Lists(Nat, {n \in Nat : IsPowerOfTwo(n)})
RootParser == [w \in Words |-> ReadRoot(w)]
RootCode == [v \in Caps |-> EncodeDigests(v)]

\* Paths are read as they are written,
LEMMA PathInverts == Inverts(PathParser, PathCode, Words) /\ \A v \in Words : PathCode[v] # <<>>
<1>1. /\ Inverts(Counting(DigestParser, Nat, Nat), ListCode(Word1, Nat, Nat), Lists(Nat, Nat))
      /\ \A v \in Lists(Nat, Nat) : ListCode(Word1, Nat, Nat)[v] # <<>>
  BY DigestInverts, CountingInverts
<1>2. Lists(Nat, Nat) = Words
  BY DEF Lists, Words
<1>3. ListCode(Word1, Nat, Nat) = PathCode
  BY <1>2, FlatWords DEF ListCode, PathCode, EncodeDigests
<1>4. ASSUME NEW w \in Words
      PROVE  ReadDigests(w, LAMBDA n : TRUE) = Counting(DigestParser, Nat, Nat)[w]
  <2>1. ReadDigests(w, LAMBDA n : TRUE) =
          IF w # <<>> /\ Head(w) <= Len(w) - 1 THEN Many(Head(w), ReadDigest, Tail(w)) ELSE Fail
    BY DEF ReadDigests, ReadBoundedLen, Take, Then, Done, Fail
  <2>2. CASE w # <<>>
    <3>1. Head(w) \in Nat /\ Tail(w) \in Words
      BY <2>2, FirstWord DEF Words
    <3>2. Many(Head(w), ReadDigest, Tail(w)) = Repeated(DigestParser, Head(w), Nat)[Tail(w)]
      BY <3>1, ManyDigests
    <3> QED  BY <2>1, <3>1, <3>2 DEF Counting
  <2> QED  BY <2>1, <2>2 DEF Counting
<1>5. PathParser = Counting(DigestParser, Nat, Nat)
  <2>1. Counting(DigestParser, Nat, Nat) = [w \in Words |-> Counting(DigestParser, Nat, Nat)[w]]
    BY DEF Counting
  <2> QED  BY <1>4, <2>1 DEF PathParser
<1> QED  BY <1>1, <1>2, <1>3, <1>5

\* roots too: of a power of two of digests, and no other number.
LEMMA RootInverts == Inverts(RootParser, RootCode, Caps) /\ \A v \in Caps : RootCode[v] # <<>>
<1> DEFINE A == {n \in Nat : IsPowerOfTwo(n)}
<1>1. /\ Inverts(Counting(DigestParser, Nat, A), ListCode(Word1, Nat, A), Lists(Nat, A))
      /\ \A v \in Lists(Nat, A) : ListCode(Word1, Nat, A)[v] # <<>>
  BY DigestInverts, CountingInverts
<1>2. Lists(Nat, A) = Caps /\ \A v \in Caps : v \in Words
  BY DEF Lists, Words, Caps
<1>3. ListCode(Word1, Nat, A) = RootCode
  BY <1>2, FlatWords DEF ListCode, RootCode, EncodeDigests
<1>4. ASSUME NEW w \in Words
      PROVE  ReadRoot(w) = Counting(DigestParser, Nat, A)[w]
  <2>1. ReadRoot(w) =
          IF w # <<>> /\ Head(w) <= Len(w) - 1 /\ IsPowerOfTwo(Head(w))
          THEN Many(Head(w), ReadDigest, Tail(w)) ELSE Fail
    BY DEF ReadRoot, ReadDigests, ReadBoundedLen, Take, Then, Done, Fail
  <2>2. CASE w # <<>>
    <3>1. Head(w) \in Nat /\ Tail(w) \in Words
      BY <2>2, FirstWord DEF Words
    <3>2. Many(Head(w), ReadDigest, Tail(w)) = Repeated(DigestParser, Head(w), Nat)[Tail(w)]
      BY <3>1, ManyDigests
    <3>3. IsPowerOfTwo(Head(w)) <=> Head(w) \in A
      BY <3>1
    <3> QED  BY <2>1, <3>2, <3>3 DEF Counting
  <2> QED  BY <2>1, <2>2 DEF Counting
<1>5. RootParser = Counting(DigestParser, Nat, A)
  <2>1. Counting(DigestParser, Nat, A) = [w \in Words |-> Counting(DigestParser, Nat, A)[w]]
    BY DEF Counting
  <2> QED  BY <1>4, <2>1 DEF RootParser
<1> QED  BY <1>1, <1>2, <1>3, <1>5

\* Many of the model is repetition, for roots.
LEMMA ManyRoots ==
  ASSUME NEW n \in Nat, NEW w \in Words
  PROVE  Many(n, ReadRoot, w) = Repeated(RootParser, n, Caps)[w]
<1> DEFINE Body(k, f) ==
             IF k = 0 THEN Done(<<>>, w)
             ELSE IF ~f[k - 1].ok THEN Fail
             ELSE IF ~ReadRoot(f[k - 1].rest).ok THEN Fail
             ELSE Done(Append(f[k - 1].value, ReadRoot(f[k - 1].rest).value), ReadRoot(f[k - 1].rest).rest)
<1>1. PICK f : Runs(RootParser, n, Caps, w, f) /\ Repeated(RootParser, n, Caps)[w] = f[n]
  BY RootInverts, RepeatedIs DEF Inverts
<1>2. f = [k \in 0 .. n |-> Body(k, f)]
  <2> SUFFICES ASSUME NEW k \in 0 .. n PROVE f[k] = Body(k, f)
    BY <1>1 DEF Runs
  <2>1. CASE k = 0
    BY <1>1, <2>1 DEF Runs
  <2>2. CASE k # 0
    <3>1. k \in 1 .. n /\ k - 1 \in 0 .. n
      BY <2>2
    <3>2. f[k] = More(RootParser, f[k - 1]) /\ f[k - 1] \in Results(Seq(Caps))
      BY <1>1, <3>1 DEF Runs
    <3>3. f[k - 1].ok => RootParser[f[k - 1].rest] = ReadRoot(f[k - 1].rest)
      BY <3>2, ResultIs DEF RootParser
    <3> QED  BY <2>2, <3>2, <3>3 DEF More
  <2> QED  BY <2>1, <2>2
<1>3. Many(n, ReadRoot, w) = (CHOOSE g : g = [k \in 0 .. n |-> Body(k, g)])[n]
  BY Zenon DEF Many, Then
<1>4. PICK g : g = [k \in 0 .. n |-> Body(k, g)] /\ Many(n, ReadRoot, w) = g[n]
  BY <1>2, <1>3
<1>5. f[0] = g[0] /\ \A k \in 1 .. n : f[k - 1] = g[k - 1] => f[k] = g[k]
  BY <1>2, <1>4
<1> HIDE DEF Body
<1>6. f[n] = g[n]
  BY <1>5, SameRun
<1> QED  BY <1>1, <1>4, <1>6

-----------------------------------------------------------------------------
\* Openings.

\* What a result tells.
LEMMA Parsed ==
  /\ \A v, r : Done(v, r).ok /\ Done(v, r).value = v /\ Done(v, r).rest = r
  /\ ~Fail.ok /\ \A T : Fail \in Results(T)
  /\ \A T, v, r : v \in T /\ r \in Words => Done(v, r) \in Results(T)
<1>1. /\ \A v, r : Done(v, r).ok /\ Done(v, r).value = v /\ Done(v, r).rest = r
      /\ ~Fail.ok
  BY DEF Done, Fail
<1>2. \A T : Fail \in Results(T)
  BY DEF Results
<1>3. \A T, v, r : v \in T /\ r \in Words => Done(v, r) \in Results(T)
  BY DoneIs
<1> QED  BY <1>1, <1>2, <1>3

\* Two words.
LEMMA TwoWords ==
  ASSUME NEW a \in Nat, NEW b \in Nat
  PROVE  <<a, b>> = <<a>> \o <<b>>
<1> DEFINE s == <<a, b>>
           t == <<a>> \o <<b>>
<1>1. s \in Seq(Nat) /\ Len(s) = 2 /\ s[1] = a /\ s[2] = b
  OBVIOUS
<1>2. <<a>> \in Seq(Nat) /\ <<b>> \in Seq(Nat) /\ Len(<<a>>) = 1 /\ Len(<<b>>) = 1
  OBVIOUS
<1>3. t \in Seq(Nat) /\ Len(t) = 2 /\ t[1] = a /\ t[2] = b
  BY <1>2
<1> HIDE DEF s, t
<1>4. s \in [1 .. 2 -> Nat] /\ t \in [1 .. 2 -> Nat]
  BY <1>1, <1>3, SeqIsVector
<1>5. \A i \in 1 .. 2 : s[i] = t[i]
  BY <1>1, <1>3
<1>6. s = t
  BY <1>4, <1>5
<1> QED  BY <1>6 DEF s, t

\* Three parsers after each other.
Sequenced(p1, p2, p3, m) ==
  [w \in Words |->
     IF ~p1[w].ok THEN Fail
     ELSE IF ~p2[p1[w].rest].ok THEN Fail
     ELSE IF ~p3[p2[p1[w].rest].rest].ok THEN Fail
     ELSE Done(m[p1[w].value][p2[p1[w].rest].value][p3[p2[p1[w].rest].rest].value],
               p3[p2[p1[w].rest].rest].rest)]

\* Their values make the value m yields, and their codes its code.
Encodes(g, m, Z, T1, e1, T2, e2, T3, e3) ==
  /\ \A a \in T1, b \in T2, c \in T3 : m[a][b][c] \in Z
  /\ \A z \in Z : \E a \in T1, b \in T2, c \in T3 : z = m[a][b][c]
  /\ g \in [Z -> Words]
  /\ \A a \in T1, b \in T2, c \in T3 : g[m[a][b][c]] = e1[a] \o (e2[b] \o e3[c])

\* What is written as three parts after each other is read so.
LEMMA ThreeInvert ==
  ASSUME NEW T1, NEW p1, NEW e1, Inverts(p1, e1, T1),
         NEW T2, NEW p2, NEW e2, Inverts(p2, e2, T2),
         NEW T3, NEW p3, NEW e3, Inverts(p3, e3, T3),
         NEW Z, NEW m, NEW g, Encodes(g, m, Z, T1, e1, T2, e2, T3, e3)
  PROVE  Inverts(Sequenced(p1, p2, p3, m), g, Z)
<1> DEFINE s == Sequenced(p1, p2, p3, m)
<1>0. /\ \A a \in T1, b \in T2, c \in T3 : m[a][b][c] \in Z
      /\ \A z \in Z : \E a \in T1, b \in T2, c \in T3 : z = m[a][b][c]
      /\ g \in [Z -> Words]
      /\ \A a \in T1, b \in T2, c \in T3 : g[m[a][b][c]] = e1[a] \o (e2[b] \o e3[c])
  BY DEF Encodes
<1>9. s = Sequenced(p1, p2, p3, m)
  OBVIOUS
<1> HIDE DEF s
<1>1. /\ p1 \in [Words -> Results(T1)] /\ e1 \in [T1 -> Words]
      /\ p2 \in [Words -> Results(T2)] /\ e2 \in [T2 -> Words]
      /\ p3 \in [Words -> Results(T3)] /\ e3 \in [T3 -> Words]
  BY DEF Inverts
<1>2. /\ \A v \in T1, r \in Words : p1[e1[v] \o r] = Done(v, r)
      /\ \A v \in T2, r \in Words : p2[e2[v] \o r] = Done(v, r)
      /\ \A v \in T3, r \in Words : p3[e3[v] \o r] = Done(v, r)
  BY DEF Inverts
<1>3. /\ \A w \in Words : p1[w].ok => w = e1[p1[w].value] \o p1[w].rest
      /\ \A w \in Words : p2[w].ok => w = e2[p2[w].value] \o p2[w].rest
      /\ \A w \in Words : p3[w].ok => w = e3[p3[w].value] \o p3[w].rest
  BY DEF Inverts
<1>4. /\ \A w \in Words : p1[w].ok => p1[w].value \in T1 /\ p1[w].rest \in Words
      /\ \A w \in Words : p2[w].ok => p2[w].value \in T2 /\ p2[w].rest \in Words
      /\ \A w \in Words : p3[w].ok => p3[w].value \in T3 /\ p3[w].rest \in Words
  BY <1>1, ResultIs
<1>5. ASSUME NEW z \in Z, NEW r \in Words PROVE s[g[z] \o r] = Done(z, r)
  <2>1. PICK a \in T1, b \in T2, c \in T3 : z = m[a][b][c]
    BY <1>0
  <2> DEFINE r3 == e3[c] \o r
             r2 == e2[b] \o r3
             w == e1[a] \o r2
  <2>2. e1[a] \in Words /\ e2[b] \in Words /\ e3[c] \in Words
    BY <1>1
  <2>3. r3 \in Words /\ r2 \in Words /\ w \in Words /\ e2[b] \o e3[c] \in Words
    BY <2>2, Joined
  <2>4. (e1[a] \o (e2[b] \o e3[c])) \o r = e1[a] \o ((e2[b] \o e3[c]) \o r)
    <3> DEFINE x == e2[b] \o e3[c]
               y == e1[a]
    <3>1. x \in Words /\ y \in Words
      BY <2>2, <2>3
    <3> HIDE DEF x, y
    <3>2. Grouped(y, x, r)
      BY <3>1, AnyGroup
    <3>3. (y \o x) \o r = y \o (x \o r)
      BY <3>2, Zenon DEF Grouped
    <3> QED  BY <3>3 DEF x, y
  <2>5. (e2[b] \o e3[c]) \o r = e2[b] \o (e3[c] \o r)
    <3>1. Grouped(e2[b], e3[c], r)
      BY <2>2, AnyGroup
    <3> QED  BY <3>1, Zenon DEF Grouped
  <2>6. g[z] \o r = w
    <3>1. g[z] = e1[a] \o (e2[b] \o e3[c])
      BY <1>0, <2>1
    <3> QED  BY <3>1, <2>4, <2>5
  <2>7. p1[w] = Done(a, r2) /\ p2[r2] = Done(b, r3) /\ p3[r3] = Done(c, r)
    BY <1>2, <2>3
  <2> HIDE DEF w, r2, r3
  <2>8. p1[w].ok /\ p1[w].value = a /\ p1[w].rest = r2
    <3>1. Done(a, r2).ok /\ Done(a, r2).value = a /\ Done(a, r2).rest = r2
      BY Parsed
    <3> QED  BY <2>7, <3>1
  <2>9. p2[r2].ok /\ p2[r2].value = b /\ p2[r2].rest = r3
    <3>1. Done(b, r3).ok /\ Done(b, r3).value = b /\ Done(b, r3).rest = r3
      BY Parsed
    <3> QED  BY <2>7, <3>1
  <2>10. p3[r3].ok /\ p3[r3].value = c /\ p3[r3].rest = r
    <3>1. Done(c, r).ok /\ Done(c, r).value = c /\ Done(c, r).rest = r
      BY Parsed
    <3>2. p3[r3] = Done(c, r)
      BY <2>7
    <3> QED  BY <3>1, <3>2, Zenon
  <2>11. s[w] = Done(m[a][b][c], r)
    BY <1>9, <2>3, <2>8, <2>9, <2>10, Zenon DEF Sequenced
  <2> QED  BY <2>1, <2>6, <2>11
<1>6. ASSUME NEW w \in Words
      PROVE  s[w] \in Results(Z) /\ (s[w].ok => w = g[s[w].value] \o s[w].rest)
  <2> DEFINE x1 == p1[w]
             x2 == p2[x1.rest]
             x3 == p3[x2.rest]
  <2>1. s[w] = IF ~x1.ok THEN Fail ELSE IF ~x2.ok THEN Fail ELSE IF ~x3.ok THEN Fail
               ELSE Done(m[x1.value][x2.value][x3.value], x3.rest)
    BY <1>9, Zenon DEF Sequenced
  <2> HIDE DEF x3, x2
  <2>4. x1.ok => x1.value \in T1 /\ x1.rest \in Words /\ w = e1[x1.value] \o x1.rest
    BY <1>3, <1>4
  <2> HIDE DEF x1
  <2>5. x1.ok /\ x2.ok => x2.value \in T2 /\ x2.rest \in Words /\ x1.rest = e2[x2.value] \o x2.rest
    BY <1>3, <1>4, <2>4 DEF x2
  <2>6. x1.ok /\ x2.ok /\ x3.ok =>
          x3.value \in T3 /\ x3.rest \in Words /\ x2.rest = e3[x3.value] \o x3.rest
    BY <1>3, <1>4, <2>5 DEF x3
  <2>2. CASE x1.ok /\ x2.ok /\ x3.ok
    <3>1. x1.value \in T1 /\ x1.rest \in Words /\ w = e1[x1.value] \o x1.rest
      BY <2>2, <2>4
    <3>2. x2.value \in T2 /\ x2.rest \in Words /\ x1.rest = e2[x2.value] \o x2.rest
      BY <2>2, <2>5
    <3>3. x3.value \in T3 /\ x3.rest \in Words /\ x2.rest = e3[x3.value] \o x3.rest
      BY <2>2, <2>6, Zenon
    <3>4. s[w] = Done(m[x1.value][x2.value][x3.value], x3.rest)
      BY <2>1, <2>2, Zenon
    <3> DEFINE z == m[x1.value][x2.value][x3.value]
               a == e1[x1.value]
               b == e2[x2.value]
               c == e3[x3.value]
               r == x3.rest
    <3>5. z \in Z /\ g[z] = a \o (b \o c) /\ a \in Words /\ b \in Words /\ c \in Words /\ r \in Words
      <4>1. z \in Z /\ g[z] = a \o (b \o c)
        BY <1>0, <3>1, <3>2, <3>3, Zenon
      <4>2. a \in Words /\ b \in Words /\ c \in Words
        BY <1>1, <3>1, <3>2, <3>3
      <4> QED  BY <3>3, <4>1, <4>2, Zenon
    <3>6. w = a \o (b \o (c \o r))
      BY <3>1, <3>2, <3>3
    <3>7. s[w] = Done(z, r)
      BY <3>4
    <3> HIDE DEF z, a, b, c, r
    <3>8. b \o c \in Words
      BY <3>5, Joined
    <3>9. (a \o (b \o c)) \o r = a \o ((b \o c) \o r)
      <4> DEFINE y == b \o c
      <4>1. a \in Words /\ y \in Words /\ r \in Words
        BY <3>5, <3>8
      <4> HIDE DEF y
      <4>2. Grouped(a, y, r)
        BY <4>1, AnyGroup
      <4> QED  BY <4>2, Zenon DEF Grouped, y
    <3>10. (b \o c) \o r = b \o (c \o r)
      <4>1. b \in Words /\ c \in Words /\ r \in Words
        BY <3>5
      <4>2. Grouped(b, c, r)
        BY <4>1, AnyGroup
      <4> QED  BY <4>2, Zenon DEF Grouped
    <3>11. w = g[z] \o r
      BY <3>5, <3>6, <3>9, <3>10
    <3>12. s[w] \in Results(Z)
      <4>1. Done(z, r) \in Results(Z)
        BY <3>5, Parsed
      <4> QED  BY <3>7, <4>1
    <3>13. s[w].value = z /\ s[w].rest = r
      <4>1. Done(z, r).value = z /\ Done(z, r).rest = r
        BY Parsed
      <4> QED  BY <3>7, <4>1
    <3> QED  BY <3>11, <3>12, <3>13
  <2>3. CASE ~(x1.ok /\ x2.ok /\ x3.ok)
    <3>1. s[w] = Fail
      BY <2>1, <2>3, Zenon
    <3>2. Fail \in Results(Z) /\ ~Fail.ok
      BY Parsed
    <3> QED  BY <3>1, <3>2, Zenon
  <2> QED  BY <2>2, <2>3
<1>7. s \in [Words -> Results(Z)]
  <2>1. s = [w \in Words |-> s[w]]
    BY <1>9, Zenon DEF Sequenced
  <2> QED  BY <1>6, <2>1, Zenon
<1>8. Inverts(s, g, Z)
  BY <1>0, <1>5, <1>6, <1>7 DEF Inverts
<1> QED  BY <1>8 DEF s

\* Field elements.
ElemParser == [w \in Words |-> ReadElem(w)]
ElemCode == [v \in Elements |-> <<v>>]

\* An element is one word below the modulus.
LEMMA ElemInverts == Inverts(ElemParser, ElemCode, Elements)
<1>0. \A w \in Words : ReadElem(w) = IF w # <<>> /\ Head(w) < P THEN Done(Head(w), Tail(w)) ELSE Fail
  BY DEF ReadElem, Take
<1>1. \A v \in Elements : ElemCode[v] = <<v>> /\ <<v>> # <<>> /\ <<v>> \in Words /\ v \in Nat /\ v < P
  BY FieldAssumption DEF ElemCode, Words, Elements
<1>2. ASSUME NEW w \in Words
      PROVE  /\ ElemParser[w] \in Results(Elements)
             /\ ElemParser[w].ok => w = ElemCode[ElemParser[w].value] \o ElemParser[w].rest
  <2>1. ElemParser[w] = ReadElem(w)
    BY DEF ElemParser
  <2>2. CASE w # <<>> /\ Head(w) < P
    <3>1. Head(w) \in Nat /\ Tail(w) \in Words /\ w = <<Head(w)>> \o Tail(w)
      BY <2>2, FirstWord DEF Words
    <3>2. ElemParser[w] = Done(Head(w), Tail(w)) /\ Head(w) \in Elements
      BY <1>0, <2>1, <2>2, <3>1, FieldAssumption DEF Elements
    <3>3. Done(Head(w), Tail(w)) \in Results(Elements)
      BY <3>1, <3>2, DoneIs
    <3>4. ElemParser[w].value = Head(w) /\ ElemParser[w].rest = Tail(w)
      BY <3>2 DEF Done
    <3> QED  BY <1>1, <3>1, <3>2, <3>3, <3>4
  <2>3. CASE ~(w # <<>> /\ Head(w) < P)
    <3>1. ElemParser[w] = Fail
      BY <1>0, <2>1, <2>3
    <3> QED  BY <3>1 DEF Results, Fail
  <2> QED  BY <2>2, <2>3
<1>3. ASSUME NEW v \in Elements, NEW r \in Words PROVE ElemParser[ElemCode[v] \o r] = Done(v, r)
  <2> DEFINE w == <<v>> \o r
  <2>0. v \in Nat /\ v < P
    BY <1>1
  <2>1. w \in Words /\ w # <<>> /\ Head(w) = v /\ Tail(w) = r
    BY <2>0, Word DEF Words
  <2>2. ElemCode[v] \o r = w
    BY <1>1
  <2> HIDE DEF w
  <2> QED  BY <1>0, <2>0, <2>1, <2>2 DEF ElemParser
<1>4. ElemParser \in [Words -> Results(Elements)]
  <2>1. ElemParser = [w \in Words |-> ElemParser[w]]
    BY DEF ElemParser
  <2> QED  BY <1>2, <2>1
<1>5. ElemCode \in [Elements -> Words]
  BY <1>1 DEF ElemCode
<1> QED  BY <1>2, <1>3, <1>4, <1>5 DEF Inverts

\* Openings.
Openings == [leaf_index : Nat, leaf_value : Elements, proof : Words]
OpeningParser == [w \in Words |-> ReadOpening(w)]
OpeningCode == [o \in Openings |-> EncodeOpening(o)]

\* An opening is read as it is written.
LEMMA OpeningInverts == Inverts(OpeningParser, OpeningCode, Openings) /\ \A o \in Openings : OpeningCode[o] # <<>>
<1> DEFINE m == [a \in Nat |-> [b \in Elements |-> [c \in Words |-> [leaf_index |-> a, leaf_value |-> b, proof |-> c]]]]
<1>1. \A a \in Nat, b \in Elements, c \in Words : m[a][b][c] \in Openings
  BY DEF Openings
<1>2. \A z \in Openings : \E a \in Nat, b \in Elements, c \in Words : z = m[a][b][c]
  <2> TAKE z \in Openings
  <2>1. z.leaf_index \in Nat /\ z.leaf_value \in Elements /\ z.proof \in Words
    BY DEF Openings
  <2>2. z = m[z.leaf_index][z.leaf_value][z.proof]
    BY <2>1 DEF Openings
  <2> QED  BY <2>1, <2>2
<1>3. ASSUME NEW a \in Nat, NEW b \in Elements, NEW c \in Words
      PROVE  /\ OpeningCode[m[a][b][c]] = Word1[a] \o (ElemCode[b] \o PathCode[c])
             /\ OpeningCode[m[a][b][c]] \in Words /\ OpeningCode[m[a][b][c]] # <<>>
  <2> DEFINE z == m[a][b][c]
             d == EncodeDigests(c)
  <2>1. z \in Openings /\ z.leaf_index = a /\ z.leaf_value = b /\ z.proof = c
    BY DEF Openings
  <2> HIDE DEF m
  <2>2. OpeningCode[z] = <<a, b>> \o d
    BY <2>1 DEF OpeningCode, EncodeOpening
  <2>3. Word1[a] = <<a>> /\ ElemCode[b] = <<b>> /\ PathCode[c] = d
    BY DEF Word1, ElemCode, PathCode
  <2>4. d \in Words /\ b \in Nat
    BY <2>3, PathInverts, ElementsAreNat DEF Inverts
  <2> HIDE DEF d, z
  <2>5. <<a, b>> = <<a>> \o <<b>>
    BY <2>4, TwoWords
  <2>6. <<a>> \in Words /\ <<b>> \in Words /\ <<b>> \o d \in Words
    BY <2>4, Word DEF Words
  <2>7. (<<a>> \o <<b>>) \o d = <<a>> \o (<<b>> \o d)
    <3> DEFINE x == <<a>>
               y == <<b>>
    <3>1. x \in Words /\ y \in Words /\ d \in Words
      BY <2>4, <2>6 DEF Words
    <3> HIDE DEF x, y
    <3>2. Grouped(x, y, d)
      BY <3>1, AnyGroup
    <3> QED  BY <3>2, Zenon DEF Grouped, x, y
  <2>8. OpeningCode[z] = <<a>> \o (<<b>> \o d)
    <3>1. OpeningCode[z] = (<<a>> \o <<b>>) \o d
      BY <2>2, <2>5, Zenon
    <3> QED  BY <2>7, <3>1, Zenon
  <2>9. OpeningCode[z] \in Words /\ OpeningCode[z] # <<>>
    <3>1. <<a>> \o (<<b>> \o d) \in Words /\ <<a>> \o (<<b>> \o d) # <<>>
      BY <2>6, Word DEF Words
    <3> QED  BY <2>8, <3>1
  <2> QED  BY <2>3, <2>8, <2>9 DEF z
<1>4. OpeningCode \in [Openings -> Words] /\ \A o \in Openings : OpeningCode[o] # <<>>
  <2>1. ASSUME NEW z \in Openings PROVE OpeningCode[z] \in Words /\ OpeningCode[z] # <<>>
    <3>1. PICK a \in Nat, b \in Elements, c \in Words : z = m[a][b][c]
      BY <1>2
    <3> HIDE DEF m
    <3>2. OpeningCode[m[a][b][c]] \in Words /\ OpeningCode[m[a][b][c]] # <<>>
      BY <1>3
    <3> QED  BY <3>1, <3>2
  <2>2. OpeningCode = [z \in Openings |-> OpeningCode[z]]
    BY DEF OpeningCode
  <2> QED  BY <2>1, <2>2
<1>5. OpeningParser = Sequenced(DigestParser, ElemParser, PathParser, m)
  <2> SUFFICES ASSUME NEW w \in Words
        PROVE  OpeningParser[w] =
                IF ~DigestParser[w].ok THEN Fail
                ELSE IF ~ElemParser[DigestParser[w].rest].ok THEN Fail
                ELSE IF ~PathParser[ElemParser[DigestParser[w].rest].rest].ok THEN Fail
                ELSE Done(m[DigestParser[w].value][ElemParser[DigestParser[w].rest].value][
                            PathParser[ElemParser[DigestParser[w].rest].rest].value],
                          PathParser[ElemParser[DigestParser[w].rest].rest].rest)
    BY Zenon DEF OpeningParser, Sequenced
  <2> DEFINE x1 == ReadNat(w)
             x2 == ReadElem(x1.rest)
             x3 == ReadDigests(x2.rest, LAMBDA n : TRUE)
  <2>1. OpeningParser[w] = IF ~x1.ok THEN Fail ELSE IF ~x2.ok THEN Fail ELSE IF ~x3.ok THEN Fail
          ELSE Done([leaf_index |-> x1.value, leaf_value |-> x2.value, proof |-> x3.value], x3.rest)
    BY DEF OpeningParser, ReadOpening, Then
  <2>2. x1 = DigestParser[w]
    BY DEF DigestParser, ReadNat, ReadDigest
  <2>3. x1.ok => x1.value \in Nat /\ x1.rest \in Words
    BY <2>2, DigestInverts, ResultIs DEF Inverts
  <2>4. x1.ok => x2 = ElemParser[x1.rest]
    BY <2>3 DEF ElemParser
  <2>5. x1.ok /\ x2.ok => x2.value \in Elements /\ x2.rest \in Words
    BY <2>3, <2>4, ElemInverts, ResultIs DEF Inverts
  <2>6. x1.ok /\ x2.ok => x3 = PathParser[x2.rest]
    BY <2>5 DEF PathParser
  <2>7. x1.ok /\ x2.ok /\ x3.ok => x3.value \in Words
    BY <2>5, <2>6, PathInverts, ResultIs DEF Inverts
  <2> HIDE DEF x1, x2, x3
  <2>8. x1.ok /\ x2.ok /\ x3.ok =>
          m[x1.value][x2.value][x3.value] = [leaf_index |-> x1.value, leaf_value |-> x2.value, proof |-> x3.value]
    <3> DEFINE i == x1.value
               v == x2.value
               path == x3.value
    <3> SUFFICES ASSUME i \in Nat, v \in Elements, path \in Words
          PROVE  m[i][v][path] = [leaf_index |-> i, leaf_value |-> v, proof |-> path]
      BY <2>3, <2>5, <2>7
    <3> HIDE DEF i, v, path
    <3> QED  OBVIOUS
  <2> HIDE DEF m
  <2>9. CASE ~x1.ok
    BY <2>1, <2>2, <2>9, Zenon
  <2>10. CASE x1.ok /\ ~x2.ok
    BY <2>1, <2>2, <2>4, <2>10, Zenon
  <2>11. CASE x1.ok /\ x2.ok /\ ~x3.ok
    BY <2>1, <2>2, <2>4, <2>6, <2>11, Zenon
  <2>12. CASE x1.ok /\ x2.ok /\ x3.ok
    BY <2>1, <2>2, <2>4, <2>6, <2>8, <2>12, Zenon
  <2> QED  BY <2>9, <2>10, <2>11, <2>12, Zenon
<1> HIDE DEF m
<1>8. \A a \in Nat, b \in Elements, c \in Words :
         OpeningCode[m[a][b][c]] = Word1[a] \o (ElemCode[b] \o PathCode[c])
  BY <1>3
<1>6. Inverts(DigestParser, Word1, Nat) /\ Inverts(ElemParser, ElemCode, Elements) /\ Inverts(PathParser, PathCode, Words)
  BY DigestInverts, ElemInverts, PathInverts
<1>7. Inverts(OpeningParser, OpeningCode, Openings)
  <2>1. Encodes(OpeningCode, m, Openings, Nat, Word1, Elements, ElemCode, Words, PathCode)
    BY <1>1, <1>2, <1>4, <1>8 DEF Encodes
  <2>2. Inverts(Sequenced(DigestParser, ElemParser, PathParser, m), OpeningCode, Openings)
    BY <1>6, <2>1, ThreeInvert
  <2> QED  BY <1>5, <2>2
<1> QED  BY <1>4, <1>7

-----------------------------------------------------------------------------
\* Rounds and queries.

\* Rounds.
Rounds == [opening_x : Openings, opening_neg_x : Openings, opening_folded : Openings]
RoundParser == [w \in Words |-> ReadRound(w)]
RoundCode == [v \in Rounds |-> EncodeRound(v)]

\* A round is read as it is written.
LEMMA RoundInverts == Inverts(RoundParser, RoundCode, Rounds) /\ \A v \in Rounds : RoundCode[v] # <<>>
<1> DEFINE O == Openings
           m == [a \in O |-> [b \in O |-> [c \in O |->
                   [opening_x |-> a, opening_neg_x |-> b, opening_folded |-> c]]]]
<1>1. \A a \in O, b \in O, c \in O : m[a][b][c] \in Rounds
  BY DEF Rounds
<1>2. \A z \in Rounds : \E a \in O, b \in O, c \in O : z = m[a][b][c]
  <2> TAKE z \in Rounds
  <2>1. z.opening_x \in O /\ z.opening_neg_x \in O /\ z.opening_folded \in O
    BY DEF Rounds
  <2>2. z = m[z.opening_x][z.opening_neg_x][z.opening_folded]
    BY <2>1 DEF Rounds
  <2> QED  BY <2>1, <2>2
<1>3. ASSUME NEW a \in O, NEW b \in O, NEW c \in O
      PROVE  /\ RoundCode[m[a][b][c]] = OpeningCode[a] \o (OpeningCode[b] \o OpeningCode[c])
             /\ RoundCode[m[a][b][c]] \in Words /\ RoundCode[m[a][b][c]] # <<>>
  <2> DEFINE z == m[a][b][c]
             u == EncodeOpening(a)
             v == EncodeOpening(b)
             w == EncodeOpening(c)
  <2>1. z \in Rounds /\ z.opening_x = a /\ z.opening_neg_x = b /\ z.opening_folded = c
    BY DEF Rounds
  <2> HIDE DEF m
  <2>2. RoundCode[z] = (u \o v) \o w
    BY <2>1 DEF RoundCode, EncodeRound
  <2>3. OpeningCode[a] = u /\ OpeningCode[b] = v /\ OpeningCode[c] = w
    BY DEF OpeningCode
  <2>4. u \in Words /\ v \in Words /\ w \in Words /\ u # <<>>
    BY <2>3, OpeningInverts DEF Inverts
  <2> HIDE DEF u, v, w, z
  <2>5. (u \o v) \o w = u \o (v \o w)
    BY <2>4, Assoc, Zenon
  <2>6. v \o w \in Words /\ u \o (v \o w) \in Words
    BY <2>4, Joined
  <2>7. u \o (v \o w) # <<>>
    <3>1. Len(u \o (v \o w)) = Len(u) + Len(v \o w) /\ Len(u) \in Nat /\ Len(v \o w) \in Nat /\ Len(u) # 0
      <4> DEFINE x == v \o w
      <4>1. x \in Words
        BY <2>6
      <4> HIDE DEF x
      <4>2. Len(u \o x) = Len(u) + Len(x) /\ Len(u) \in Nat /\ Len(x) \in Nat /\ Len(u) # 0
        BY <2>4, <4>1, Joined DEF Words
      <4> QED  BY <4>2 DEF x
    <3> QED  BY <3>1, <2>6
  <2> QED  BY <2>2, <2>3, <2>5, <2>6, <2>7 DEF z
<1>4. RoundCode \in [Rounds -> Words] /\ \A z \in Rounds : RoundCode[z] # <<>>
  <2>1. ASSUME NEW z \in Rounds PROVE RoundCode[z] \in Words /\ RoundCode[z] # <<>>
    <3>1. PICK a \in O, b \in O, c \in O : z = m[a][b][c]
      BY <1>2
    <3> HIDE DEF m
    <3>2. RoundCode[m[a][b][c]] \in Words /\ RoundCode[m[a][b][c]] # <<>>
      BY <1>3
    <3> QED  BY <3>1, <3>2, Zenon
  <2>2. RoundCode = [z \in Rounds |-> RoundCode[z]]
    BY DEF RoundCode
  <2> QED  BY <2>1, <2>2
<1>5. RoundParser = Sequenced(OpeningParser, OpeningParser, OpeningParser, m)
  <2> SUFFICES ASSUME NEW w \in Words
        PROVE  RoundParser[w] =
                IF ~OpeningParser[w].ok THEN Fail
                ELSE IF ~OpeningParser[OpeningParser[w].rest].ok THEN Fail
                ELSE IF ~OpeningParser[OpeningParser[OpeningParser[w].rest].rest].ok THEN Fail
                ELSE Done(m[OpeningParser[w].value][OpeningParser[OpeningParser[w].rest].value][
                            OpeningParser[OpeningParser[OpeningParser[w].rest].rest].value],
                          OpeningParser[OpeningParser[OpeningParser[w].rest].rest].rest)
    BY Zenon DEF RoundParser, Sequenced
  <2> DEFINE x1 == ReadOpening(w)
             x2 == ReadOpening(x1.rest)
             x3 == ReadOpening(x2.rest)
  <2>1. RoundParser[w] = IF ~x1.ok THEN Fail ELSE IF ~x2.ok THEN Fail ELSE IF ~x3.ok THEN Fail
          ELSE Done([opening_x |-> x1.value, opening_neg_x |-> x2.value, opening_folded |-> x3.value], x3.rest)
    BY DEF RoundParser, ReadRound, Then
  <2>2. x1 = OpeningParser[w]
    BY DEF OpeningParser
  <2>3. x1.ok => x1.value \in O /\ x1.rest \in Words
    BY <2>2, OpeningInverts, ResultIs DEF Inverts
  <2>4. x1.ok => x2 = OpeningParser[x1.rest]
    BY <2>3 DEF OpeningParser
  <2>5. x1.ok /\ x2.ok => x2.value \in O /\ x2.rest \in Words
    BY <2>3, <2>4, OpeningInverts, ResultIs DEF Inverts
  <2>6. x1.ok /\ x2.ok => x3 = OpeningParser[x2.rest]
    BY <2>5 DEF OpeningParser
  <2>7. x1.ok /\ x2.ok /\ x3.ok => x3.value \in O
    BY <2>5, <2>6, OpeningInverts, ResultIs DEF Inverts
  <2> HIDE DEF x1, x2, x3, O
  <2>8. x1.ok /\ x2.ok /\ x3.ok =>
          m[x1.value][x2.value][x3.value]
            = [opening_x |-> x1.value, opening_neg_x |-> x2.value, opening_folded |-> x3.value]
    <3> DEFINE x == x1.value
               v == x2.value
               y == x3.value
    <3> SUFFICES ASSUME x \in O, v \in O, y \in O
          PROVE  m[x][v][y] = [opening_x |-> x, opening_neg_x |-> v, opening_folded |-> y]
      BY <2>3, <2>5, <2>7
    <3> HIDE DEF x, v, y
    <3> QED  OBVIOUS
  <2> HIDE DEF m
  <2>9. CASE ~x1.ok
    BY <2>1, <2>2, <2>9, Zenon
  <2>10. CASE x1.ok /\ ~x2.ok
    BY <2>1, <2>2, <2>4, <2>10, Zenon
  <2>11. CASE x1.ok /\ x2.ok /\ ~x3.ok
    BY <2>1, <2>2, <2>4, <2>6, <2>11, Zenon
  <2>12. CASE x1.ok /\ x2.ok /\ x3.ok
    BY <2>1, <2>2, <2>4, <2>6, <2>8, <2>12, Zenon
  <2> QED  BY <2>9, <2>10, <2>11, <2>12, Zenon
<1> HIDE DEF m
<1>8. \A a \in O, b \in O, c \in O :
         RoundCode[m[a][b][c]] = OpeningCode[a] \o (OpeningCode[b] \o OpeningCode[c])
  BY <1>3
<1>6. Inverts(OpeningParser, OpeningCode, O)
  BY OpeningInverts
<1>7. Inverts(RoundParser, RoundCode, Rounds)
  <2>1. Encodes(RoundCode, m, Rounds, O, OpeningCode, O, OpeningCode, O, OpeningCode)
    BY <1>1, <1>2, <1>4, <1>8 DEF Encodes
  <2>2. Inverts(Sequenced(OpeningParser, OpeningParser, OpeningParser, m), RoundCode, Rounds)
    BY <1>6, <2>1, ThreeInvert
  <2> QED  BY <1>5, <2>2
<1> QED  BY <1>4, <1>7

\* Many of the model is repetition, for rounds.
LEMMA ManyRounds ==
  ASSUME NEW n \in Nat, NEW w \in Words
  PROVE  Many(n, ReadRound, w) = Repeated(RoundParser, n, Rounds)[w]
<1> DEFINE Body(k, f) ==
             IF k = 0 THEN Done(<<>>, w)
             ELSE IF ~f[k - 1].ok THEN Fail
             ELSE IF ~ReadRound(f[k - 1].rest).ok THEN Fail
             ELSE Done(Append(f[k - 1].value, ReadRound(f[k - 1].rest).value), ReadRound(f[k - 1].rest).rest)
<1>1. PICK f : Runs(RoundParser, n, Rounds, w, f) /\ Repeated(RoundParser, n, Rounds)[w] = f[n]
  BY RoundInverts, RepeatedIs DEF Inverts
<1>2. f = [k \in 0 .. n |-> Body(k, f)]
  <2> SUFFICES ASSUME NEW k \in 0 .. n PROVE f[k] = Body(k, f)
    BY <1>1 DEF Runs
  <2>1. CASE k = 0
    BY <1>1, <2>1 DEF Runs
  <2>2. CASE k # 0
    <3>1. k \in 1 .. n /\ k - 1 \in 0 .. n
      BY <2>2
    <3>2. f[k] = More(RoundParser, f[k - 1]) /\ f[k - 1] \in Results(Seq(Rounds))
      BY <1>1, <3>1 DEF Runs
    <3>3. f[k - 1].ok => RoundParser[f[k - 1].rest] = ReadRound(f[k - 1].rest)
      BY <3>2, ResultIs DEF RoundParser
    <3> QED  BY <2>2, <3>2, <3>3 DEF More
  <2> QED  BY <2>1, <2>2
<1>3. Many(n, ReadRound, w) = (CHOOSE g : g = [k \in 0 .. n |-> Body(k, g)])[n]
  BY Zenon DEF Many, Then
<1>4. PICK g : g = [k \in 0 .. n |-> Body(k, g)] /\ Many(n, ReadRound, w) = g[n]
  BY <1>2, <1>3
<1>5. f[0] = g[0] /\ \A k \in 1 .. n : f[k - 1] = g[k - 1] => f[k] = g[k]
  BY <1>2, <1>4
<1> HIDE DEF Body
<1>6. f[n] = g[n]
  BY <1>5, SameRun
<1> QED  BY <1>1, <1>4, <1>6

\* The rounds of a query, k of them.
Queries(k) == Lists(Rounds, {k})
QueryParser(k) == Counting(RoundParser, Rounds, {k})
QueryCode(k) == ListCode(RoundCode, Rounds, {k})

\* A query is read as it is written, with as many rounds as there are folds.
LEMMA QueryInverts ==
  ASSUME NEW k \in Nat
  PROVE  Inverts(QueryParser(k), QueryCode(k), Queries(k))
BY RoundInverts, CountingInverts DEF QueryParser, QueryCode, Queries

ReadRest(k, ws) ==
  Then(ReadBoundedLen(ws, LAMBDA c : c = k), LAMBDA c, rest : Many(c, ReadRound, rest))

ReadQuery(k, ws) ==
  IF ws # <<>> /\ Head(ws) <= Len(ws) - 1 /\ Head(ws) = k THEN Many(Head(ws), ReadRound, Tail(ws)) ELSE Fail

\* That is how the decoder reads a query.
LEMMA ReadQueryIs ==
  ASSUME NEW k \in Nat, NEW w \in Words
  PROVE  QueryParser(k)[w] = ReadRest(k, w)
<1>0. ReadRest(k, w) = ReadQuery(k, w)
  BY DEF ReadRest, ReadQuery, ReadBoundedLen, Take, Then, Done, Fail
<1>1. QueryParser(k)[w] =
        IF w # <<>> /\ Head(w) <= Len(w) - 1 /\ Head(w) = k
        THEN Repeated(RoundParser, Head(w), Rounds)[Tail(w)] ELSE Fail
  BY DEF QueryParser, Counting
<1>2. CASE w # <<>>
  <2>1. Head(w) \in Nat /\ Tail(w) \in Words
    BY <1>2, FirstWord DEF Words
  <2>2. Many(Head(w), ReadRound, Tail(w)) = Repeated(RoundParser, Head(w), Rounds)[Tail(w)]
    BY <2>1, ManyRounds
  <2> QED  BY <1>0, <1>1, <2>2 DEF ReadQuery
<1>3. CASE w = <<>>
  BY <1>0, <1>1, <1>3 DEF ReadQuery
<1> QED  BY <1>2, <1>3

\* Many of the model is repetition, for queries.
LEMMA ManyQueries ==
  ASSUME NEW k \in Nat, NEW n \in Nat, NEW w \in Words
  PROVE  Many(n, LAMBDA ws : ReadRest(k, ws), w) = Repeated(QueryParser(k), n, Queries(k))[w]
<1> DEFINE L == Many(n, LAMBDA ws : ReadRest(k, ws), w)
<1> DEFINE Body(i, f) ==
             IF i = 0 THEN Done(<<>>, w)
             ELSE IF ~f[i - 1].ok THEN Fail
             ELSE IF ~ReadRest(k, f[i - 1].rest).ok THEN Fail
             ELSE Done(Append(f[i - 1].value, ReadRest(k, f[i - 1].rest).value), ReadRest(k, f[i - 1].rest).rest)
<1> HIDE DEF L
<1>1. PICK f : Runs(QueryParser(k), n, Queries(k), w, f) /\ Repeated(QueryParser(k), n, Queries(k))[w] = f[n]
  <2>1. QueryParser(k) \in [Words -> Results(Queries(k))]
    BY QueryInverts DEF Inverts
  <2> QED  BY <2>1, RepeatedIs, Zenon
<1>2. f = [i \in 0 .. n |-> Body(i, f)]
  <2> SUFFICES ASSUME NEW i \in 0 .. n PROVE f[i] = Body(i, f)
    BY <1>1 DEF Runs
  <2>1. CASE i = 0
    BY <1>1, <2>1 DEF Runs
  <2>2. CASE i # 0
    <3>1. i \in 1 .. n /\ i - 1 \in 0 .. n
      BY <2>2
    <3>2. f[i] = More(QueryParser(k), f[i - 1]) /\ f[i - 1] \in Results(Seq(Queries(k)))
      BY <1>1, <3>1 DEF Runs
    <3>3. f[i - 1].ok => QueryParser(k)[f[i - 1].rest] = ReadRest(k, f[i - 1].rest)
      BY <3>2, ResultIs, ReadQueryIs
    <3> QED  BY <2>2, <3>2, <3>3 DEF More
  <2> QED  BY <2>1, <2>2
<1>3. L = (CHOOSE g : g = [i \in 0 .. n |-> Body(i, g)])[n]
  BY Zenon DEF L, Many, Then
<1>4. PICK g : g = [i \in 0 .. n |-> Body(i, g)] /\ L = g[n]
  BY <1>2, <1>3
<1>5. f[0] = g[0] /\ \A i \in 1 .. n : f[i - 1] = g[i - 1] => f[i] = g[i]
  BY <1>2, <1>4
<1> HIDE DEF Body
<1>6. f[n] = g[n]
  BY <1>5, SameRun
<1> QED  BY <1>1, <1>4, <1>6 DEF L

-----------------------------------------------------------------------------
\* The decoder.

\* The decoder, from its end.
Close(final, roots, places, queries, r8) ==
  IF r8 = <<>> THEN Done([roots |-> roots, final_value |-> final, query_indices |-> places,
                          query_proofs |-> queries], <<>>)
  ELSE Fail
DecodeQueries(final, nroots, roots, count, places, r7) ==
  Then(Many(count, LAMBDA ws : ReadRest(nroots - 1, ws), r7),
       LAMBDA queries, r8 : Close(final, roots, places, queries, r8))
DecodeIndices(final, nroots, roots, count, r6) ==
  Then(Many(count, ReadNat, r6),
       LAMBDA places, r7 : DecodeQueries(final, nroots, roots, count, places, r7))
DecodeCount(final, nroots, roots, r5) ==
  Then(ReadBoundedLen(r5, LAMBDA n : n # 0),
       LAMBDA count, r6 : DecodeIndices(final, nroots, roots, count, r6))
DecodeRoots(final, nroots, r4) ==
  Then(Many(nroots, ReadRoot, r4), LAMBDA roots, r5 : DecodeCount(final, nroots, roots, r5))
DecodeRootCount(final, r3) ==
  Then(ReadBoundedLen(r3, LAMBDA n : n >= 2), LAMBDA nroots, r4 : DecodeRoots(final, nroots, r4))
DecodeFinal(r2) ==
  Then(ReadElem(r2), LAMBDA final, r3 : DecodeRootCount(final, r3))
DecodeVersion(r1) ==
  Then(Take(r1, LAMBDA w : w = FRI_PROOF_FORMAT_VERSION), LAMBDA v, r2 : DecodeFinal(r2))
DecodeMagic(ws) ==
  Then(Take(ws, LAMBDA w : w = FRI_PROOF_MAGIC), LAMBDA m, r1 : DecodeVersion(r1))

\* They are the decoder (oracle_bridge.rs, decode_fri_proof_v1).
LEMMA DecodeIs ==
  ASSUME NEW w PROVE DecodeFriProof(w) = DecodeMagic(w)
BY DEF DecodeFriProof, DecodeMagic, DecodeVersion, DecodeFinal, DecodeRootCount, DecodeRoots, DecodeCount,
       DecodeIndices, DecodeQueries, Close, ReadRest

\* Its steps.
LEMMA MagicStep ==
  ASSUME NEW w
  PROVE  /\ DecodeMagic(w) = IF w # <<>> /\ Head(w) = FRI_PROOF_MAGIC THEN DecodeVersion(Tail(w)) ELSE Fail
         /\ DecodeVersion(w) = IF w # <<>> /\ Head(w) = FRI_PROOF_FORMAT_VERSION THEN DecodeFinal(Tail(w)) ELSE Fail
BY Zenon DEF DecodeMagic, DecodeVersion, Then, Take, Done, Fail

\* It reads the last value,
LEMMA FinalStep ==
  ASSUME NEW w \in Words
  PROVE  DecodeFinal(w) = IF ElemParser[w].ok THEN DecodeRootCount(ElemParser[w].value, ElemParser[w].rest) ELSE Fail
<1>1. ElemParser[w] = ReadElem(w)
  BY DEF ElemParser
<1> QED  BY <1>1, Zenon DEF DecodeFinal, Then

\* the number of roots, two at least,
LEMMA RootCountStep ==
  ASSUME NEW w, NEW final
  PROVE  DecodeRootCount(final, w) =
           IF w # <<>> /\ Head(w) <= Len(w) - 1 /\ Head(w) >= 2 THEN DecodeRoots(final, Head(w), Tail(w)) ELSE Fail
BY DEF DecodeRootCount, Then, ReadBoundedLen, Take, Done, Fail

\* the roots,
LEMMA RootsStep ==
  ASSUME NEW w \in Words, NEW final, NEW n \in Nat
  PROVE  DecodeRoots(final, n, w) =
           IF Repeated(RootParser, n, Caps)[w].ok
           THEN DecodeCount(final, n, Repeated(RootParser, n, Caps)[w].value, Repeated(RootParser, n, Caps)[w].rest)
           ELSE Fail
<1> DEFINE L == Many(n, ReadRoot, w)
<1>1. L = Repeated(RootParser, n, Caps)[w]
  BY ManyRoots
<1>2. DecodeRoots(final, n, w) = IF L.ok THEN DecodeCount(final, n, L.value, L.rest) ELSE Fail
  BY Zenon DEF DecodeRoots, Then
<1> HIDE DEF L
<1> QED  BY <1>1, <1>2

\* the number of queries, one at least,
LEMMA CountStep ==
  ASSUME NEW w, NEW final, NEW n, NEW roots
  PROVE  DecodeCount(final, n, roots, w) =
           IF w # <<>> /\ Head(w) <= Len(w) - 1 /\ Head(w) # 0
           THEN DecodeIndices(final, n, roots, Head(w), Tail(w)) ELSE Fail
BY DEF DecodeCount, Then, ReadBoundedLen, Take, Done, Fail

\* the places,
LEMMA IndicesStep ==
  ASSUME NEW w \in Words, NEW final, NEW n, NEW roots, NEW m \in Nat
  PROVE  DecodeIndices(final, n, roots, m, w) =
           IF Repeated(DigestParser, m, Nat)[w].ok
           THEN DecodeQueries(final, n, roots, m, Repeated(DigestParser, m, Nat)[w].value,
                              Repeated(DigestParser, m, Nat)[w].rest)
           ELSE Fail
<1> DEFINE L == Many(m, ReadNat, w)
<1>1. L = Repeated(DigestParser, m, Nat)[w]
  BY ManyNats
<1>2. DecodeIndices(final, n, roots, m, w) =
        IF L.ok THEN DecodeQueries(final, n, roots, m, L.value, L.rest) ELSE Fail
  BY Zenon DEF DecodeIndices, Then
<1> HIDE DEF L
<1> QED  BY <1>1, <1>2

\* and the queries, with a round less than there are roots.
LEMMA QueriesStep ==
  ASSUME NEW w \in Words, NEW final, NEW n \in Nat, n >= 1, NEW roots, NEW m \in Nat, NEW places
  PROVE  DecodeQueries(final, n, roots, m, places, w) =
           IF Repeated(QueryParser(n - 1), m, Queries(n - 1))[w].ok
           THEN Close(final, roots, places, Repeated(QueryParser(n - 1), m, Queries(n - 1))[w].value,
                      Repeated(QueryParser(n - 1), m, Queries(n - 1))[w].rest)
           ELSE Fail
<1> DEFINE L == Many(m, LAMBDA ws : ReadRest(n - 1, ws), w)
<1>1. L = Repeated(QueryParser(n - 1), m, Queries(n - 1))[w]
  <2>1. n - 1 \in Nat
    OBVIOUS
  <2> QED  BY <2>1, ManyQueries
<1>2. DecodeQueries(final, n, roots, m, places, w) =
        IF L.ok THEN Close(final, roots, places, L.value, L.rest) ELSE Fail
  BY Zenon DEF DecodeQueries, Then
<1> HIDE DEF L
<1> QED  BY <1>1, <1>2

-----------------------------------------------------------------------------
\* The encoder.

\* Proofs, and what they are written as.
Proofs ==
  {pf \in [roots : Seq(Caps), final_value : Elements, query_indices : Words, query_proofs : Seq(Seq(Rounds))] :
     /\ Len(pf.roots) >= 1 /\ Len(pf.query_proofs) = Len(pf.query_indices)
     /\ \A q \in 1 .. Len(pf.query_proofs) : Len(pf.query_proofs[q]) = Len(pf.roots) - 1}

Chained(w, f, n, rootWords, m, places, queryWords) ==
  w = <<FRI_PROOF_MAGIC>> \o (<<FRI_PROOF_FORMAT_VERSION>> \o (<<f>> \o (<<n>> \o
        (rootWords \o (<<m>> \o (places \o queryWords))))))

Regroups(a, b, c) == (a \o b) \o c = a \o (b \o c)

\* Two groupings of the same words.
LEMMA Regroup ==
  ASSUME NEW a \in Words, NEW b \in Words, NEW c \in Words
  PROVE  Regroups(a, b, c) /\ a \o b \in Words
BY Concat DEF Words, Regroups

RegroupsAll(M, V, F, N, r, C, d, e) ==
  ((((M \o V) \o (F \o (N \o r))) \o C) \o d) \o e = M \o (V \o (F \o (N \o (r \o (C \o (d \o e))))))

\* Two groupings of the words of a proof.
LEMMA RegroupAll ==
  ASSUME NEW M \in Words, NEW V \in Words, NEW F \in Words, NEW N \in Words, NEW r \in Words,
         NEW C \in Words, NEW d \in Words, NEW e \in Words
  PROVE  RegroupsAll(M, V, F, N, r, C, d, e)
<1>1. /\ M \o V \in Words /\ N \o r \in Words /\ F \o (N \o r) \in Words
      /\ (M \o V) \o (F \o (N \o r)) \in Words
      /\ ((M \o V) \o (F \o (N \o r))) \o C \in Words
      /\ d \o e \in Words /\ C \o (d \o e) \in Words
  BY Regroup
<1>2. /\ Regroups(((M \o V) \o (F \o (N \o r))) \o C, d, e)
      /\ Regroups((M \o V) \o (F \o (N \o r)), C, d \o e)
      /\ Regroups(M \o V, F \o (N \o r), C \o (d \o e))
      /\ Regroups(F, N \o r, C \o (d \o e))
      /\ Regroups(N, r, C \o (d \o e))
  BY <1>1, Regroup
<1>3. (F \o (N \o r)) \o (C \o (d \o e)) \in Words
  BY <1>1, Regroup
<1>4. Regroups(M, V, (F \o (N \o r)) \o (C \o (d \o e)))
  BY <1>3, Regroup
<1> DEFINE h == M \o V
           i == F \o (N \o r)
           x == C \o (d \o e)
<1>5. (((h \o i) \o C) \o d) \o e = ((h \o i) \o C) \o (d \o e)
  BY <1>2 DEF Regroups
<1>6. ((h \o i) \o C) \o (d \o e) = (h \o i) \o x
  BY <1>2 DEF Regroups
<1>7. (h \o i) \o x = h \o (i \o x)
  BY <1>2 DEF Regroups
<1>8. i \o x = F \o ((N \o r) \o x) /\ (N \o r) \o x = N \o (r \o x)
  BY <1>2 DEF Regroups
<1>9. h \o (i \o x) = M \o (V \o (i \o x))
  BY <1>4 DEF Regroups
<1> HIDE DEF h, i, x
<1>10. (((h \o i) \o C) \o d) \o e = M \o (V \o (F \o (N \o (r \o x))))
  BY <1>5, <1>6, <1>7, <1>8, <1>9, Zenon
<1> QED  BY <1>10 DEF h, i, x, RegroupsAll

\* The encoder's grouping, from the left, is the decoder's, from the right.
LEMMA ChainIs ==
  ASSUME NEW f \in Nat, NEW n \in Nat, NEW m \in Nat, NEW r \in Words, NEW d \in Words, NEW e \in Words,
         NEW w, w = (((<<FRI_PROOF_MAGIC, FRI_PROOF_FORMAT_VERSION>> \o (<<f>> \o (<<n>> \o r))) \o <<m>>) \o d) \o e
  PROVE  Chained(w, f, n, r, m, d, e)
<1> DEFINE M == <<FRI_PROOF_MAGIC>>
           V == <<FRI_PROOF_FORMAT_VERSION>>
           F == <<f>>
           N == <<n>>
           C == <<m>>
<1>1. M \in Words /\ V \in Words /\ F \in Words /\ N \in Words /\ C \in Words
  BY Word DEF Words, FRI_PROOF_MAGIC, FRI_PROOF_FORMAT_VERSION
<1>2. <<FRI_PROOF_MAGIC, FRI_PROOF_FORMAT_VERSION>> = M \o V
  BY TwoWords DEF FRI_PROOF_MAGIC, FRI_PROOF_FORMAT_VERSION
<1>3. w = ((((M \o V) \o (F \o (N \o r))) \o C) \o d) \o e
  BY <1>2
<1> HIDE DEF M, V, F, N, C
<1>4. ((((M \o V) \o (F \o (N \o r))) \o C) \o d) \o e = M \o (V \o (F \o (N \o (r \o (C \o (d \o e))))))
  <2>1. RegroupsAll(M, V, F, N, r, C, d, e)
    BY <1>1, RegroupAll
  <2> QED  BY <2>1 DEF RegroupsAll
<1>5. w = M \o (V \o (F \o (N \o (r \o (C \o (d \o e))))))
  BY <1>3, <1>4, Zenon
<1> QED  BY <1>5 DEF Chained, M, V, F, N, C

\* The parts of a proof's words.
RootWords(pf) == Flat(RootCode, pf.roots)
QueryWords(pf) == Flat(QueryCode(Len(pf.roots) - 1), pf.query_proofs)

\* The parts of a proof.
LEMMA ProofIs ==
  ASSUME NEW pf \in Proofs
  PROVE  LET n == Len(pf.roots)
             m == Len(pf.query_indices)
         IN /\ n \in Nat /\ n >= 1 /\ m \in Nat /\ n - 1 \in Nat
            /\ pf.roots \in [1 .. n -> Caps] /\ pf.final_value \in Elements /\ pf.final_value \in Nat
            /\ pf.query_indices \in [1 .. m -> Nat] /\ pf.query_indices \in Words
            /\ pf.query_proofs \in [1 .. m -> Queries(n - 1)]
            /\ pf = [roots |-> pf.roots, final_value |-> pf.final_value,
                     query_indices |-> pf.query_indices, query_proofs |-> pf.query_proofs]
<1> DEFINE n == Len(pf.roots)
           m == Len(pf.query_indices)
<1>1. /\ pf.roots \in Seq(Caps) /\ pf.final_value \in Elements
      /\ pf.query_indices \in Words /\ pf.query_proofs \in Seq(Seq(Rounds))
      /\ Len(pf.roots) >= 1 /\ Len(pf.query_proofs) = Len(pf.query_indices)
      /\ \A q \in 1 .. Len(pf.query_proofs) : Len(pf.query_proofs[q]) = Len(pf.roots) - 1
      /\ pf = [roots |-> pf.roots, final_value |-> pf.final_value,
               query_indices |-> pf.query_indices, query_proofs |-> pf.query_proofs]
  BY DEF Proofs
<1>2. pf.roots \in [1 .. n -> Caps] /\ n \in Nat
  BY <1>1, SeqIsVector
<1>3. pf.query_indices \in [1 .. m -> Nat] /\ m \in Nat
  BY <1>1, SeqIsVector DEF Words
<1>4. pf.query_proofs \in [1 .. m -> Queries(n - 1)]
  <2> DEFINE S == Seq(Rounds)
             v == pf.query_proofs
  <2>1. v \in [1 .. m -> S]
    <3>1. v \in Seq(S) /\ Len(v) = m
      BY <1>1
    <3> HIDE DEF S, v
    <3> QED  BY <3>1, SeqIsVector
  <2>2. \A q \in 1 .. m : v[q] \in S /\ Len(v[q]) = n - 1
    BY <1>1, <2>1
  <2>3. \A q \in 1 .. m : v[q] \in Queries(n - 1)
    BY <2>2 DEF Queries, Lists
  <2> HIDE DEF S, v
  <2>4. v \in [1 .. m -> Queries(n - 1)]
    BY <2>1, <2>3
  <2> QED  BY <2>4 DEF v
<1> QED  BY <1>1, <1>2, <1>3, <1>4, ElementsAreNat

\* Roots are written as words, one at least each.
LEMMA RootWordsTyped ==
  ASSUME NEW n \in Nat, NEW v \in [1 .. n -> Caps]
  PROVE  Flat(RootCode, v) \in Words /\ Len(Flat(RootCode, v)) >= n
BY RootInverts, FlatLength DEF Inverts

\* Queries are written as words.
LEMMA QueryWordsTyped ==
  ASSUME NEW k \in Nat, NEW m \in Nat, NEW v \in [1 .. m -> Queries(k)]
  PROVE  Flat(QueryCode(k), v) \in Words
<1>1. QueryCode(k) \in [Queries(k) -> Words]
  BY QueryInverts DEF Inverts
<1> DEFINE s == [i \in 1 .. m |-> QueryCode(k)[v[i]]]
<1>2. s \in [1 .. m -> Seq(Nat)] /\ Flat(QueryCode(k), v) = FlattenSeq(s)
  BY <1>1 DEF Flat, Words
<1> QED  BY <1>2, FlattenTyped DEF Words

\* A proof is written as the decoder expects it (oracle_bridge.rs,
\* encode_fri_proof_v1).
LEMMA EncodeIs ==
  ASSUME NEW pf \in Proofs
  PROVE  Chained(EncodeFriProof(pf), pf.final_value, Len(pf.roots), RootWords(pf),
                 Len(pf.query_indices), pf.query_indices, QueryWords(pf))
<1> DEFINE n == Len(pf.roots)
           m == Len(pf.query_indices)
           k == n - 1
           qs == pf.query_proofs
<1>1. /\ n \in Nat /\ m \in Nat /\ k \in Nat /\ pf.roots \in [1 .. n -> Caps]
      /\ pf.final_value \in Nat /\ pf.query_indices \in Words
      /\ qs \in [1 .. m -> Queries(k)]
  BY ProofIs
<1>2. RootWords(pf) \in Words /\ QueryWords(pf) \in Words
  BY <1>1, RootWordsTyped, QueryWordsTyped DEF RootWords, QueryWords
<1>3. EncodeCommitmentRoots(pf) = <<pf.final_value>> \o (<<n>> \o RootWords(pf))
  <2> DEFINE items == [r \in DOMAIN pf.roots |-> EncodeDigests(pf.roots[r])]
  <2>1. items = [r \in DOMAIN pf.roots |-> RootCode[pf.roots[r]]]
    BY <1>1 DEF RootCode
  <2>2. Len(items) = n
    <3>1. DOMAIN items = 1 .. n
      BY <1>1
    <3> QED  BY <1>1, <3>1
  <2>3. EncodeCommitmentRoots(pf) = <<pf.final_value>> \o (<<Len(items)>> \o FlattenSeq(items))
    BY DEF EncodeCommitmentRoots, Counted
  <2> HIDE DEF items
  <2> QED  BY <2>1, <2>2, <2>3 DEF RootWords, Flat
<1>4. FlattenSeq([q \in DOMAIN qs |-> Counted([r \in DOMAIN qs[q] |-> EncodeRound(qs[q][r])])]) = QueryWords(pf)
  <2>1. ASSUME NEW q \in DOMAIN qs
        PROVE  Counted([r \in DOMAIN qs[q] |-> EncodeRound(qs[q][r])]) = QueryCode(k)[qs[q]]
    <3> DEFINE v == qs[q]
               items == [r \in DOMAIN v |-> EncodeRound(v[r])]
    <3>1. v \in Queries(k)
      BY <1>1, <2>1
    <3>2. v \in Seq(Rounds) /\ Len(v) = k
      BY <3>1 DEF Queries, Lists
    <3> HIDE DEF v
    <3>3. v \in [1 .. k -> Rounds]
      BY <3>2, SeqIsVector
    <3>4. items = [r \in DOMAIN v |-> RoundCode[v[r]]]
      BY <3>3 DEF RoundCode
    <3>5. Len(items) = k
      <4>1. DOMAIN items = 1 .. k
        BY <3>3
      <4> QED  BY <1>1, <4>1
    <3>6. Counted(items) = <<Len(items)>> \o FlattenSeq(items)
      BY DEF Counted
    <3> HIDE DEF items
    <3>7. QueryCode(k)[v] = <<Len(v)>> \o Flat(RoundCode, v)
      BY <3>1 DEF QueryCode, ListCode, Queries
    <3>8. Counted(items) = QueryCode(k)[v]
      BY <3>2, <3>4, <3>5, <3>6, <3>7 DEF Flat
    <3> QED  BY <3>8 DEF items, v
  <2>2. [q \in DOMAIN qs |-> Counted([r \in DOMAIN qs[q] |-> EncodeRound(qs[q][r])])]
          = [q \in DOMAIN qs |-> QueryCode(k)[qs[q]]]
    BY <2>1
  <2> QED  BY <2>2 DEF QueryWords, Flat
<1>5. EncodeFriProof(pf) =
        (((<<FRI_PROOF_MAGIC, FRI_PROOF_FORMAT_VERSION>> \o (<<pf.final_value>> \o (<<n>> \o RootWords(pf))))
           \o <<m>>) \o pf.query_indices) \o QueryWords(pf)
  <2> DEFINE q1 == FlattenSeq([q \in DOMAIN qs |-> Counted([r \in DOMAIN qs[q] |-> EncodeRound(qs[q][r])])])
             c1 == EncodeCommitmentRoots(pf)
  <2>1. EncodeFriProof(pf) =
          (((<<FRI_PROOF_MAGIC, FRI_PROOF_FORMAT_VERSION>> \o c1) \o <<m>>) \o pf.query_indices) \o q1
    BY Zenon DEF EncodeFriProof
  <2>2. q1 = QueryWords(pf) /\ c1 = <<pf.final_value>> \o (<<n>> \o RootWords(pf))
    BY <1>3, <1>4
  <2> HIDE DEF q1, c1, n, m
  <2> QED  BY <2>1, <2>2
<1> HIDE DEF n, m
<1>6. Chained(EncodeFriProof(pf), pf.final_value, n, RootWords(pf), m, pf.query_indices, QueryWords(pf))
  BY <1>1, <1>2, <1>5, ChainIs
<1> QED  BY <1>6 DEF n, m

-----------------------------------------------------------------------------
\* What is encoded decodes.

\* What a repeated parser makes of words.
LEMMA RepeatedReads ==
  ASSUME NEW T, NEW p, NEW e, Inverts(p, e, T), NEW n \in Nat
  PROVE  /\ \A v \in [1 .. n -> T], r \in Words, w \in Words :
              Begins(w, e, v, r) => Repeated(p, n, T)[w] = Done(v, r)
         /\ \A w \in Words : Repeated(p, n, T)[w].ok =>
              /\ Begins(w, e, Repeated(p, n, T)[w].value, Repeated(p, n, T)[w].rest)
              /\ Repeated(p, n, T)[w].value \in [1 .. n -> T] /\ Repeated(p, n, T)[w].rest \in Words
<1>1. Undoes(Repeated(p, n, T), e, [1 .. n -> T])
  BY RepeatedInverts
<1>2. \A w \in Words : Repeated(p, n, T)[w] \in Results([1 .. n -> T])
  BY <1>1 DEF Undoes
<1>3. \A w \in Words : Repeated(p, n, T)[w].ok =>
         Repeated(p, n, T)[w].value \in [1 .. n -> T] /\ Repeated(p, n, T)[w].rest \in Words
  <2> TAKE w \in Words
  <2> DEFINE x == Repeated(p, n, T)[w]
  <2>1. x \in Results([1 .. n -> T])
    BY <1>2
  <2> HIDE DEF x
  <2>2. x.ok => x.value \in [1 .. n -> T] /\ x.rest \in Words
    BY <2>1, ResultIs
  <2> QED  BY <2>2 DEF x
<1> QED  BY <1>1, <1>3 DEF Undoes

\* A proof that has been written is read again, if it has two roots and a
\* query, and otherwise refused.
LEMMA DecodeEncodes ==
  ASSUME NEW pf \in Proofs
  PROVE  DecodeFriProof(EncodeFriProof(pf)) =
           IF Len(pf.roots) >= 2 /\ Len(pf.query_indices) # 0 THEN Done(pf, <<>>) ELSE Fail
<1> DEFINE n == Len(pf.roots)
           m == Len(pf.query_indices)
           f == pf.final_value
           R == RootWords(pf)
           I == pf.query_indices
           Q == QueryWords(pf)
           d == I \o Q
           c == <<m>> \o d
           b == R \o c
           a4 == <<n>> \o b
           a3 == <<f>> \o a4
           a2 == <<FRI_PROOF_FORMAT_VERSION>> \o a3
           w == EncodeFriProof(pf)
<1>1. /\ n \in Nat /\ n >= 1 /\ m \in Nat /\ n - 1 \in Nat
      /\ pf.roots \in [1 .. n -> Caps] /\ f \in Elements /\ f \in Nat
      /\ I \in [1 .. m -> Nat] /\ I \in Words
      /\ pf.query_proofs \in [1 .. m -> Queries(n - 1)]
  BY ProofIs
<1>2. R \in Words /\ Len(R) >= n /\ Q \in Words
  BY <1>1, RootWordsTyped, QueryWordsTyped DEF RootWords, QueryWords
<1>3. w = <<FRI_PROOF_MAGIC>> \o a2
  BY EncodeIs DEF Chained
<1>4. /\ R = Flat(RootCode, pf.roots) /\ Q = Flat(QueryCode(n - 1), pf.query_proofs) /\ I = Flat(Word1, I)
  BY <1>1, FlatWords DEF RootWords, QueryWords
<1> HIDE DEF n, m, f, R, I, Q, w
<1>5. d \in Words /\ Len(d) >= m
  <2>1. Len(I) = m
    BY DEF I, m
  <2>2. d \in Words /\ Len(d) = Len(I) + Len(Q) /\ Len(Q) \in Nat
    BY <1>1, <1>2, Joined DEF Words
  <2> QED  BY <1>1, <2>1, <2>2
<1>6. c \in Words /\ c # <<>> /\ Head(c) = m /\ Tail(c) = d /\ Len(c) = Len(d) + 1 /\ Len(d) \in Nat
  <2> HIDE DEF d
  <2> QED  BY <1>1, <1>5, Word DEF Words
<1>7. b \in Words /\ Len(b) >= n
  <2> HIDE DEF c
  <2>1. R \o c \in Words /\ Len(R \o c) = Len(R) + Len(c)
    BY <1>2, <1>6, Joined, Zenon
  <2>2. Len(c) \in Nat /\ Len(R) \in Nat
    BY <1>2, <1>6 DEF Words
  <2>3. b = R \o c
    OBVIOUS
  <2> HIDE DEF b
  <2>4. b \in Words /\ Len(b) = Len(R) + Len(c)
    BY <2>1, <2>3
  <2> QED  BY <1>1, <1>2, <2>2, <2>4
<1>8. a4 \in Words /\ a4 # <<>> /\ Head(a4) = n /\ Tail(a4) = b /\ Len(a4) = Len(b) + 1 /\ Len(b) \in Nat
  <2> HIDE DEF b
  <2> QED  BY <1>1, <1>7, Word DEF Words
<1>9. a3 \in Words
  <2> HIDE DEF a4
  <2> QED  BY <1>1, <1>8, Word DEF Words
<1>10. a2 \in Words /\ a2 # <<>> /\ Head(a2) = FRI_PROOF_FORMAT_VERSION /\ Tail(a2) = a3
  <2> HIDE DEF a3
  <2> QED  BY <1>9, Word DEF Words, FRI_PROOF_FORMAT_VERSION
<1>11. w # <<>> /\ Head(w) = FRI_PROOF_MAGIC /\ Tail(w) = a2
  <2> HIDE DEF a2
  <2>1. FRI_PROOF_MAGIC \in Nat
    BY DEF FRI_PROOF_MAGIC
  <2>2. a2 \in Seq(Nat)
    BY <1>10 DEF Words
  <2>3. <<FRI_PROOF_MAGIC>> \o a2 # <<>> /\ Head(<<FRI_PROOF_MAGIC>> \o a2) = FRI_PROOF_MAGIC
        /\ Tail(<<FRI_PROOF_MAGIC>> \o a2) = a2
    BY <2>1, <2>2, Word
  <2> QED  BY <1>3, <2>3
<1>12. ElemParser[a3] = Done(f, a4)
  <2> HIDE DEF a4
  <2>1. ElemCode[f] = <<f>>
    BY <1>1 DEF ElemCode
  <2>2. ElemParser[ElemCode[f] \o a4] = Done(f, a4)
    BY <1>1, <1>8, ElemInverts DEF Inverts
  <2> QED  BY <2>1, <2>2
<1>13. Begins(b, RootCode, pf.roots, c) /\ Begins(d, Word1, I, Q) /\ Begins(Q, QueryCode(n - 1), pf.query_proofs, <<>>)
  <2>1. Q \o <<>> = Q
    BY <1>2, Concat DEF Words
  <2> QED  BY <1>4, <2>1 DEF Begins
<1> HIDE DEF a2, a3, a4, b, c, d
<1>14. Repeated(RootParser, n, Caps)[b] = Done(pf.roots, c)
  <2> DEFINE v == pf.roots
  <2>1. Inverts(RootParser, RootCode, Caps)
    BY RootInverts
  <2>2. v \in [1 .. n -> Caps] /\ Begins(b, RootCode, v, c)
    BY <1>1, <1>13
  <2> HIDE DEF v
  <2>3. Repeated(RootParser, n, Caps)[b] = Done(v, c)
    <3>1. \A u \in [1 .. n -> Caps], r \in Words, x \in Words :
            Begins(x, RootCode, u, r) => Repeated(RootParser, n, Caps)[x] = Done(u, r)
      BY <1>1, <2>1, RepeatedReads
    <3> QED  BY <1>6, <1>7, <2>2, <3>1
  <2> QED  BY <2>3 DEF v
<1>15. Repeated(DigestParser, m, Nat)[d] = Done(I, Q)
  <2>1. Inverts(DigestParser, Word1, Nat)
    BY DigestInverts
  <2>2. \A u \in [1 .. m -> Nat], r \in Words, x \in Words :
          Begins(x, Word1, u, r) => Repeated(DigestParser, m, Nat)[x] = Done(u, r)
    BY <1>1, <2>1, RepeatedReads
  <2> QED  BY <1>1, <1>2, <1>5, <1>13, <2>2
<1>16. Repeated(QueryParser(n - 1), m, Queries(n - 1))[Q] = Done(pf.query_proofs, <<>>)
  <2>1. <<>> \in Words
    BY DEF Words
  <2>2. Inverts(QueryParser(n - 1), QueryCode(n - 1), Queries(n - 1))
    BY <1>1, QueryInverts
  <2>3. \A u \in [1 .. m -> Queries(n - 1)], r \in Words, x \in Words :
          Begins(x, QueryCode(n - 1), u, r) => Repeated(QueryParser(n - 1), m, Queries(n - 1))[x] = Done(u, r)
    BY <1>1, <2>2, RepeatedReads
  <2> QED  BY <1>1, <1>2, <1>13, <2>1, <2>3
<1>17. DecodeFriProof(w) = DecodeFinal(a3)
  BY <1>10, <1>11, DecodeIs, MagicStep
<1>18. DecodeFinal(a3) = DecodeRootCount(f, a4)
  <2>1. Done(f, a4).ok /\ Done(f, a4).value = f /\ Done(f, a4).rest = a4
    BY Parsed
  <2>2. DecodeFinal(a3) = IF ElemParser[a3].ok THEN DecodeRootCount(ElemParser[a3].value, ElemParser[a3].rest) ELSE Fail
    BY <1>9, FinalStep
  <2> QED  BY <1>12, <2>1, <2>2
<1>19. DecodeRootCount(f, a4) = IF n >= 2 THEN DecodeRoots(f, n, b) ELSE Fail
  <2>1. n <= Len(a4) - 1
    <3>1. \A x, y \in Nat : y >= x => x <= (y + 1) - 1
      OBVIOUS
    <3> QED  BY <1>1, <1>7, <1>8, <3>1
  <2> QED  BY <1>8, <2>1, RootCountStep
<1>20. DecodeRoots(f, n, b) = DecodeCount(f, n, pf.roots, c)
  <2>1. Done(pf.roots, c).ok /\ Done(pf.roots, c).value = pf.roots /\ Done(pf.roots, c).rest = c
    BY Parsed
  <2>2. DecodeRoots(f, n, b) =
           IF Repeated(RootParser, n, Caps)[b].ok
           THEN DecodeCount(f, n, Repeated(RootParser, n, Caps)[b].value, Repeated(RootParser, n, Caps)[b].rest)
           ELSE Fail
    BY <1>1, <1>7, RootsStep
  <2> QED  BY <1>14, <2>1, <2>2
<1>21. DecodeCount(f, n, pf.roots, c) = IF m # 0 THEN DecodeIndices(f, n, pf.roots, m, d) ELSE Fail
  <2>1. m <= Len(c) - 1
    <3>1. \A x, y \in Nat : y >= x => x <= (y + 1) - 1
      OBVIOUS
    <3> QED  BY <1>1, <1>5, <1>6, <3>1
  <2> QED  BY <1>6, <2>1, CountStep
<1>22. DecodeIndices(f, n, pf.roots, m, d) = DecodeQueries(f, n, pf.roots, m, I, Q)
  <2>1. Done(I, Q).ok /\ Done(I, Q).value = I /\ Done(I, Q).rest = Q
    BY Parsed
  <2>2. DecodeIndices(f, n, pf.roots, m, d) =
           IF Repeated(DigestParser, m, Nat)[d].ok
           THEN DecodeQueries(f, n, pf.roots, m, Repeated(DigestParser, m, Nat)[d].value,
                              Repeated(DigestParser, m, Nat)[d].rest)
           ELSE Fail
    BY <1>1, <1>5, IndicesStep
  <2> QED  BY <1>15, <2>1, <2>2
<1>23. DecodeQueries(f, n, pf.roots, m, I, Q) = Done(pf, <<>>)
  <2> DEFINE q == Repeated(QueryParser(n - 1), m, Queries(n - 1))[Q]
             e == pf.query_proofs
  <2>1. Done(e, <<>>).ok /\ Done(e, <<>>).value = e /\ Done(e, <<>>).rest = <<>>
    BY Parsed
  <2>2. DecodeQueries(f, n, pf.roots, m, I, Q) = IF q.ok THEN Close(f, pf.roots, I, q.value, q.rest) ELSE Fail
    BY <1>1, <1>2, QueriesStep
  <2>3. q = Done(e, <<>>)
    BY <1>16
  <2>4. pf = [roots |-> pf.roots, final_value |-> f, query_indices |-> I, query_proofs |-> e]
    BY ProofIs DEF f, I
  <2> HIDE DEF q, e
  <2>5. DecodeQueries(f, n, pf.roots, m, I, Q) = Close(f, pf.roots, I, e, <<>>)
    BY <2>1, <2>2, <2>3
  <2> QED  BY <2>4, <2>5, Zenon DEF Close
<1>24. DecodeFriProof(w) = IF n >= 2 /\ m # 0 THEN Done(pf, <<>>) ELSE Fail
  BY <1>17, <1>18, <1>19, <1>20, <1>21, <1>22, <1>23
<1> QED  BY <1>24 DEF w, n, m, I

-----------------------------------------------------------------------------
\* What decodes is encoded.

Made(roots, final, places, queries) ==
  [roots |-> roots, final_value |-> final, query_indices |-> places, query_proofs |-> queries]

MadeOf(pf, n, m, roots, final, places, queries) ==
  /\ pf \in Proofs /\ Len(pf.roots) = n /\ Len(pf.query_indices) = m
  /\ pf.roots = roots /\ pf.final_value = final /\ pf.query_indices = places /\ pf.query_proofs = queries

\* The parts make a proof.
LEMMA MadeIs ==
  ASSUME NEW n \in Nat, n >= 1, NEW roots \in [1 .. n -> Caps], NEW final \in Elements,
         NEW m \in Nat, NEW places \in [1 .. m -> Nat], NEW queries \in [1 .. m -> Queries(n - 1)]
  PROVE  MadeOf(Made(roots, final, places, queries), n, m, roots, final, places, queries)
<1> DEFINE pf == Made(roots, final, places, queries)
           S == Seq(Rounds)
<1>1. pf.roots = roots /\ pf.final_value = final /\ pf.query_indices = places /\ pf.query_proofs = queries
  BY DEF Made
<1>2. roots \in Seq(Caps) /\ Len(roots) = n /\ places \in Words /\ Len(places) = m
  BY VectorIsSeq DEF Words
<1>3. \A q \in 1 .. m : queries[q] \in S /\ Len(queries[q]) = n - 1
  BY DEF Queries, Lists
<1>4. queries \in [1 .. m -> S]
  <2> HIDE DEF S
  <2> QED  BY <1>3
<1>5. queries \in Seq(S) /\ Len(queries) = m
  <2> HIDE DEF S
  <2> QED  BY <1>4, VectorIsSeq
<1>6. pf \in [roots : Seq(Caps), final_value : Elements, query_indices : Words, query_proofs : Seq(S)]
  <2> HIDE DEF S
  <2> QED  BY <1>2, <1>5 DEF Made
<1>7. pf \in Proofs
  <2> HIDE DEF pf
  <2> QED  BY <1>1, <1>2, <1>3, <1>5, <1>6 DEF Proofs
<1> HIDE DEF pf
<1>8. MadeOf(pf, n, m, roots, final, places, queries)
  BY <1>1, <1>2, <1>7 DEF MadeOf
<1> QED  BY <1>8 DEF pf

\* What is read is a proof, and written it is the words it was read from.
LEMMA EncodeDecodes ==
  ASSUME NEW w \in Words, DecodeFriProof(w).ok
  PROVE  LET pf == DecodeFriProof(w).value
         IN /\ pf \in Proofs /\ Len(pf.roots) >= 2 /\ Len(pf.query_indices) # 0
            /\ DecodeFriProof(w) = Done(pf, <<>>) /\ EncodeFriProof(pf) = w
<1> DEFINE D == DecodeFriProof(w)
           a2 == Tail(w)
           a3 == Tail(a2)
           x == ElemParser[a3]
           f == x.value
           a4 == x.rest
           n == Head(a4)
           b == Tail(a4)
           y == Repeated(RootParser, n, Caps)[b]
           v == y.value
           c == y.rest
           m == Head(c)
           d == Tail(c)
           z == Repeated(DigestParser, m, Nat)[d]
           I == z.value
           Q == z.rest
           u == Repeated(QueryParser(n - 1), m, Queries(n - 1))[Q]
           e == u.value
<1>0. D.ok /\ ~Fail.ok
  BY Parsed
<1> HIDE DEF D
<1>1. w # <<>> /\ Head(w) = FRI_PROOF_MAGIC /\ a2 # <<>> /\ Head(a2) = FRI_PROOF_FORMAT_VERSION
      /\ D = DecodeFinal(a3)
  <2>1. D = IF w # <<>> /\ Head(w) = FRI_PROOF_MAGIC THEN DecodeVersion(a2) ELSE Fail
    BY DecodeIs, MagicStep DEF D
  <2>2. DecodeVersion(a2) = IF a2 # <<>> /\ Head(a2) = FRI_PROOF_FORMAT_VERSION THEN DecodeFinal(a3) ELSE Fail
    BY MagicStep
  <2> QED  BY <1>0, <2>1, <2>2
<1>2. a2 \in Words /\ w = <<FRI_PROOF_MAGIC>> \o a2
  BY <1>1, FirstWord DEF Words
<1> HIDE DEF a2
<1>3. a3 \in Words /\ a2 = <<FRI_PROOF_FORMAT_VERSION>> \o a3
  BY <1>1, <1>2, FirstWord DEF Words
<1> HIDE DEF a3
<1>4. x.ok /\ D = DecodeRootCount(f, a4)
  BY <1>0, <1>1, <1>3, FinalStep
<1>5. f \in Elements /\ a4 \in Words /\ a3 = <<f>> \o a4
  <2>1. x \in Results(Elements) /\ a3 = ElemCode[f] \o a4
    BY <1>3, <1>4, ElemInverts DEF Inverts
  <2>2. f \in Elements /\ a4 \in Words
    BY <1>4, <2>1, ResultIs
  <2> QED  BY <2>1, <2>2 DEF ElemCode
<1> HIDE DEF f, a4, x
<1>6. a4 # <<>> /\ n <= Len(a4) - 1 /\ n >= 2 /\ D = DecodeRoots(f, n, b)
  BY <1>0, <1>4, RootCountStep
<1>7. n \in Nat /\ b \in Words /\ a4 = <<n>> \o b
  BY <1>5, <1>6, FirstWord DEF Words
<1> HIDE DEF n, b
<1>8. y.ok /\ D = DecodeCount(f, n, v, c)
  BY <1>0, <1>6, <1>7, RootsStep
<1>9. v \in [1 .. n -> Caps] /\ c \in Words /\ Begins(b, RootCode, v, c)
  <2>1. Inverts(RootParser, RootCode, Caps)
    BY RootInverts
  <2>2. \A s \in Words : Repeated(RootParser, n, Caps)[s].ok =>
              /\ Begins(s, RootCode, Repeated(RootParser, n, Caps)[s].value, Repeated(RootParser, n, Caps)[s].rest)
              /\ Repeated(RootParser, n, Caps)[s].value \in [1 .. n -> Caps]
              /\ Repeated(RootParser, n, Caps)[s].rest \in Words
    BY <1>7, <2>1, RepeatedReads
  <2> QED  BY <1>7, <1>8, <2>2
<1> HIDE DEF y, v, c
<1>10. c # <<>> /\ m <= Len(c) - 1 /\ m # 0 /\ D = DecodeIndices(f, n, v, m, d)
  BY <1>0, <1>8, CountStep
<1>11. m \in Nat /\ d \in Words /\ c = <<m>> \o d
  BY <1>9, <1>10, FirstWord DEF Words
<1> HIDE DEF m, d
<1>12. z.ok /\ D = DecodeQueries(f, n, v, m, I, Q)
  BY <1>0, <1>10, <1>11, IndicesStep
<1>13. I \in [1 .. m -> Nat] /\ I \in Words /\ Q \in Words /\ d = I \o Q
  <2>1. Inverts(DigestParser, Word1, Nat)
    BY DigestInverts
  <2>2. I \in [1 .. m -> Nat] /\ Q \in Words /\ Begins(d, Word1, I, Q)
    <3>1. \A s \in Words : Repeated(DigestParser, m, Nat)[s].ok =>
              /\ Begins(s, Word1, Repeated(DigestParser, m, Nat)[s].value, Repeated(DigestParser, m, Nat)[s].rest)
              /\ Repeated(DigestParser, m, Nat)[s].value \in [1 .. m -> Nat]
              /\ Repeated(DigestParser, m, Nat)[s].rest \in Words
      BY <1>11, <2>1, RepeatedReads
    <3> QED  BY <1>11, <1>12, <3>1
  <2> HIDE DEF I, Q
  <2>3. I \in Words
    BY <1>11, <2>2, VectorIsSeq DEF Words
  <2>4. Flat(Word1, I) = I
    BY <2>3, FlatWords
  <2> QED  BY <2>2, <2>3, <2>4 DEF Begins
<1> HIDE DEF z, I, Q
<1>14. u.ok /\ D = Close(f, v, I, e, u.rest)
  BY <1>0, <1>6, <1>7, <1>11, <1>12, <1>13, QueriesStep
<1>15. n - 1 \in Nat
  BY <1>6, <1>7
<1>16. e \in [1 .. m -> Queries(n - 1)] /\ Begins(Q, QueryCode(n - 1), e, u.rest) /\ u.rest \in Words
  <2> DEFINE k == n - 1
  <2>1. Inverts(QueryParser(k), QueryCode(k), Queries(k))
    BY <1>15, QueryInverts
  <2>2. u = Repeated(QueryParser(k), m, Queries(k))[Q]
    OBVIOUS
  <2> HIDE DEF k
  <2>3. \A s \in Words : Repeated(QueryParser(k), m, Queries(k))[s].ok =>
              /\ Begins(s, QueryCode(k), Repeated(QueryParser(k), m, Queries(k))[s].value,
                        Repeated(QueryParser(k), m, Queries(k))[s].rest)
              /\ Repeated(QueryParser(k), m, Queries(k))[s].value \in [1 .. m -> Queries(k)]
              /\ Repeated(QueryParser(k), m, Queries(k))[s].rest \in Words
    BY <1>11, <2>1, RepeatedReads
  <2> HIDE DEF u
  <2>4. u.value \in [1 .. m -> Queries(k)] /\ Begins(Q, QueryCode(k), u.value, u.rest) /\ u.rest \in Words
    BY <1>13, <1>14, <2>2, <2>3
  <2> QED  BY <2>4 DEF k
<1> DEFINE pf == Made(v, f, I, e)
<1> HIDE DEF u
<1>17. u.rest = <<>> /\ D = Done(pf, <<>>)
  BY <1>0, <1>14, Zenon DEF Close, Made
<1> HIDE DEF e
<1>18. /\ pf \in Proofs /\ Len(pf.roots) = n /\ Len(pf.query_indices) = m
       /\ pf.roots = v /\ pf.final_value = f /\ pf.query_indices = I /\ pf.query_proofs = e
  <2>1. /\ n \in Nat /\ n >= 1 /\ v \in [1 .. n -> Caps] /\ f \in Elements /\ m \in Nat
        /\ I \in [1 .. m -> Nat] /\ e \in [1 .. m -> Queries(n - 1)]
    BY <1>5, <1>6, <1>7, <1>9, <1>11, <1>13, <1>16
  <2>2. MadeOf(Made(v, f, I, e), n, m, v, f, I, e)
    BY <2>1, MadeIs
  <2> QED  BY <2>2 DEF MadeOf
<1> HIDE DEF pf
<1>19. Q = QueryWords(pf) /\ b = RootWords(pf) \o c
  <2>1. QueryWords(pf) = Flat(QueryCode(n - 1), e) /\ RootWords(pf) = Flat(RootCode, v)
    BY <1>18 DEF QueryWords, RootWords
  <2>2. Flat(QueryCode(n - 1), e) \in Words
    BY <1>11, <1>15, <1>16, QueryWordsTyped
  <2> DEFINE g == Flat(QueryCode(n - 1), e)
  <2>3. Q = g \o <<>> /\ b = RootWords(pf) \o c
    BY <1>9, <1>16, <1>17, <2>1 DEF Begins
  <2>4. g \in Words /\ g = QueryWords(pf)
    BY <2>1, <2>2
  <2> HIDE DEF g
  <2>5. g \o <<>> = g
    BY <2>4, Concat DEF Words
  <2> QED  BY <2>3, <2>4, <2>5
<1>20. Chained(w, f, n, RootWords(pf), m, I, QueryWords(pf))
  BY <1>2, <1>3, <1>5, <1>7, <1>11, <1>13, <1>19 DEF Chained
<1>21. Chained(EncodeFriProof(pf), f, n, RootWords(pf), m, I, QueryWords(pf))
  BY <1>18, EncodeIs
<1>22. EncodeFriProof(pf) = w
  BY <1>20, <1>21 DEF Chained
<1>23. D.value = pf
  BY <1>17, Parsed
<1> QED  BY <1>6, <1>10, <1>17, <1>18, <1>22, <1>23 DEF D

-----------------------------------------------------------------------------
\* Where digests lie.

\* Where the digests of vectors of a length lie.
LEMMA DigestRange ==
  ASSUME NEW n \in Nat, NEW A \in [1 .. n -> Elements]
  PROVE  /\ Digest(A) \in Nat /\ Digest(Zeros(n)) \in Nat /\ Digest(Zeros(n)) > 0
         /\ Digest(A) \in Digest(Zeros(n)) .. (2 * Digest(Zeros(n)) - 1)
<1> DEFINE D == [i \in 1 .. (n + n) |-> IF i <= n THEN A[i] ELSE A[i - n]]
<1>1. D \in [1 .. (n + n) -> Elements]
  <2>1. \A i \in 1 .. (n + n) : (IF i <= n THEN A[i] ELSE A[i - n]) \in Elements
    <3> TAKE i \in 1 .. (n + n)
    <3>1. IF i <= n THEN i \in 1 .. n ELSE i - n \in 1 .. n
      OBVIOUS
    <3> QED  BY <3>1
  <2> QED  BY <2>1
<1>2. (\A i \in 1 .. n : D[i] = A[i]) /\ (\A i \in 1 .. n : D[n + i] = A[i])
  OBVIOUS
<1> HIDE DEF D
<1>3. /\ Digest(A) \in Nat /\ Digest(A) \in Nat /\ Digest(Zeros(n)) \in Nat
      /\ Digest(D) = Digest(A) * Digest(Zeros(n)) + (Digest(A) - Digest(Zeros(n)))
      /\ Digest(Zeros(n)) <= Digest(A) /\ Digest(A) <= 2 * Digest(Zeros(n)) - 1
  BY <1>1, <1>2, DigestJoin, ZenonT(60)
<1> QED  BY <1>3

CompressedIn(w, l, r) ==
  IF l \in w .. (2 * w - 1) /\ r \in w .. (2 * w - 1) THEN l * w + (r - w) ELSE 0

\* Compression of two digests of height h, from where such digests lie.
LEMMA CompressIn ==
  ASSUME NEW h \in 0 .. 30, NEW l, NEW r
  PROVE  /\ Compress(l, r, h) = CompressedIn(Digest(Zeros(Two(h))), l, r)
         /\ Digest(Zeros(Two(h))) \in Nat /\ Digest(Zeros(Two(h))) > 0
         /\ Compress(l, r, h) \in Nat
<1> DEFINE n == Two(h)
           w == Digest(Zeros(n))
<1>1. n \in Nat
  BY PowersOfTwo
<1>2. Compress(l, r, h) = CompressedIn(w, l, r)
  BY DEF Compress, CompressedIn, Zeros, Two
<1> HIDE DEF n
<1>3. Zeros(n) \in [1 .. n -> Elements]
  BY ZeroOne DEF Zeros
<1>4. w \in Nat /\ w > 0
  BY <1>1, <1>3, DigestRange
<1> HIDE DEF w
<1>5. CompressedIn(w, l, r) \in Nat
  <2>1. CASE l \in w .. (2 * w - 1) /\ r \in w .. (2 * w - 1)
    <3>1. l \in Nat /\ r - w \in Nat
      BY <1>4, <2>1
    <3>2. \A a, b, c \in Nat : a * b + c \in Nat
      OBVIOUS
    <3>3. l * w + (r - w) \in Nat
      BY <1>4, <3>1, <3>2
    <3> QED  BY <2>1, <3>3 DEF CompressedIn
  <2>2. CASE ~(l \in w .. (2 * w - 1) /\ r \in w .. (2 * w - 1))
    BY <2>2 DEF CompressedIn
  <2> QED  BY <2>1, <2>2
<1> QED  BY <1>2, <1>4, <1>5 DEF w, n

\* Two subtrees are told by the digest of both.
LEMMA CompressInjective ==
  ASSUME NEW h \in 0 .. 30,
         NEW A \in [1 .. Two(h) -> Elements], NEW B \in [1 .. Two(h) -> Elements],
         NEW l, NEW r, Compress(l, r, h) = Compress(Digest(A), Digest(B), h)
  PROVE  l = Digest(A) /\ r = Digest(B)
<1> DEFINE n == Two(h)
           w == Digest(Zeros(n))
           a == Digest(A)
           b == Digest(B)
<1>1. n \in Nat /\ A \in [1 .. n -> Elements] /\ B \in [1 .. n -> Elements]
  BY PowersOfTwo
<1>2. CompressedIn(w, l, r) = CompressedIn(w, a, b)
  BY CompressIn
<1> HIDE DEF n
<1>3. w \in Nat /\ w > 0 /\ a \in w .. (2 * w - 1) /\ b \in w .. (2 * w - 1)
  BY <1>1, DigestRange
<1> HIDE DEF w, a, b
<1>4. a \in Nat /\ b \in Nat /\ b - w \in Nat /\ b - w < w /\ a >= w
  BY <1>3
<1>5. CompressedIn(w, a, b) = a * w + (b - w)
  BY <1>3 DEF CompressedIn
<1>6. a * w + (b - w) > 0
  <2>1. \A x, y, z \in Nat : x > 0 /\ y > 0 => x * y + z > 0
    OBVIOUS
  <2>2. a > 0
    BY <1>3, <1>4
  <2> QED  BY <1>3, <1>4, <2>1, <2>2
<1>7. l \in w .. (2 * w - 1) /\ r \in w .. (2 * w - 1)
  BY <1>2, <1>5, <1>6 DEF CompressedIn
<1>8. l * w + (r - w) = a * w + (b - w)
  BY <1>2, <1>5, <1>7 DEF CompressedIn
<1>9. l \in Int /\ a \in Int /\ r - w \in Nat /\ r - w < w /\ r \in Int
  BY <1>3, <1>7
<1> DEFINE i == w * a + (b - w)
           s == b - w
           t == r - w
<1>10. i = w * l + t /\ i = w * a + s
  BY <1>3, <1>4, <1>8, <1>9
<1>11. s \in Nat /\ s < w /\ t \in Nat /\ t < w
  BY <1>4, <1>9
<1> HIDE DEF i, s, t
<1>12. i \div w = a /\ i % w = s /\ i \div w = l /\ i % w = t
  BY <1>3, <1>9, <1>10, <1>11, DivUnique
<1>13. l = a /\ r - w = b - w
  BY <1>12 DEF s, t
<1>14. r = b
  BY <1>3, <1>4, <1>9, <1>13
<1> QED  BY <1>13, <1>14 DEF a, b

\* What an accepted opening has been compressed to on the way up.
Climbs(o, H, u) ==
  /\ u[0] = Digest(<<o.leaf_value>>)
  /\ \A h \in 1 .. H : u[h] = IF (o.leaf_index \div 2^(h - 1)) % 2 = 0
                              THEN Compress(u[h - 1], o.proof[h], h - 1)
                              ELSE Compress(o.proof[h], u[h - 1], h - 1)

\* The digests a verifier computes on its way from a leaf up.
LEMMA ClimbExists ==
  ASSUME NEW H \in 0 .. 30, NEW o \in Openings
  PROVE  \E u : u = [h \in 0 .. H |-> IF h = 0 THEN Digest(<<o.leaf_value>>)
                            ELSE IF (o.leaf_index \div 2^(h - 1)) % 2 = 0
                                 THEN Compress(u[h - 1], o.proof[h], h - 1)
                                 ELSE Compress(o.proof[h], u[h - 1], h - 1)]
<1> DEFINE F == [h \in 1 .. H |-> [y \in Nat |-> IF (o.leaf_index \div 2^(h - 1)) % 2 = 0
                                                THEN Compress(y, o.proof[h], h - 1)
                                                ELSE Compress(o.proof[h], y, h - 1)]]
           z == Digest(<<o.leaf_value>>)
<1>1. z \in Nat
  <2> DEFINE A == <<o.leaf_value>>
  <2>1. A \in [1 .. 1 -> Elements]
    BY DEF Openings
  <2> HIDE DEF A
  <2>2. Digest(A) \in Nat
    <3>1. 1 \in Nat
      OBVIOUS
    <3> QED  BY <2>1, <3>1, DigestRange
  <2> QED  BY <2>2 DEF A
<1>2. \A h \in 1 .. H : \A y \in Nat : /\ Compress(y, o.proof[h], h - 1) \in Nat
                                        /\ Compress(o.proof[h], y, h - 1) \in Nat
  <2> TAKE h \in 1 .. H
  <2>1. h - 1 \in 0 .. 30
    OBVIOUS
  <2> QED  BY <2>1, CompressIn
<1>3. F \in [1 .. H -> [Nat -> Nat]]
  BY <1>2
<1>4. \A h \in 1 .. H : \A y \in Nat : F[h][y] = IF (o.leaf_index \div 2^(h - 1)) % 2 = 0
                                                THEN Compress(y, o.proof[h], h - 1)
                                                ELSE Compress(o.proof[h], y, h - 1)
  OBVIOUS
<1> HIDE DEF F, z
<1>5. PICK u : Iterates(H, Nat, z, F, u)
  <2>1. H \in Nat
    OBVIOUS
  <2> QED  BY <1>1, <1>3, <2>1, Recursion
<1>6. u \in [0 .. H -> Nat] /\ u[0] = z /\ \A h \in 1 .. H : u[h] = F[h][u[h - 1]]
  BY <1>5 DEF Iterates
<1>7. \A h \in 0 .. H : u[h] = IF h = 0 THEN z
                            ELSE IF (o.leaf_index \div 2^(h - 1)) % 2 = 0
                                 THEN Compress(u[h - 1], o.proof[h], h - 1)
                                 ELSE Compress(o.proof[h], u[h - 1], h - 1)
  <2> TAKE h \in 0 .. H
  <2>1. CASE h = 0
    BY <1>6, <2>1
  <2>2. CASE h # 0
    <3>1. h \in 1 .. H /\ h - 1 \in 0 .. H
      BY <2>2
    <3>2. u[h - 1] \in Nat /\ u[h] = F[h][u[h - 1]]
      BY <1>6, <3>1
    <3> QED  BY <1>4, <2>2, <3>1, <3>2, Zenon
  <2> QED  BY <2>1, <2>2
<1>8. u = [h \in 0 .. H |-> IF h = 0 THEN z
                            ELSE IF (o.leaf_index \div 2^(h - 1)) % 2 = 0
                                 THEN Compress(u[h - 1], o.proof[h], h - 1)
                                 ELSE Compress(o.proof[h], u[h - 1], h - 1)]
  <2>1. u = [h \in 0 .. H |-> u[h]]
    BY <1>6
  <2> QED  BY <1>7, <2>1
<1> QED  BY <1>8 DEF z

\* An accepted opening ends that way at the root (merkle.rs, verify).
LEMMA AcceptedClimbs ==
  ASSUME NEW H \in 0 .. 30, NEW o \in Openings, NEW c
  PROVE  /\ VerifyOpening(c, Two(H), o) =>
              /\ o.leaf_index \in 0 .. (Two(H) - 1) /\ Len(o.proof) = H
              /\ \E u : Climbs(o, H, u) /\ c = <<u[H]>>
<1> DEFINE size == Two(H)
<1>1. size \in Nat /\ Log2(size) = H
  <2>1. size \in Nat
    BY PowersOfTwo
  <2>2. Log2(size) = H
    BY LogOfPower
  <2> QED  BY <2>1, <2>2
<1> HIDE DEF size
<1> DEFINE IsUp(u) == u = [h \in 0 .. H |-> IF h = 0 THEN Digest(<<o.leaf_value>>)
                            ELSE IF (o.leaf_index \div 2^(h - 1)) % 2 = 0
                                 THEN Compress(u[h - 1], o.proof[h], h - 1)
                                 ELSE Compress(o.proof[h], u[h - 1], h - 1)]
<1>2. PICK u : IsUp(u) /\ VerifyOpening(c, size, o)
                            = (/\ o.leaf_index < size /\ Len(o.proof) = H /\ c = <<u[H]>>)
  <2> DEFINE u == CHOOSE u : IsUp(u)
  <2>1. IsUp(u)
    <3>1. \E v : IsUp(v)
      BY ClimbExists, Zenon
    <3> HIDE DEF IsUp
    <3> QED  BY <3>1, Zenon
  <2>2. VerifyOpening(c, size, o) = (/\ o.leaf_index < size /\ Len(o.proof) = H /\ c = <<u[H]>>)
    BY <1>1, Zenon DEF VerifyOpening
  <2> HIDE DEF u, IsUp
  <2> QED  BY <2>1, <2>2, Zenon
<1>3. Climbs(o, H, u)
  <2>1. u[0] = Digest(<<o.leaf_value>>)
    <3>1. 0 \in 0 .. H
      OBVIOUS
    <3> QED  BY <1>2, <3>1
  <2>2. ASSUME NEW h \in 1 .. H
        PROVE  u[h] = IF (o.leaf_index \div 2^(h - 1)) % 2 = 0
                      THEN Compress(u[h - 1], o.proof[h], h - 1)
                      ELSE Compress(o.proof[h], u[h - 1], h - 1)
    <3>1. h \in 0 .. H /\ h # 0
      OBVIOUS
    <3> QED  BY <1>2, <3>1, Zenon
  <2> QED  BY <2>1, <2>2 DEF Climbs
<1>4. o.leaf_index \in Nat
  BY DEF Openings
<1>5. ASSUME VerifyOpening(c, size, o)
      PROVE  /\ o.leaf_index \in 0 .. (size - 1) /\ Len(o.proof) = H
             /\ \E v : Climbs(o, H, v) /\ c = <<v[H]>>
  <2>1. o.leaf_index < size /\ Len(o.proof) = H /\ c = <<u[H]>>
    BY <1>2, <1>5, Zenon
  <2>2. o.leaf_index \in 0 .. (size - 1)
    BY <1>1, <1>4, <2>1
  <2> QED  BY <1>3, <2>1, <2>2
<1> QED  BY <1>5 DEF size

-----------------------------------------------------------------------------
\* What an accepted opening is of.

\* An opening that is accepted is of a leaf that was committed, and its path
\* is the one from there.
LEMMA OpeningSound ==
  ASSUME NEW H \in 0 .. 30, NEW leaves \in [1 .. Two(H) -> Elements], NEW o \in Openings,
         VerifyOpening(RootOf(leaves), Two(H), o)
  PROVE  /\ o.leaf_index \in 0 .. (Two(H) - 1)
         /\ o.leaf_value = leaves[o.leaf_index + 1]
         /\ o.proof = Opening(leaves, o.leaf_index).proof
<1> DEFINE i == o.leaf_index
           t == Way(leaves, i, H)
           mine(h) == Digest(Block(leaves, i \div Two(h), Two(h)))
           other(h) == Digest(Sibling(leaves, i, h))
<1>1. PICK u : Climbs(o, H, u) /\ RootOf(leaves) = <<u[H]>>
  BY AcceptedClimbs
<1>2. i \in 0 .. (Two(H) - 1) /\ Len(o.proof) = H
  BY AcceptedClimbs
<1>3. t[0] = Digest(<<leaves[i + 1]>>) /\ t[H] = Digest(leaves) /\ \A h \in 0 .. H : t[h] = mine(h)
  BY <1>2, WayEnds DEF Way
<1>4. u[H] = t[H]
  BY <1>1, <1>3 DEF RootOf
<1> HIDE DEF t
<1>5. ASSUME NEW h \in 1 .. H, u[h] = t[h]
      PROVE  u[h - 1] = t[h - 1] /\ o.proof[h] = other(h - 1)
  <2> DEFINE g == h - 1
             A == Block(leaves, i \div Two(g), Two(g))
             B == Sibling(leaves, i, g)
  <2>1. g \in 0 .. 30 /\ g \in 0 .. H /\ h \in 0 .. H
    OBVIOUS
  <2>2. /\ mine(h) = IF (i \div Two(g)) % 2 = 0 THEN Compress(Digest(A), Digest(B), g)
                     ELSE Compress(Digest(B), Digest(A), g)
        /\ A \in [1 .. Two(g) -> Elements] /\ B \in [1 .. Two(g) -> Elements]
    BY <1>2, SiblingIs
  <2>3. t[h] = mine(h) /\ t[g] = Digest(A)
    BY <1>3, <2>1
  <2>4. u[h] = IF (i \div Two(g)) % 2 = 0 THEN Compress(u[g], o.proof[h], g)
               ELSE Compress(o.proof[h], u[g], g)
    BY <1>1 DEF Climbs, Two
  <2> HIDE DEF A, B, mine, i
  <2>5. CASE (i \div Two(g)) % 2 = 0
    <3>1. Compress(u[g], o.proof[h], g) = Compress(Digest(A), Digest(B), g)
      BY <1>5, <2>2, <2>3, <2>4, <2>5
    <3> HIDE DEF g
    <3>2. u[g] = Digest(A) /\ o.proof[h] = Digest(B)
      BY <2>1, <2>2, <3>1, CompressInjective
    <3> QED  BY <2>3, <3>2 DEF g, B, i
  <2>6. CASE (i \div Two(g)) % 2 # 0
    <3>1. Compress(o.proof[h], u[g], g) = Compress(Digest(B), Digest(A), g)
      BY <1>5, <2>2, <2>3, <2>4, <2>6
    <3> HIDE DEF g
    <3>2. o.proof[h] = Digest(B) /\ u[g] = Digest(A)
      <4> DEFINE l == o.proof[h]
                 r == u[g]
      <4>1. Compress(l, r, g) = Compress(Digest(B), Digest(A), g)
        BY <3>1
      <4> HIDE DEF l, r
      <4>2. l = Digest(B) /\ r = Digest(A)
        BY <2>1, <2>2, <4>1, CompressInjective
      <4> QED  BY <4>2 DEF l, r
    <3> QED  BY <2>3, <3>2 DEF g, B, i
  <2> QED  BY <2>5, <2>6
<1> DEFINE S == {k \in Nat : k <= H => u[H - k] = t[H - k]}
<1>6. 0 \in S
  <2>1. H - 0 = H
    OBVIOUS
  <2> QED  BY <1>4, <2>1
<1>7. ASSUME NEW k \in Nat, k \in S PROVE k + 1 \in S
  <2> SUFFICES ASSUME k + 1 <= H PROVE u[H - (k + 1)] = t[H - (k + 1)]
    OBVIOUS
  <2>1. H - k \in 1 .. H /\ (H - k) - 1 = H - (k + 1)
    OBVIOUS
  <2>2. u[H - k] = t[H - k]
    <3>1. k <= H
      OBVIOUS
    <3> QED  BY <1>7, <3>1
  <2>3. u[(H - k) - 1] = t[(H - k) - 1]
    BY <1>5, <2>1, <2>2
  <2> QED  BY <2>1, <2>3
<1> HIDE DEF S
<1>8. \A k \in Nat : k \in S
  BY <1>6, <1>7, Induct
<1>9. \A h \in 0 .. H : u[h] = t[h]
  <2> TAKE h \in 0 .. H
  <2>1. H - h \in Nat /\ H - h <= H /\ H - (H - h) = h
    OBVIOUS
  <2> QED  BY <1>8, <2>1 DEF S
<1>10. o.leaf_value = leaves[i + 1]
  <2> DEFINE a == o.leaf_value
             b == leaves[i + 1]
             A == <<a>>
             B == <<b>>
  <2>1. Digest(A) = Digest(B)
    <3>1. 0 \in 0 .. H
      OBVIOUS
    <3> QED  BY <1>1, <1>3, <1>9, <3>1 DEF Climbs
  <2>2. a \in Elements /\ b \in Elements
    <3>1. i + 1 \in 1 .. Two(H)
      <4>1. Two(H) \in Nat
        BY PowersOfTwo
      <4>2. \A n \in Nat : \A x \in 0 .. (n - 1) : x + 1 \in 1 .. n
        OBVIOUS
      <4> QED  BY <1>2, <4>1, <4>2
    <3> QED  BY <3>1 DEF Openings
  <2>3. A \in [1 .. 1 -> Elements] /\ B \in [1 .. 1 -> Elements] /\ A[1] = a /\ B[1] = b
    BY <2>2
  <2> HIDE DEF A, B, a, b
  <2>4. A = B
    <3>1. 1 \in Nat
      OBVIOUS
    <3> QED  BY <2>1, <2>3, <3>1, DigestInjective
  <2>5. a = b
    BY <2>3, <2>4
  <2> QED  BY <2>5 DEF a, b
<1>11. o.proof = Opening(leaves, i).proof
  <2>1. Len(leaves) = Two(H) /\ Log2(Two(H)) = H
    BY PowersOfTwo, LogOfPower, VectorIsSeq
  <2>2. Opening(leaves, i).proof = [h \in 1 .. H |-> other(h - 1)]
    BY <2>1 DEF Opening
  <2>3. o.proof \in [1 .. H -> Nat]
    BY <1>2, SeqIsVector DEF Openings, Words
  <2>4. \A h \in 1 .. H : o.proof[h] = other(h - 1)
    BY <1>5, <1>9
  <2> HIDE DEF other
  <2> QED  BY <2>2, <2>3, <2>4
<1> QED  BY <1>2, <1>10, <1>11

\* An opening is accepted under one root only.
LEMMA OneRoot ==
  ASSUME NEW c, NEW d, NEW n, NEW o, VerifyOpening(c, n, o), VerifyOpening(d, n, o)
  PROVE  c = d
BY DEF VerifyOpening

-----------------------------------------------------------------------------
\* Words nearly the same.

\* Words of which one at most is another.
Near(a, b) == Len(a) = Len(b) /\ \E i \in Nat : \A j \in 1 .. Len(a) : j # i => a[j] = b[j]

\* Of two pairs of words that are nearly the same, one part is the same.
LEMMA NearParts ==
  ASSUME NEW x \in Words, NEW x2 \in Words, NEW y \in Words, NEW y2 \in Words,
         Len(x) = Len(x2), Near(x \o y, x2 \o y2)
  PROVE  Near(x, x2) /\ Near(y, y2) /\ (x = x2 \/ y = y2)
<1> DEFINE n == Len(x)
           m == Len(y)
<1>1. n \in Nat /\ m \in Nat /\ Len(x2) = n
  BY DEF Words
<1>2. Len(x \o y) = n + m /\ Len(x2 \o y2) = n + Len(y2) /\ Len(y2) \in Nat
  <2>1. Len(x \o y) = Len(x) + Len(y) /\ Len(x2 \o y2) = Len(x2) + Len(y2)
    BY Joined
  <2>2. Len(y2) \in Nat
    BY DEF Words
  <2> QED  BY <1>1, <2>1, <2>2
<1>3. Len(y2) = m
  <2>1. Len(x \o y) = Len(x2 \o y2)
    BY DEF Near
  <2>2. \A a, b, c \in Nat : a + b = a + c => c = b
    OBVIOUS
  <2> HIDE DEF n, m
  <2>3. n + m = n + Len(y2)
    BY <1>2, <2>1
  <2> QED  BY <1>1, <1>2, <2>2, <2>3
<1>4. /\ \A j \in 1 .. n : (x \o y)[j] = x[j] /\ (x2 \o y2)[j] = x2[j]
      /\ \A j \in 1 .. m : (x \o y)[n + j] = y[j] /\ (x2 \o y2)[n + j] = y2[j]
  BY <1>1, <1>3 DEF Words
<1>5. PICK i \in Nat : \A j \in 1 .. (n + m) : j # i => (x \o y)[j] = (x2 \o y2)[j]
  BY <1>2 DEF Near
<1>6. \A j \in 1 .. n : j # i => x[j] = x2[j]
  BY <1>1, <1>4, <1>5
<1>7. \A j \in 1 .. m : n + j # i => y[j] = y2[j]
  <2> TAKE j \in 1 .. m
  <2>1. n + j \in 1 .. (n + m)
    BY <1>1
  <2> QED  BY <1>4, <1>5, <2>1
<1>8. x \in [1 .. n -> Nat] /\ x2 \in [1 .. n -> Nat] /\ y \in [1 .. m -> Nat] /\ y2 \in [1 .. m -> Nat]
  BY <1>1, <1>3, SeqIsVector DEF Words
<1> HIDE DEF n, m
<1>9. Near(x, x2)
  BY <1>1, <1>6 DEF Near, n
<1>10. CASE i <= n
  <2>1. \A j \in 1 .. m : y[j] = y2[j]
    BY <1>1, <1>7, <1>10
  <2>2. y = y2
    <3>1. y = [j \in 1 .. m |-> y[j]] /\ y2 = [j \in 1 .. m |-> y2[j]]
      BY <1>8
    <3>2. [j \in 1 .. m |-> y[j]] = [j \in 1 .. m |-> y2[j]]
      BY <2>1
    <3> QED  BY <3>1, <3>2, Zenon
  <2>3. Near(y, y2)
    BY <2>2 DEF Near
  <2> QED  BY <1>9, <2>2, <2>3
<1>11. CASE ~(i <= n)
  <2>1. \A j \in 1 .. n : x[j] = x2[j]
    BY <1>1, <1>6, <1>11
  <2>2. x = x2
    <3>1. x = [j \in 1 .. n |-> x[j]] /\ x2 = [j \in 1 .. n |-> x2[j]]
      BY <1>8
    <3>2. [j \in 1 .. n |-> x[j]] = [j \in 1 .. n |-> x2[j]]
      BY <2>1
    <3> QED  BY <3>1, <3>2, Zenon
  <2>3. i - n \in Nat /\ \A j \in 1 .. m : j # i - n => y[j] = y2[j]
    BY <1>1, <1>7, <1>11
  <2>4. Near(y, y2)
    BY <1>3, <2>3 DEF Near, m
  <2> QED  BY <1>9, <2>2, <2>4
<1> QED  BY <1>10, <1>11

\* So is each part of many, if the parts are as long.
LEMMA NearFlat ==
  ASSUME NEW n \in Nat, NEW s \in [1 .. n -> Words], NEW t \in [1 .. n -> Words],
         \A i \in 1 .. n : Len(s[i]) = Len(t[i]), Near(FlattenSeq(s), FlattenSeq(t))
  PROVE  \A i \in 1 .. n : Near(s[i], t[i])
<1>1. PICK g : Joins(s, n, Nat, g)
  BY JoinsExist DEF Words
<1>2. PICK h : Joins(t, n, Nat, h)
  BY JoinsExist DEF Words
<1>3. FlattenSeq(s) = g[n] /\ FlattenSeq(t) = h[n]
  BY <1>1, <1>2, FlattenIs DEF Words
<1>4. /\ g \in [0 .. n -> Words] /\ g[0] = <<>> /\ \A k \in 1 .. n : g[k] = g[k - 1] \o s[k]
      /\ h \in [0 .. n -> Words] /\ h[0] = <<>> /\ \A k \in 1 .. n : h[k] = h[k - 1] \o t[k]
  BY <1>1, <1>2 DEF Joins, Words
<1> DEFINE A == {k \in Nat : k <= n => Len(g[k]) = Len(h[k])}
<1>5. \A k \in 0 .. n : Len(g[k]) = Len(h[k])
  <2>1. 0 \in A
    BY <1>4
  <2>2. ASSUME NEW k \in 1 .. n, k - 1 \in A PROVE k \in A
    <3>1. k - 1 \in 0 .. n /\ k - 1 <= n
      OBVIOUS
    <3>2. g[k - 1] \in Words /\ h[k - 1] \in Words /\ s[k] \in Words /\ t[k] \in Words
      BY <1>4, <3>1
    <3>3. Len(g[k - 1]) = Len(h[k - 1])
      BY <2>2, <3>1
    <3>4. Len(g[k - 1] \o s[k]) = Len(g[k - 1]) + Len(s[k]) /\ Len(h[k - 1] \o t[k]) = Len(h[k - 1]) + Len(t[k])
      BY <3>2, Joined
    <3>5. Len(g[k]) = Len(h[k])
      BY <1>4, <3>3, <3>4
    <3> QED  BY <3>5
  <2> HIDE DEF A
  <2>3. \A k \in 1 .. n : k - 1 \in A => k \in A
    BY <2>2
  <2>4. \A k \in 0 .. n : k \in A
    BY <2>1, <2>3, Up
  <2> QED  BY <2>4 DEF A
<1> DEFINE B == {k \in Nat : k <= n => Near(g[n - k], h[n - k])}
<1>6. 0 \in B
  <2>1. n - 0 = n
    OBVIOUS
  <2> QED  BY <1>3, <2>1
<1>7. ASSUME NEW k \in 1 .. n, Near(g[k], h[k]) PROVE Near(g[k - 1], h[k - 1]) /\ Near(s[k], t[k])
  <2>1. k - 1 \in 0 .. n
    OBVIOUS
  <2>2. g[k - 1] \in Words /\ h[k - 1] \in Words /\ s[k] \in Words /\ t[k] \in Words
    BY <1>4, <2>1
  <2>3. Len(g[k - 1]) = Len(h[k - 1])
    BY <1>5, <2>1
  <2> DEFINE x == g[k - 1]
             x2 == h[k - 1]
             y == s[k]
             y2 == t[k]
  <2>4. Near(x \o y, x2 \o y2)
    BY <1>4, <1>7
  <2>5. x \in Words /\ x2 \in Words /\ y \in Words /\ y2 \in Words /\ Len(x) = Len(x2)
    BY <2>2, <2>3
  <2> HIDE DEF x, x2, y, y2
  <2>6. Near(x, x2) /\ Near(y, y2)
    BY <2>4, <2>5, NearParts
  <2> QED  BY <2>6 DEF x, x2, y, y2
<1>8. ASSUME NEW k \in Nat, k \in B PROVE k + 1 \in B
  <2> SUFFICES ASSUME k + 1 <= n PROVE Near(g[n - (k + 1)], h[n - (k + 1)])
    OBVIOUS
  <2>1. n - k \in 1 .. n /\ (n - k) - 1 = n - (k + 1) /\ k <= n
    OBVIOUS
  <2>2. Near(g[n - k], h[n - k])
    BY <1>8, <2>1
  <2>3. Near(g[(n - k) - 1], h[(n - k) - 1])
    BY <1>7, <2>1, <2>2
  <2> QED  BY <2>1, <2>3
<1> HIDE DEF A, B
<1>9. \A k \in Nat : k \in B
  BY <1>6, <1>8, Induct
<1>10. ASSUME NEW i \in 1 .. n PROVE Near(s[i], t[i])
  <2>1. n - i \in Nat /\ n - i <= n /\ n - (n - i) = i
    OBVIOUS
  <2>2. Near(g[i], h[i])
    BY <1>9, <2>1 DEF B
  <2> QED  BY <1>7, <2>2
<1> QED  BY <1>10

\* Fewer and shorter parts are no longer.
LEMMA FlatShorter ==
  ASSUME NEW a \in Nat, NEW b \in Nat, a <= b, NEW s \in [1 .. a -> Words], NEW t \in [1 .. b -> Words],
         \A i \in 1 .. a : Len(s[i]) <= Len(t[i])
  PROVE  /\ FlattenSeq(s) \in Words /\ FlattenSeq(t) \in Words
         /\ Len(FlattenSeq(s)) <= Len(FlattenSeq(t))
         /\ a = b /\ (\A i \in 1 .. a : Len(s[i]) = Len(t[i])) => Len(FlattenSeq(s)) = Len(FlattenSeq(t))
<1>1. PICK g : Joins(s, a, Nat, g)
  BY JoinsExist DEF Words
<1>2. PICK h : Joins(t, b, Nat, h)
  BY JoinsExist DEF Words
<1>3. FlattenSeq(s) = g[a] /\ FlattenSeq(t) = h[b]
  BY <1>1, <1>2, FlattenIs DEF Words
<1>4. /\ g \in [0 .. a -> Words] /\ g[0] = <<>> /\ \A k \in 1 .. a : g[k] = g[k - 1] \o s[k]
      /\ h \in [0 .. b -> Words] /\ h[0] = <<>> /\ \A k \in 1 .. b : h[k] = h[k - 1] \o t[k]
  BY <1>1, <1>2 DEF Joins, Words
<1>5. \A k \in 0 .. a : Len(g[k]) \in Nat
  BY <1>4 DEF Words
<1>6. \A k \in 0 .. b : Len(h[k]) \in Nat
  BY <1>4 DEF Words
<1>7. \A k \in 1 .. a : Len(g[k]) = Len(g[k - 1]) + Len(s[k]) /\ Len(s[k]) \in Nat
  <2> TAKE k \in 1 .. a
  <2>1. k - 1 \in 0 .. a
    OBVIOUS
  <2>2. g[k - 1] \in Words /\ s[k] \in Words
    BY <1>4, <2>1
  <2>3. Len(g[k - 1] \o s[k]) = Len(g[k - 1]) + Len(s[k])
    BY <2>2, Joined
  <2>4. Len(s[k]) \in Nat
    BY <2>2 DEF Words
  <2>5. g[k] = g[k - 1] \o s[k]
    BY <1>4
  <2> QED  BY <2>3, <2>4, <2>5
<1>8. \A k \in 1 .. b : Len(h[k]) = Len(h[k - 1]) + Len(t[k]) /\ Len(t[k]) \in Nat
  <2> TAKE k \in 1 .. b
  <2>1. k - 1 \in 0 .. b
    OBVIOUS
  <2>2. h[k - 1] \in Words /\ t[k] \in Words
    BY <1>4, <2>1
  <2>3. Len(h[k - 1] \o t[k]) = Len(h[k - 1]) + Len(t[k])
    BY <2>2, Joined
  <2>4. Len(t[k]) \in Nat
    BY <2>2 DEF Words
  <2>5. h[k] = h[k - 1] \o t[k]
    BY <1>4
  <2> QED  BY <2>3, <2>4, <2>5
<1> DEFINE x == [k \in 0 .. a |-> Len(g[k])]
           y == [k \in 0 .. b |-> Len(h[k])]
           A == {k \in Nat : k <= a => x[k] <= y[k]}
           B == {k \in Nat : k <= b => y[a] <= y[k] \/ k < a}
           C == {k \in Nat : k <= a => x[k] = y[k]}
<1>9. /\ x \in [0 .. a -> Nat] /\ y \in [0 .. b -> Nat] /\ x[0] = 0 /\ y[0] = 0
      /\ \A k \in 1 .. a : x[k] = x[k - 1] + Len(s[k]) /\ Len(s[k]) \in Nat
      /\ \A k \in 1 .. b : y[k] = y[k - 1] + Len(t[k]) /\ Len(t[k]) \in Nat
  <2>1. x \in [0 .. a -> Nat] /\ y \in [0 .. b -> Nat]
    BY <1>5, <1>6
  <2>2. x[0] = 0 /\ y[0] = 0
    <3>1. x[0] = Len(g[0]) /\ y[0] = Len(h[0])
      OBVIOUS
    <3> QED  BY <1>4, <3>1
  <2>3. ASSUME NEW k \in 1 .. a PROVE x[k] = x[k - 1] + Len(s[k]) /\ Len(s[k]) \in Nat
    <3>1. x[k] = Len(g[k]) /\ x[k - 1] = Len(g[k - 1])
      OBVIOUS
    <3> HIDE DEF x
    <3> QED  BY <1>7, <3>1
  <2>4. ASSUME NEW k \in 1 .. b PROVE y[k] = y[k - 1] + Len(t[k]) /\ Len(t[k]) \in Nat
    <3>1. y[k] = Len(h[k]) /\ y[k - 1] = Len(h[k - 1])
      OBVIOUS
    <3> HIDE DEF y
    <3> QED  BY <1>8, <3>1
  <2> HIDE DEF x, y
  <2> QED  BY <2>1, <2>2, <2>3, <2>4
<1>10. FlattenSeq(s) \in Words /\ FlattenSeq(t) \in Words /\ Len(FlattenSeq(s)) = x[a] /\ Len(FlattenSeq(t)) = y[b]
  <2>1. a \in 0 .. a /\ b \in 0 .. b
    OBVIOUS
  <2> QED  BY <1>3, <1>4, <2>1
<1> HIDE DEF x, y
<1>11. ASSUME NEW k \in 1 .. a PROVE /\ x[k - 1] <= y[k - 1] => x[k] <= y[k]
                                     /\ x[k - 1] = y[k - 1] /\ Len(s[k]) = Len(t[k]) => x[k] = y[k]
  <2>1. k - 1 \in 0 .. a /\ k - 1 \in 0 .. b /\ k \in 1 .. b
    OBVIOUS
  <2>2. /\ x[k - 1] \in Nat /\ y[k - 1] \in Nat /\ Len(s[k]) \in Nat /\ Len(t[k]) \in Nat
        /\ x[k] = x[k - 1] + Len(s[k]) /\ y[k] = y[k - 1] + Len(t[k]) /\ Len(s[k]) <= Len(t[k])
    BY <1>9, <2>1
  <2> QED  BY <2>2
<1>12. x[a] <= y[a]
  <2>1. 0 \in A
    BY <1>9
  <2>2. \A k \in 1 .. a : k - 1 \in A => k \in A
    BY <1>11
  <2> HIDE DEF A
  <2>3. \A k \in 0 .. a : k \in A
    BY <2>1, <2>2, Up
  <2> QED  BY <2>3 DEF A
<1>13. y[a] <= y[b]
  <2>1. 0 \in B
    BY <1>9
  <2>2. ASSUME NEW k \in 1 .. b, k - 1 \in B PROVE k \in B
    <3>1. k - 1 \in 0 .. b /\ k \in 0 .. b /\ a \in 0 .. b
      OBVIOUS
    <3>2. y[k - 1] \in Nat /\ y[k] \in Nat /\ y[a] \in Nat /\ y[k - 1] <= y[k]
      BY <1>9, <3>1
    <3>3. CASE k = a
      BY <3>2, <3>3
    <3>4. CASE k # a
      BY <2>2, <3>2, <3>4
    <3> QED  BY <3>3, <3>4
  <2> HIDE DEF B
  <2>3. \A k \in 0 .. b : k \in B
    BY <2>1, <2>2, Up
  <2> QED  BY <2>3 DEF B
<1>14. ASSUME a = b, \A i \in 1 .. a : Len(s[i]) = Len(t[i]) PROVE x[a] = y[a]
  <2>1. 0 \in C
    BY <1>9
  <2>2. \A k \in 1 .. a : k - 1 \in C => k \in C
    BY <1>11, <1>14
  <2> HIDE DEF C
  <2>3. \A k \in 0 .. a : k \in C
    BY <2>1, <2>2, Up
  <2> QED  BY <2>3 DEF C
<1>15. x[a] \in Nat /\ y[a] \in Nat /\ y[b] \in Nat
  <2>1. a \in 0 .. a /\ a \in 0 .. b /\ b \in 0 .. b
    OBVIOUS
  <2> QED  BY <1>9, <2>1
<1>16. x[a] <= y[b]
  BY <1>12, <1>13, <1>15
<1> QED  BY <1>10, <1>14, <1>16

\* Parts of two words each.
LEMMA FlatPairs ==
  ASSUME NEW n \in Nat, NEW s \in [1 .. n -> Words], \A i \in 1 .. n : Len(s[i]) = 2
  PROVE  FlattenSeq(s) \in Words /\ Len(FlattenSeq(s)) = n + n
<1>1. PICK g : Joins(s, n, Nat, g)
  BY JoinsExist DEF Words
<1>2. FlattenSeq(s) = g[n]
  BY <1>1, FlattenIs DEF Words
<1>3. g \in [0 .. n -> Words] /\ g[0] = <<>> /\ \A k \in 1 .. n : g[k] = g[k - 1] \o s[k]
  BY <1>1 DEF Joins, Words
<1> DEFINE A == {k \in Nat : k <= n => Len(g[k]) = k + k}
<1>4. 0 \in A
  BY <1>3
<1>5. ASSUME NEW k \in 1 .. n, k - 1 \in A PROVE k \in A
  <2>1. k - 1 \in 0 .. n /\ k - 1 <= n
    OBVIOUS
  <2>2. g[k - 1] \in Words /\ s[k] \in Words
    BY <1>3, <2>1
  <2>3. Len(g[k - 1] \o s[k]) = Len(g[k - 1]) + Len(s[k])
    BY <2>2, Joined
  <2>4. Len(g[k - 1]) = (k - 1) + (k - 1)
    BY <1>5, <2>1
  <2>5. Len(g[k]) = ((k - 1) + (k - 1)) + 2
    BY <1>3, <2>3, <2>4
  <2> QED  BY <2>5
<1> HIDE DEF A
<1>6. \A k \in 1 .. n : k - 1 \in A => k \in A
  BY <1>5
<1>7. \A k \in 0 .. n : k \in A
  BY <1>4, <1>6, Up
<1>8. n \in 0 .. n
  OBVIOUS
<1> QED  BY <1>2, <1>3, <1>7, <1>8 DEF A

-----------------------------------------------------------------------------
\* Openings nearly the same.

\* The codes of items.
Items(e, v) == [i \in DOMAIN v |-> e[v[i]]]

\* The encoded items, one by one.
LEMMA ItemsAre ==
  ASSUME NEW T, NEW e \in [T -> Words], NEW n \in Nat, NEW v \in [1 .. n -> T]
  PROVE  /\ Items(e, v) \in [1 .. n -> Words] /\ \A i \in 1 .. n : Items(e, v)[i] = e[v[i]]
         /\ Flat(e, v) = FlattenSeq(Items(e, v))
BY DEF Items, Flat

\* Of the same words, parts as long are the same.
LEMMA SameParts ==
  ASSUME NEW x \in Words, NEW x2 \in Words, NEW y \in Words, NEW y2 \in Words,
         Len(x) = Len(x2), x \o y = x2 \o y2
  PROVE  x = x2 /\ y = y2
<1> DEFINE n == Len(x)
           m == Len(y)
           m2 == Len(y2)
<1>1. n \in Nat /\ m \in Nat /\ m2 \in Nat /\ Len(x2) = n
  BY DEF Words
<1>2. m = m2
  <2>1. Len(x \o y) = Len(x) + Len(y) /\ Len(x2 \o y2) = Len(x2) + Len(y2)
    BY Joined
  <2>2. n + m = n + m2
    BY <1>1, <2>1
  <2>3. \A a, b, c \in Nat : a + b = a + c => b = c
    OBVIOUS
  <2> HIDE DEF n, m, m2
  <2> QED  BY <1>1, <2>2, <2>3
<1>3. /\ \A j \in 1 .. n : (x \o y)[j] = x[j] /\ (x2 \o y2)[j] = x2[j]
      /\ \A j \in 1 .. m : (x \o y)[n + j] = y[j] /\ (x2 \o y2)[n + j] = y2[j]
  <2>1. Len(x2) = n /\ Len(y2) = m /\ n \in Nat /\ m \in Nat
    BY <1>1, <1>2
  <2>2. \A j \in 1 .. n : (x \o y)[j] = x[j] /\ (x2 \o y2)[j] = x2[j]
    BY <2>1 DEF Words
  <2>3. \A j \in 1 .. m : (x \o y)[n + j] = y[j]
    <3>1. \A a, b \in Words : \A j \in 1 .. Len(b) : (a \o b)[Len(a) + j] = b[j]
      BY DEF Words
    <3> QED  BY <3>1
  <2>4. \A j \in 1 .. m : (x2 \o y2)[n + j] = y2[j]
    BY <2>1 DEF Words
  <2> QED  BY <2>2, <2>3, <2>4
<1>4. x \in [1 .. n -> Nat] /\ x2 \in [1 .. n -> Nat] /\ y \in [1 .. m -> Nat] /\ y2 \in [1 .. m -> Nat]
  BY <1>1, <1>2, SeqIsVector DEF Words
<1> DEFINE z == x \o y
<1>5. z = x2 \o y2
  OBVIOUS
<1>6. (\A j \in 1 .. n : z[j] = x[j] /\ z[j] = x2[j]) /\ (\A j \in 1 .. m : z[n + j] = y[j] /\ z[n + j] = y2[j])
  BY <1>3, <1>5
<1> HIDE DEF z, n, m, m2
<1>7. x = x2
  <2>1. x = [j \in 1 .. n |-> x[j]] /\ x2 = [j \in 1 .. n |-> x2[j]]
    BY <1>4
  <2>2. [j \in 1 .. n |-> x[j]] = [j \in 1 .. n |-> x2[j]]
    BY <1>6
  <2> QED  BY <2>1, <2>2, Zenon
<1>8. y = y2
  <2>1. y = [j \in 1 .. m |-> y[j]] /\ y2 = [j \in 1 .. m |-> y2[j]]
    BY <1>4
  <2>2. [j \in 1 .. m |-> y[j]] = [j \in 1 .. m |-> y2[j]]
    BY <1>6
  <2> QED  BY <2>1, <2>2, Zenon
<1> QED  BY <1>7, <1>8

\* Items are told by their codes.
LEMMA FlatInjective ==
  ASSUME NEW T, NEW p, NEW e, Inverts(p, e, T), NEW n \in Nat,
         NEW u \in [1 .. n -> T], NEW v \in [1 .. n -> T], Flat(e, u) = Flat(e, v)
  PROVE  u = v
<1> DEFINE w == Flat(e, u) \o <<>>
<1>1. Undoes(Repeated(p, n, T), e, [1 .. n -> T])
  BY RepeatedInverts
<1>2. <<>> \in Words
  BY DEF Words
<1>3. Flat(e, u) \in Words
  <2>1. e \in [T -> Words]
    BY DEF Inverts
  <2>2. Items(e, u) \in [1 .. n -> Words] /\ Flat(e, u) = FlattenSeq(Items(e, u))
    BY <2>1, ItemsAre
  <2> DEFINE s == Items(e, u)
  <2>3. s \in [1 .. n -> Seq(Nat)]
    BY <2>2 DEF Words
  <2> HIDE DEF s
  <2>4. FlattenSeq(s) \in Seq(Nat)
    BY <2>3, FlattenTyped
  <2> QED  BY <2>2, <2>4 DEF s, Words
<1>4. w \in Words
  BY <1>2, <1>3, Joined
<1>5. Begins(w, e, u, <<>>) /\ Begins(w, e, v, <<>>)
  BY DEF Begins
<1> HIDE DEF w
<1>6. Repeated(p, n, T)[w] = Done(u, <<>>) /\ Repeated(p, n, T)[w] = Done(v, <<>>)
  BY <1>1, <1>2, <1>4, <1>5 DEF Undoes
<1>7. Done(u, <<>>).value = u /\ Done(v, <<>>).value = v
  BY Parsed
<1> QED  BY <1>6, <1>7

\* The code of an opening.
LEMMA OpeningCodeIs ==
  ASSUME NEW o \in Openings
  PROVE  /\ o.leaf_index \in Nat /\ o.leaf_value \in Nat /\ o.proof \in Words
         /\ OpeningCode[o] \in Words
         /\ Begins(OpeningCode[o], Word1, <<o.leaf_index, o.leaf_value, Len(o.proof)>>, o.proof)
         /\ Len(OpeningCode[o]) = Len(o.proof) + 3
<1> DEFINE a == o.leaf_index
           b == o.leaf_value
           d == o.proof
           h == <<a, b, Len(d)>>
<1>1. a \in Nat /\ b \in Nat /\ d \in Words /\ Len(d) \in Nat
  <2>1. a \in Nat /\ b \in Elements /\ d \in Words
    BY DEF Openings
  <2>2. \A v \in Words : Len(v) \in Nat
    BY DEF Words
  <2> QED  BY <2>1, <2>2, ElementsAreNat
<1>2. OpeningCode[o] = <<a, b>> \o (<<Len(d)>> \o d)
  BY DEF OpeningCode, EncodeOpening, EncodeDigests
<1> HIDE DEF a, b, d
<1>3. <<a, b>> \in Words /\ <<Len(d)>> \in Words /\ Len(<<a, b>>) = 2 /\ Len(<<Len(d)>>) = 1
  BY <1>1 DEF Words
<1>4. (<<a, b>> \o <<Len(d)>>) \o d = <<a, b>> \o (<<Len(d)>> \o d)
  <2> DEFINE x == <<a, b>>
             y == <<Len(d)>>
  <2>1. x \in Words /\ y \in Words
    BY <1>3
  <2> HIDE DEF x, y
  <2>2. (x \o y) \o d = x \o (y \o d)
    BY <1>1, <2>1, Assoc, Zenon
  <2> QED  BY <2>2 DEF x, y
<1>5. h \in Words /\ h = <<a, b>> \o <<Len(d)>> /\ Len(h) = 3
  <2> DEFINE g == <<a, b>> \o <<Len(d)>>
  <2>1. h \in Seq(Nat) /\ Len(h) = 3 /\ h[1] = a /\ h[2] = b /\ h[3] = Len(d)
    BY <1>1
  <2>2. g \in Seq(Nat) /\ Len(g) = 3 /\ g[1] = a /\ g[2] = b /\ g[3] = Len(d)
    BY <1>1, <1>3 DEF Words
  <2> HIDE DEF g, h
  <2>3. h \in [1 .. 3 -> Nat] /\ g \in [1 .. 3 -> Nat]
    BY <2>1, <2>2, SeqIsVector
  <2>4. \A i \in 1 .. 3 : h[i] = g[i]
    BY <2>1, <2>2
  <2>5. h = g
    BY <2>3, <2>4
  <2> QED  BY <2>1, <2>5 DEF g, Words
<1>6. OpeningCode[o] = h \o d
  BY <1>2, <1>4, <1>5
<1> HIDE DEF h
<1>7. h \o d \in Words /\ Len(h \o d) = Len(h) + Len(d)
  BY <1>1, <1>5, Joined
<1>8. Flat(Word1, h) = h
  BY <1>5, FlatWords
<1>9. OpeningCode[o] \in Words /\ Len(OpeningCode[o]) = Len(d) + 3
  <2>1. \A k \in Nat : 3 + k = k + 3
    OBVIOUS
  <2>2. Len(h \o d) = 3 + Len(d)
    BY <1>5, <1>7
  <2> QED  BY <1>1, <1>6, <1>7, <2>1, <2>2
<1>10. Begins(OpeningCode[o], Word1, h, d)
  BY <1>6, <1>8 DEF Begins
<1> QED  BY <1>1, <1>9, <1>10 DEF a, b, d, h

\* Of two openings with paths of one length and nearly the same words, the
\* places are the same, or the values and paths.
LEMMA NearOpenings ==
  ASSUME NEW o \in Openings, NEW m \in Openings, Len(o.proof) = Len(m.proof),
         Near(OpeningCode[o], OpeningCode[m])
  PROVE  o.leaf_index = m.leaf_index \/ (o.leaf_value = m.leaf_value /\ o.proof = m.proof)
<1> DEFINE g == <<o.leaf_index, o.leaf_value, Len(o.proof)>>
           h == <<m.leaf_index, m.leaf_value, Len(m.proof)>>
           x == o.proof
           y == m.proof
<1>1. Begins(OpeningCode[o], Word1, g, x) /\ Begins(OpeningCode[m], Word1, h, y) /\ x \in Words /\ y \in Words
  BY OpeningCodeIs
<1>2. /\ g \in Words /\ h \in Words /\ Len(g) = 3 /\ Len(h) = 3
      /\ g[1] = o.leaf_index /\ g[2] = o.leaf_value /\ h[1] = m.leaf_index /\ h[2] = m.leaf_value
      /\ g[3] = h[3]
  <2>1. o.leaf_index \in Nat /\ o.leaf_value \in Nat /\ o.proof \in Words
    BY OpeningCodeIs
  <2>2. m.leaf_index \in Nat /\ m.leaf_value \in Nat /\ m.proof \in Words
    BY OpeningCodeIs
  <2>3. Len(o.proof) \in Nat /\ Len(m.proof) \in Nat
    BY <2>1, <2>2 DEF Words
  <2>4. g \in Words /\ h \in Words
    BY <2>1, <2>2, <2>3 DEF Words
  <2> QED  BY <2>4
<1> HIDE DEF g, h, x, y
<1>3. Flat(Word1, g) = g /\ Flat(Word1, h) = h
  BY <1>2, FlatWords
<1>4. Near(g \o x, h \o y)
  BY <1>1, <1>3 DEF Begins
<1>5. Near(g, h) /\ (g = h \/ x = y)
  BY <1>1, <1>2, <1>4, NearParts
<1>6. PICK i \in Nat : \A j \in 1 .. 3 : j # i => g[j] = h[j]
  BY <1>2, <1>5 DEF Near
<1>7. CASE g = h
  BY <1>2, <1>7
<1>8. CASE g # h
  <2>1. x = y
    BY <1>5, <1>8
  <2>2. g[1] = h[1] \/ g[2] = h[2]
    BY <1>6
  <2> QED  BY <1>2, <2>1, <2>2 DEF x, y
<1> QED  BY <1>7, <1>8

-----------------------------------------------------------------------------
\* Rounds nearly the same.

\* Rounds whose paths are as long.
SameShape(u, v) ==
  /\ Len(u.opening_x.proof) = Len(v.opening_x.proof)
  /\ Len(u.opening_neg_x.proof) = Len(v.opening_neg_x.proof)
  /\ Len(u.opening_folded.proof) = Len(v.opening_folded.proof)

\* The place of an opening, or what is there, is that of another.
Alike(o, m) == o.leaf_index = m.leaf_index \/ (o.leaf_value = m.leaf_value /\ o.proof = m.proof)

RoundsAlike(u, v) ==
  /\ Alike(u.opening_x, v.opening_x)
  /\ Alike(u.opening_neg_x, v.opening_neg_x)
  /\ Alike(u.opening_folded, v.opening_folded)

\* The words of a round, by its openings.
LEMMA RoundCodeIs ==
  ASSUME NEW u \in Rounds
  PROVE  LET a == OpeningCode[u.opening_x]
             b == OpeningCode[u.opening_neg_x]
             c == OpeningCode[u.opening_folded]
         IN /\ u.opening_x \in Openings /\ u.opening_neg_x \in Openings /\ u.opening_folded \in Openings
            /\ a \in Words /\ b \in Words /\ c \in Words /\ a \o b \in Words
            /\ RoundCode[u] = (a \o b) \o c /\ RoundCode[u] \in Words
            /\ Len(a \o b) = Len(a) + Len(b)
            /\ Len(RoundCode[u]) = (Len(a) + Len(b)) + Len(c)
<1> DEFINE a == OpeningCode[u.opening_x]
           b == OpeningCode[u.opening_neg_x]
           c == OpeningCode[u.opening_folded]
<1>1. u.opening_x \in Openings /\ u.opening_neg_x \in Openings /\ u.opening_folded \in Openings
  BY DEF Rounds
<1>2. a \in Words /\ b \in Words /\ c \in Words
  BY <1>1, OpeningCodeIs
<1>3. RoundCode[u] = (a \o b) \o c
  BY <1>1 DEF RoundCode, EncodeRound, OpeningCode
<1> HIDE DEF a, b, c
<1>4. a \o b \in Words /\ Len(a \o b) = Len(a) + Len(b)
  BY <1>2, Joined
<1> DEFINE d == a \o b
<1>5. d \in Words /\ RoundCode[u] = d \o c
  BY <1>3, <1>4
<1> HIDE DEF d
<1>6. d \o c \in Words /\ Len(d \o c) = Len(d) + Len(c)
  BY <1>2, <1>5, Joined
<1>7. Len(RoundCode[u]) = (Len(a) + Len(b)) + Len(c)
  BY <1>4, <1>5, <1>6 DEF d
<1> QED  BY <1>1, <1>2, <1>3, <1>4, <1>5, <1>6, <1>7 DEF a, b, c

\* Openings whose paths are as long take as many words.
LEMMA SameOpenings ==
  ASSUME NEW o \in Openings, NEW m \in Openings, Len(o.proof) = Len(m.proof)
  PROVE  Len(OpeningCode[o]) = Len(OpeningCode[m])
<1>1. Len(OpeningCode[o]) = Len(o.proof) + 3
  BY OpeningCodeIs
<1>2. Len(OpeningCode[m]) = Len(m.proof) + 3
  BY OpeningCodeIs
<1> QED  BY <1>1, <1>2

\* So do rounds.
LEMMA SameRounds ==
  ASSUME NEW u \in Rounds, NEW v \in Rounds, SameShape(u, v)
  PROVE  Len(RoundCode[u]) = Len(RoundCode[v])
<1>1. /\ u.opening_x \in Openings /\ u.opening_neg_x \in Openings /\ u.opening_folded \in Openings
      /\ v.opening_x \in Openings /\ v.opening_neg_x \in Openings /\ v.opening_folded \in Openings
  BY RoundCodeIs
<1>2. /\ Len(OpeningCode[u.opening_x]) = Len(OpeningCode[v.opening_x])
      /\ Len(OpeningCode[u.opening_neg_x]) = Len(OpeningCode[v.opening_neg_x])
      /\ Len(OpeningCode[u.opening_folded]) = Len(OpeningCode[v.opening_folded])
  BY <1>1, SameOpenings DEF SameShape
<1>3. Len(RoundCode[u]) = (Len(OpeningCode[u.opening_x]) + Len(OpeningCode[u.opening_neg_x]))
                            + Len(OpeningCode[u.opening_folded])
  BY RoundCodeIs
<1>4. Len(RoundCode[v]) = (Len(OpeningCode[v.opening_x]) + Len(OpeningCode[v.opening_neg_x]))
                            + Len(OpeningCode[v.opening_folded])
  BY RoundCodeIs
<1> QED  BY <1>2, <1>3, <1>4

\* Rounds whose words are nearly the same differ in one opening at most, and
\* there in one field.
LEMMA NearRounds ==
  ASSUME NEW u \in Rounds, NEW v \in Rounds, SameShape(u, v), Near(RoundCode[u], RoundCode[v])
  PROVE  RoundsAlike(u, v)
<1> DEFINE a == OpeningCode[u.opening_x]
           b == OpeningCode[u.opening_neg_x]
           c == OpeningCode[u.opening_folded]
           a2 == OpeningCode[v.opening_x]
           b2 == OpeningCode[v.opening_neg_x]
           c2 == OpeningCode[v.opening_folded]
           d == a \o b
           d2 == a2 \o b2
<1>1. /\ u.opening_x \in Openings /\ u.opening_neg_x \in Openings /\ u.opening_folded \in Openings
      /\ v.opening_x \in Openings /\ v.opening_neg_x \in Openings /\ v.opening_folded \in Openings
  BY RoundCodeIs
<1>2. Len(a) = Len(a2) /\ Len(b) = Len(b2) /\ Len(c) = Len(c2)
  BY <1>1, SameOpenings DEF SameShape
<1>3. /\ a \in Words /\ b \in Words /\ c \in Words /\ d \in Words
      /\ RoundCode[u] = d \o c /\ Len(d) = Len(a) + Len(b)
  BY RoundCodeIs
<1>4. /\ a2 \in Words /\ b2 \in Words /\ c2 \in Words /\ d2 \in Words
      /\ RoundCode[v] = d2 \o c2 /\ Len(d2) = Len(a2) + Len(b2)
  BY RoundCodeIs
<1>5. Near(d \o c, d2 \o c2)
  BY <1>3, <1>4
<1>6. Len(d) = Len(d2)
  BY <1>2, <1>3, <1>4
<1> HIDE DEF a, b, c, a2, b2, c2, d, d2
<1>7. Near(d, d2) /\ Near(c, c2)
  BY <1>3, <1>4, <1>5, <1>6, NearParts
<1>8. Near(a \o b, a2 \o b2)
  BY <1>7 DEF d, d2
<1>9. Near(a, a2) /\ Near(b, b2)
  BY <1>2, <1>3, <1>4, <1>8, NearParts
<1>10. Alike(u.opening_x, v.opening_x)
  BY <1>1, <1>9, NearOpenings DEF SameShape, Alike, a, a2
<1>11. Alike(u.opening_neg_x, v.opening_neg_x)
  BY <1>1, <1>9, NearOpenings DEF SameShape, Alike, b, b2
<1>12. Alike(u.opening_folded, v.opening_folded)
  BY <1>1, <1>7, NearOpenings DEF SameShape, Alike, c, c2
<1> QED  BY <1>10, <1>11, <1>12 DEF RoundsAlike

\* The code of a query.
LEMMA QueryCodeIs ==
  ASSUME NEW k \in Nat, NEW v \in Queries(k)
  PROVE  /\ v \in [1 .. k -> Rounds] /\ Len(v) = k
         /\ Items(RoundCode, v) \in [1 .. k -> Words]
         /\ \A r \in 1 .. k : Items(RoundCode, v)[r] = RoundCode[v[r]]
         /\ FlattenSeq(Items(RoundCode, v)) \in Words
         /\ <<k>> \in Words /\ Len(<<k>>) = 1
         /\ QueryCode(k)[v] = <<k>> \o FlattenSeq(Items(RoundCode, v))
         /\ QueryCode(k)[v] \in Words
         /\ Len(QueryCode(k)[v]) = 1 + Len(FlattenSeq(Items(RoundCode, v)))
<1>1. v \in Seq(Rounds) /\ Len(v) = k
  BY DEF Queries, Lists
<1>2. v \in [1 .. k -> Rounds]
  BY <1>1, SeqIsVector
<1>3. RoundCode \in [Rounds -> Words]
  BY RoundInverts DEF Inverts
<1>4. /\ Items(RoundCode, v) \in [1 .. k -> Words]
      /\ \A r \in 1 .. k : Items(RoundCode, v)[r] = RoundCode[v[r]]
      /\ Flat(RoundCode, v) = FlattenSeq(Items(RoundCode, v))
  BY <1>2, <1>3, ItemsAre
<1>5. FlattenSeq(Items(RoundCode, v)) \in Words
  <2> DEFINE s == Items(RoundCode, v)
  <2>1. s \in [1 .. k -> Seq(Nat)]
    BY <1>4 DEF Words
  <2> HIDE DEF s
  <2>2. FlattenSeq(s) \in Seq(Nat)
    BY <2>1, FlattenTyped
  <2> QED  BY <2>2 DEF s, Words
<1>6. <<k>> \in Words /\ Len(<<k>>) = 1
  BY DEF Words
<1>7. QueryCode(k)[v] = <<k>> \o FlattenSeq(Items(RoundCode, v))
  BY <1>1, <1>4 DEF QueryCode, ListCode, Queries
<1> DEFINE x == <<k>>
           y == FlattenSeq(Items(RoundCode, v))
<1>8. x \in Words /\ y \in Words /\ Len(x) = 1
  BY <1>5, <1>6
<1> HIDE DEF x, y
<1>9. x \o y \in Words /\ Len(x \o y) = Len(x) + Len(y)
  BY <1>8, Joined
<1>10. Len(x \o y) = 1 + Len(y)
  BY <1>8, <1>9
<1> QED  BY <1>1, <1>2, <1>4, <1>5, <1>6, <1>7, <1>9, <1>10 DEF x, y

\* Fewer rounds take fewer words.
LEMMA QueryShorter ==
  ASSUME NEW k \in Nat, NEW K \in Nat, k <= K, NEW a \in Queries(k), NEW b \in Queries(K),
         \A r \in 1 .. k : SameShape(a[r], b[r])
  PROVE  /\ Len(QueryCode(k)[a]) <= Len(QueryCode(K)[b])
         /\ k = K => Len(QueryCode(k)[a]) = Len(QueryCode(K)[b])
<1> DEFINE s == Items(RoundCode, a)
           t == Items(RoundCode, b)
<1>1. /\ a \in [1 .. k -> Rounds] /\ s \in [1 .. k -> Words] /\ \A r \in 1 .. k : s[r] = RoundCode[a[r]]
      /\ Len(QueryCode(k)[a]) = 1 + Len(FlattenSeq(s)) /\ FlattenSeq(s) \in Words
  BY QueryCodeIs
<1>2. /\ b \in [1 .. K -> Rounds] /\ t \in [1 .. K -> Words] /\ \A r \in 1 .. K : t[r] = RoundCode[b[r]]
      /\ Len(QueryCode(K)[b]) = 1 + Len(FlattenSeq(t)) /\ FlattenSeq(t) \in Words
  BY QueryCodeIs
<1>3. ASSUME NEW r \in 1 .. k PROVE Len(s[r]) = Len(t[r]) /\ Len(s[r]) <= Len(t[r])
  <2>1. r \in 1 .. K
    OBVIOUS
  <2>2. a[r] \in Rounds /\ b[r] \in Rounds /\ SameShape(a[r], b[r])
    BY <1>1, <1>2, <2>1
  <2>3. Len(s[r]) = Len(t[r])
    BY <1>1, <1>2, <2>1, <2>2, SameRounds
  <2>4. t[r] \in Words
    BY <1>2, <2>1
  <2>5. Len(t[r]) \in Nat
    BY <2>4 DEF Words
  <2> QED  BY <2>3, <2>5
<1> HIDE DEF s, t
<1>4. /\ Len(FlattenSeq(s)) <= Len(FlattenSeq(t))
      /\ k = K => Len(FlattenSeq(s)) = Len(FlattenSeq(t))
  BY <1>1, <1>2, <1>3, FlatShorter
<1>5. Len(FlattenSeq(s)) \in Nat /\ Len(FlattenSeq(t)) \in Nat
  BY <1>1, <1>2 DEF Words
<1> QED  BY <1>1, <1>2, <1>4, <1>5

\* So do the rounds of a query
LEMMA NearQueries ==
  ASSUME NEW k \in Nat, NEW a \in Queries(k), NEW b \in Queries(k),
         \A r \in 1 .. k : SameShape(a[r], b[r]), Near(QueryCode(k)[a], QueryCode(k)[b])
  PROVE  \A r \in 1 .. k : RoundsAlike(a[r], b[r])
<1> DEFINE s == Items(RoundCode, a)
           t == Items(RoundCode, b)
           x == <<k>>
<1>1. /\ a \in [1 .. k -> Rounds] /\ s \in [1 .. k -> Words] /\ \A r \in 1 .. k : s[r] = RoundCode[a[r]]
      /\ QueryCode(k)[a] = x \o FlattenSeq(s) /\ FlattenSeq(s) \in Words /\ x \in Words
  BY QueryCodeIs
<1>2. /\ b \in [1 .. k -> Rounds] /\ t \in [1 .. k -> Words] /\ \A r \in 1 .. k : t[r] = RoundCode[b[r]]
      /\ QueryCode(k)[b] = x \o FlattenSeq(t) /\ FlattenSeq(t) \in Words
  BY QueryCodeIs
<1>3. ASSUME NEW r \in 1 .. k PROVE Len(s[r]) = Len(t[r])
  <2>1. a[r] \in Rounds /\ b[r] \in Rounds /\ SameShape(a[r], b[r])
    BY <1>1, <1>2
  <2>2. Len(RoundCode[a[r]]) = Len(RoundCode[b[r]])
    BY <2>1, SameRounds
  <2>3. s[r] = RoundCode[a[r]] /\ t[r] = RoundCode[b[r]]
    BY <1>1, <1>2
  <2> HIDE DEF s, t
  <2> QED  BY <2>2, <2>3
<1> DEFINE y == FlattenSeq(s)
           z == FlattenSeq(t)
<1>4. y \in Words /\ z \in Words /\ Near(x \o y, x \o z)
  BY <1>1, <1>2
<1> HIDE DEF s, t, x
<1>5. Near(y, z)
  <2> HIDE DEF y, z
  <2> QED  BY <1>1, <1>4, NearParts
<1>6. \A r \in 1 .. k : Near(s[r], t[r])
  BY <1>1, <1>2, <1>3, <1>5, NearFlat
<1>7. ASSUME NEW r \in 1 .. k PROVE RoundsAlike(a[r], b[r])
  <2>1. Near(RoundCode[a[r]], RoundCode[b[r]])
    BY <1>1, <1>2, <1>6
  <2>2. a[r] \in Rounds /\ b[r] \in Rounds
    BY <1>1, <1>2
  <2> QED  BY <2>1, <2>2, NearRounds
<1> QED  BY <1>7

-----------------------------------------------------------------------------
\* Roots and queries nearly the same.

\* A root of one digest is two words.
LEMMA RootWordsAre ==
  ASSUME NEW n \in Nat, NEW v \in [1 .. n -> Caps], \A r \in 1 .. n : Len(v[r]) = 1
  PROVE  Flat(RootCode, v) \in Words /\ Len(Flat(RootCode, v)) = n + n
<1> DEFINE s == Items(RootCode, v)
<1>1. RootCode \in [Caps -> Words]
  BY RootInverts DEF Inverts
<1>2. s \in [1 .. n -> Words] /\ (\A i \in 1 .. n : s[i] = RootCode[v[i]]) /\ Flat(RootCode, v) = FlattenSeq(s)
  BY <1>1, ItemsAre
<1>3. ASSUME NEW i \in 1 .. n PROVE Len(s[i]) = 2
  <2>1. v[i] \in Caps /\ Len(v[i]) = 1
    OBVIOUS
  <2>2. v[i] \in Words
    BY <2>1 DEF Caps, Lists, Words
  <2>3. s[i] = <<1>> \o v[i]
    BY <1>2, <2>1 DEF RootCode, EncodeDigests
  <2>4. <<1>> \in Words /\ Len(<<1>>) = 1
    BY DEF Words
  <2>5. Len(<<1>> \o v[i]) = Len(<<1>>) + Len(v[i])
    BY <2>2, <2>4, Joined
  <2> QED  BY <2>1, <2>3, <2>4, <2>5
<1> HIDE DEF s
<1>4. FlattenSeq(s) \in Words /\ Len(FlattenSeq(s)) = n + n
  BY <1>2, <1>3, FlatPairs
<1> QED  BY <1>2, <1>4

\* The words of the queries of two proofs.
LEMMA QueriesShorter ==
  ASSUME NEW m \in Nat, NEW k \in Nat, NEW K \in Nat, k <= K,
         NEW a \in [1 .. m -> Queries(k)], NEW b \in [1 .. m -> Queries(K)],
         \A q \in 1 .. m : \A r \in 1 .. k : SameShape(a[q][r], b[q][r])
  PROVE  LET x == Flat(QueryCode(k), a)
             y == Flat(QueryCode(K), b)
         IN x \in Words /\ y \in Words /\ Len(x) <= Len(y) /\ (k = K => Len(x) = Len(y))
<1> DEFINE s == Items(QueryCode(k), a)
           t == Items(QueryCode(K), b)
<1>1. QueryCode(k) \in [Queries(k) -> Words] /\ QueryCode(K) \in [Queries(K) -> Words]
  BY QueryInverts DEF Inverts
<1>2. s \in [1 .. m -> Words] /\ (\A i \in 1 .. m : s[i] = QueryCode(k)[a[i]])
      /\ Flat(QueryCode(k), a) = FlattenSeq(s)
  <2> DEFINE T == Queries(k)
             e == QueryCode(k)
  <2>1. e \in [T -> Words] /\ a \in [1 .. m -> T]
    BY <1>1
  <2> HIDE DEF T, e
  <2>2. /\ Items(e, a) \in [1 .. m -> Words] /\ \A i \in 1 .. m : Items(e, a)[i] = e[a[i]]
        /\ Flat(e, a) = FlattenSeq(Items(e, a))
    BY <2>1, ItemsAre
  <2> QED  BY <2>2 DEF e
<1>3. t \in [1 .. m -> Words] /\ (\A i \in 1 .. m : t[i] = QueryCode(K)[b[i]])
      /\ Flat(QueryCode(K), b) = FlattenSeq(t)
  <2> DEFINE T == Queries(K)
             e == QueryCode(K)
  <2>1. e \in [T -> Words] /\ b \in [1 .. m -> T]
    BY <1>1
  <2> HIDE DEF T, e
  <2>2. /\ Items(e, b) \in [1 .. m -> Words] /\ \A i \in 1 .. m : Items(e, b)[i] = e[b[i]]
        /\ Flat(e, b) = FlattenSeq(Items(e, b))
    BY <2>1, ItemsAre
  <2> QED  BY <2>2 DEF e
<1> HIDE DEF s, t
<1>4. ASSUME NEW i \in 1 .. m PROVE Len(s[i]) <= Len(t[i]) /\ (k = K => Len(s[i]) = Len(t[i]))
  <2> DEFINE c == a[i]
             d == b[i]
  <2>1. c \in Queries(k) /\ d \in Queries(K) /\ \A r \in 1 .. k : SameShape(c[r], d[r])
    OBVIOUS
  <2> HIDE DEF c, d
  <2>2. /\ Len(QueryCode(k)[c]) <= Len(QueryCode(K)[d])
        /\ k = K => Len(QueryCode(k)[c]) = Len(QueryCode(K)[d])
    BY <2>1, QueryShorter
  <2> QED  BY <1>2, <1>3, <2>2 DEF c, d
<1>5. m <= m /\ \A i \in 1 .. m : Len(s[i]) <= Len(t[i])
  BY <1>4
<1>6. /\ FlattenSeq(s) \in Words /\ FlattenSeq(t) \in Words /\ Len(FlattenSeq(s)) <= Len(FlattenSeq(t))
      /\ (\A i \in 1 .. m : Len(s[i]) = Len(t[i])) => Len(FlattenSeq(s)) = Len(FlattenSeq(t))
  BY <1>2, <1>3, <1>5, FlatShorter
<1>7. k = K => Len(FlattenSeq(s)) = Len(FlattenSeq(t))
  BY <1>4, <1>6
<1> QED  BY <1>2, <1>3, <1>6, <1>7

\* and those of all queries.
LEMMA QueriesNear ==
  ASSUME NEW m \in Nat, NEW k \in Nat, NEW a \in [1 .. m -> Queries(k)], NEW b \in [1 .. m -> Queries(k)],
         \A q \in 1 .. m : \A r \in 1 .. k : SameShape(a[q][r], b[q][r]),
         Near(Flat(QueryCode(k), a), Flat(QueryCode(k), b))
  PROVE  \A q \in 1 .. m : \A r \in 1 .. k : RoundsAlike(a[q][r], b[q][r])
<1> DEFINE T == Queries(k)
           e == QueryCode(k)
           s == Items(e, a)
           t == Items(e, b)
<1>1. e \in [T -> Words]
  BY QueryInverts DEF Inverts
<1>2. a \in [1 .. m -> T] /\ b \in [1 .. m -> T]
  OBVIOUS
<1> HIDE DEF T, e
<1>3. s \in [1 .. m -> Words] /\ (\A i \in 1 .. m : s[i] = e[a[i]]) /\ Flat(e, a) = FlattenSeq(s)
  BY <1>1, <1>2, ItemsAre
<1>4. t \in [1 .. m -> Words] /\ (\A i \in 1 .. m : t[i] = e[b[i]]) /\ Flat(e, b) = FlattenSeq(t)
  BY <1>1, <1>2, ItemsAre
<1> HIDE DEF s, t
<1>5. ASSUME NEW i \in 1 .. m
      PROVE  a[i] \in Queries(k) /\ b[i] \in Queries(k) /\ \A r \in 1 .. k : SameShape(a[i][r], b[i][r])
  OBVIOUS
<1>6. \A i \in 1 .. m : Len(s[i]) = Len(t[i])
  <2> TAKE i \in 1 .. m
  <2> DEFINE c == a[i]
             d == b[i]
  <2>1. c \in Queries(k) /\ d \in Queries(k) /\ k <= k /\ \A r \in 1 .. k : SameShape(c[r], d[r])
    BY <1>5
  <2> HIDE DEF c, d
  <2>2. Len(QueryCode(k)[c]) = Len(QueryCode(k)[d])
    BY <2>1, QueryShorter
  <2> QED  BY <1>3, <1>4, <2>2 DEF c, d, e
<1>7. Near(FlattenSeq(s), FlattenSeq(t))
  BY <1>3, <1>4 DEF e
<1>8. \A i \in 1 .. m : Near(s[i], t[i])
  BY <1>3, <1>4, <1>6, <1>7, NearFlat
<1>9. ASSUME NEW i \in 1 .. m PROVE \A r \in 1 .. k : RoundsAlike(a[i][r], b[i][r])
  <2> DEFINE c == a[i]
             d == b[i]
  <2>1. c \in Queries(k) /\ d \in Queries(k) /\ \A r \in 1 .. k : SameShape(c[r], d[r])
    BY <1>5
  <2>2. Near(QueryCode(k)[c], QueryCode(k)[d])
    BY <1>3, <1>4, <1>8 DEF e
  <2> HIDE DEF c, d
  <2>3. \A r \in 1 .. k : RoundsAlike(c[r], d[r])
    BY <2>1, <2>2, NearQueries
  <2> QED  BY <2>3 DEF c, d
<1> QED  BY <1>9

-----------------------------------------------------------------------------
\* Proofs nearly the same.

\* How many words a proof takes.
LEMMA ChainedLength ==
  ASSUME NEW w, NEW f \in Nat, NEW n \in Nat, NEW m \in Nat, NEW r \in Words, NEW d \in Words, NEW e \in Words,
         Chained(w, f, n, r, m, d, e)
  PROVE  w \in Words /\ Len(w) = 5 + ((Len(r) + Len(d)) + Len(e))
<1> DEFINE M == <<FRI_PROOF_MAGIC>>
           V == <<FRI_PROOF_FORMAT_VERSION>>
           F == <<f>>
           N == <<n>>
           C == <<m>>
           z1 == d \o e
           z2 == C \o z1
           z3 == r \o z2
           z4 == N \o z3
           z5 == F \o z4
           z6 == V \o z5
           z7 == M \o z6
<1>1. /\ M \in Words /\ V \in Words /\ F \in Words /\ N \in Words /\ C \in Words
      /\ Len(M) = 1 /\ Len(V) = 1 /\ Len(F) = 1 /\ Len(N) = 1 /\ Len(C) = 1
  BY DEF Words, FRI_PROOF_MAGIC, FRI_PROOF_FORMAT_VERSION
<1>2. w = z7
  BY DEF Chained
<1> HIDE DEF M, V, F, N, C
<1>3. z1 \in Words /\ Len(z1) = Len(d) + Len(e)
  BY Joined
<1> HIDE DEF z1
<1>4. z2 \in Words /\ Len(z2) = Len(C) + Len(z1)
  BY <1>1, <1>3, Joined
<1> HIDE DEF z2
<1>5. z3 \in Words /\ Len(z3) = Len(r) + Len(z2)
  BY <1>4, Joined
<1> HIDE DEF z3
<1>6. z4 \in Words /\ Len(z4) = Len(N) + Len(z3)
  BY <1>1, <1>5, Joined
<1> HIDE DEF z4
<1>7. z5 \in Words /\ Len(z5) = Len(F) + Len(z4)
  BY <1>1, <1>6, Joined
<1> HIDE DEF z5
<1>8. z6 \in Words /\ Len(z6) = Len(V) + Len(z5)
  BY <1>1, <1>7, Joined
<1> HIDE DEF z6
<1>9. z7 \in Words /\ Len(z7) = Len(M) + Len(z6)
  BY <1>1, <1>8, Joined
<1> HIDE DEF z7
<1>10. Len(r) \in Nat /\ Len(d) \in Nat /\ Len(e) \in Nat
  BY DEF Words
<1>11. Len(z7) = 1 + (1 + (1 + (1 + (Len(r) + (1 + (Len(d) + Len(e)))))))
  BY <1>1, <1>3, <1>4, <1>5, <1>6, <1>7, <1>8, <1>9
<1>12. \A x, y, z \in Nat : 1 + (1 + (1 + (1 + (x + (1 + (y + z)))))) = 5 + ((x + y) + z)
  OBVIOUS
<1> QED  BY <1>2, <1>9, <1>10, <1>11, <1>12

SameJoin(x, y, x2, y2) == x \o y = x2 \o y2

\* Its parts are those of the same words.
LEMMA SameJoinIs ==
  ASSUME NEW x \in Words, NEW x2 \in Words, NEW y \in Words, NEW y2 \in Words,
         Len(x) = Len(x2), SameJoin(x, y, x2, y2)
  PROVE  x = x2 /\ y = y2
<1>1. x \o y = x2 \o y2
  BY DEF SameJoin
<1> QED  BY <1>1, SameParts

\* The parts of words that are nearly others.
LEMMA ChainedNear ==
  ASSUME NEW w, NEW f \in Nat, NEW n \in Nat, NEW m \in Nat, NEW r \in Words, NEW d \in Words, NEW e \in Words,
         Chained(w, f, n, r, m, d, e),
         NEW w2, NEW f2 \in Nat, NEW n2 \in Nat, NEW m2 \in Nat, NEW r2 \in Words, NEW d2 \in Words, NEW e2 \in Words,
         Chained(w2, f2, n2, r2, m2, d2, e2),
         Len(r) = Len(r2), Len(d) = Len(d2), Near(w, w2)
  PROVE  Near(e, e2) /\ (r = r2 \/ e = e2)
<1> DEFINE M == <<FRI_PROOF_MAGIC>>
           V == <<FRI_PROOF_FORMAT_VERSION>>
           F == <<f>>
           N == <<n>>
           C == <<m>>
           F2 == <<f2>>
           N2 == <<n2>>
           C2 == <<m2>>
           a1 == d \o e
           a2 == C \o a1
           a3 == r \o a2
           a4 == N \o a3
           a5 == F \o a4
           a6 == V \o a5
           b1 == d2 \o e2
           b2 == C2 \o b1
           b3 == r2 \o b2
           b4 == N2 \o b3
           b5 == F2 \o b4
           b6 == V \o b5
<1>1. /\ M \in Words /\ V \in Words /\ F \in Words /\ N \in Words /\ C \in Words
      /\ F2 \in Words /\ N2 \in Words /\ C2 \in Words
      /\ Len(F) = Len(F2) /\ Len(N) = Len(N2) /\ Len(C) = Len(C2)
  BY DEF Words, FRI_PROOF_MAGIC, FRI_PROOF_FORMAT_VERSION
<1>2. Near(M \o a6, M \o b6)
  BY DEF Chained
<1> HIDE DEF M, V, F, N, C, F2, N2, C2
<1>3. a1 \in Words /\ b1 \in Words
  BY Joined
<1> HIDE DEF a1, b1
<1>4. a2 \in Words /\ b2 \in Words
  BY <1>1, <1>3, Joined
<1> HIDE DEF a2, b2
<1>5. a3 \in Words /\ b3 \in Words
  BY <1>4, Joined
<1> HIDE DEF a3, b3
<1>6. a4 \in Words /\ b4 \in Words
  BY <1>1, <1>5, Joined
<1> HIDE DEF a4, b4
<1>7. a5 \in Words /\ b5 \in Words
  BY <1>1, <1>6, Joined
<1> HIDE DEF a5, b5
<1>8. a6 \in Words /\ b6 \in Words
  BY <1>1, <1>7, Joined
<1> HIDE DEF a6, b6
<1>9. Near(a6, b6)
  BY <1>1, <1>2, <1>8, NearParts
<1>10. Near(a5, b5)
  BY <1>1, <1>7, <1>9, NearParts DEF a6, b6
<1>11. Near(a4, b4)
  BY <1>1, <1>6, <1>10, NearParts DEF a5, b5
<1>12. Near(a3, b3)
  BY <1>1, <1>5, <1>11, NearParts DEF a4, b4
<1>13. Near(a2, b2) /\ (r = r2 \/ a2 = b2)
  BY <1>4, <1>12, NearParts DEF a3, b3
<1>14. Near(a1, b1)
  BY <1>1, <1>3, <1>13, NearParts DEF a2, b2
<1>15. Near(e, e2)
  BY <1>14, NearParts DEF a1, b1
<1>16. a2 = b2 => e = e2
  <2> SUFFICES ASSUME a2 = b2 PROVE e = e2
    OBVIOUS
  <2>1. SameJoin(C, a1, C2, b1)
    BY DEF a2, b2, SameJoin
  <2>2. a1 = b1
    BY <1>1, <1>3, <2>1, SameJoinIs
  <2>3. SameJoin(d, e, d2, e2)
    BY <2>2 DEF a1, b1, SameJoin
  <2> QED  BY <2>3, SameJoinIs
<1> QED  BY <1>13, <1>15, <1>16

\* Two proofs of which each root is one digest, with as many queries, and
\* paths as long in the rounds that both have.
Comparable(a, b) ==
  /\ \A r \in 1 .. Len(a.roots) : Len(a.roots[r]) = 1
  /\ \A r \in 1 .. Len(b.roots) : Len(b.roots[r]) = 1
  /\ Len(a.roots) <= Len(b.roots) /\ Len(a.query_indices) = Len(b.query_indices)
  /\ \A q \in 1 .. Len(a.query_indices) : \A r \in 1 .. (Len(a.roots) - 1) :
       SameShape(a.query_proofs[q][r], b.query_proofs[q][r])

NotLonger(x, y, k, K) == x \in Words /\ y \in Words /\ Len(x) <= Len(y) /\ (k = K => Len(x) = Len(y))

\* Fewer rounds take no more words.
LEMMA QueriesNotLonger ==
  ASSUME NEW m \in Nat, NEW k \in Nat, NEW K \in Nat, k <= K,
         NEW a \in [1 .. m -> Queries(k)], NEW b \in [1 .. m -> Queries(K)],
         \A q \in 1 .. m : \A r \in 1 .. k : SameShape(a[q][r], b[q][r])
  PROVE  NotLonger(Flat(QueryCode(k), a), Flat(QueryCode(K), b), k, K)
BY QueriesShorter DEF NotLonger

\* Of two proofs of one shape, the one with fewer roots takes fewer words by two
\* at least; if their words are nearly the same, the roots or the queries are.
LEMMA ProofsCompared ==
  ASSUME NEW a \in Proofs, NEW b \in Proofs, Comparable(a, b)
  PROVE  /\ Len(a.roots) < Len(b.roots) => Len(EncodeFriProof(a)) + 2 <= Len(EncodeFriProof(b))
         /\ Len(a.roots) = Len(b.roots) => Len(EncodeFriProof(a)) = Len(EncodeFriProof(b))
         /\ Len(a.roots) = Len(b.roots) /\ Near(EncodeFriProof(a), EncodeFriProof(b)) =>
              /\ a.roots = b.roots \/ a.query_proofs = b.query_proofs
              /\ \A q \in 1 .. Len(a.query_indices) : \A r \in 1 .. (Len(a.roots) - 1) :
                   RoundsAlike(a.query_proofs[q][r], b.query_proofs[q][r])
<1> DEFINE n == Len(a.roots)
           N == Len(b.roots)
           m == Len(a.query_indices)
           k == n - 1
           K == N - 1
           qa == a.query_proofs
           qb == b.query_proofs
           wa == EncodeFriProof(a)
           wb == EncodeFriProof(b)
           ra == RootWords(a)
           rb == RootWords(b)
           da == a.query_indices
           db == b.query_indices
           ea == QueryWords(a)
           eb == QueryWords(b)
<1>1. /\ n \in Nat /\ n >= 1 /\ m \in Nat /\ k \in Nat /\ a.roots \in [1 .. n -> Caps] /\ a.final_value \in Nat
      /\ da \in Words /\ qa \in [1 .. m -> Queries(k)]
  BY ProofIs
<1>2. Len(b.query_indices) = m /\ n <= N /\ m = Len(db)
  BY DEF Comparable
<1>3. /\ N \in Nat /\ N >= 1 /\ K \in Nat /\ b.roots \in [1 .. N -> Caps] /\ b.final_value \in Nat
      /\ db \in Words /\ qb \in [1 .. m -> Queries(K)]
  <2>1. /\ N \in Nat /\ N >= 1 /\ K \in Nat /\ b.roots \in [1 .. N -> Caps] /\ b.final_value \in Nat
        /\ db \in Words /\ qb \in [1 .. Len(b.query_indices) -> Queries(K)]
    BY ProofIs
  <2> QED  BY <1>2, <2>1
<1>4. k <= K /\ (n = N <=> k = K)
  BY <1>1, <1>2, <1>3
<1>5. ra \in Words /\ Len(ra) = n + n
  BY <1>1, RootWordsAre DEF RootWords, Comparable
<1>6. rb \in Words /\ Len(rb) = N + N
  BY <1>3, RootWordsAre DEF RootWords, Comparable
<1>7. \A q \in 1 .. m : \A r \in 1 .. k : SameShape(qa[q][r], qb[q][r])
  BY DEF Comparable
<1>8. ea = Flat(QueryCode(k), qa) /\ eb = Flat(QueryCode(K), qb)
  BY DEF QueryWords
<1>9. Chained(wa, a.final_value, n, ra, m, da, ea)
  BY EncodeIs
<1>10. Chained(wb, b.final_value, N, rb, m, db, eb)
  BY <1>2, EncodeIs
<1> HIDE DEF n, N, m, k, K, qa, qb, wa, wb, ra, rb, da, db, ea, eb
<1>11. ea \in Words /\ eb \in Words /\ Len(ea) <= Len(eb) /\ (k = K => Len(ea) = Len(eb))
  <2> DEFINE x == Flat(QueryCode(k), qa)
             y == Flat(QueryCode(K), qb)
  <2>1. NotLonger(x, y, k, K)
    BY <1>1, <1>3, <1>4, <1>7, QueriesNotLonger
  <2> HIDE DEF x, y
  <2>2. ea = x /\ eb = y
    BY <1>8 DEF x, y
  <2> QED  BY <2>1, <2>2 DEF NotLonger
<1>12. Len(wa) = 5 + ((Len(ra) + Len(da)) + Len(ea)) /\ Len(wb) = 5 + ((Len(rb) + Len(db)) + Len(eb))
  <2>1. Len(wa) = 5 + ((Len(ra) + Len(da)) + Len(ea))
    <3> DEFINE f == a.final_value
    <3>1. /\ f \in Nat /\ n \in Nat /\ m \in Nat /\ ra \in Words /\ da \in Words /\ ea \in Words
          /\ Chained(wa, f, n, ra, m, da, ea)
      BY <1>1, <1>5, <1>9, <1>11
    <3> HIDE DEF f
    <3> QED  BY <3>1, ChainedLength
  <2>2. Len(wb) = 5 + ((Len(rb) + Len(db)) + Len(eb))
    <3> DEFINE f == b.final_value
    <3>1. /\ f \in Nat /\ N \in Nat /\ m \in Nat /\ rb \in Words /\ db \in Words /\ eb \in Words
          /\ Chained(wb, f, N, rb, m, db, eb)
      BY <1>1, <1>3, <1>6, <1>10, <1>11
    <3> HIDE DEF f
    <3> QED  BY <3>1, ChainedLength
  <2> QED  BY <2>1, <2>2
<1>13. Len(da) = m /\ Len(db) = m
  BY <1>2 DEF m, da
<1>14. Len(ea) \in Nat /\ Len(eb) \in Nat
  BY <1>11 DEF Words
<1>15. Len(wa) = 5 + (((n + n) + m) + Len(ea)) /\ Len(wb) = 5 + (((N + N) + m) + Len(eb))
  BY <1>5, <1>6, <1>12, <1>13
<1>16. n < N => Len(wa) + 2 <= Len(wb)
  <2>1. \A x, y, i, j, c \in Nat : i <= j /\ x < y => (5 + (((x + x) + c) + i)) + 2 <= 5 + (((y + y) + c) + j)
    OBVIOUS
  <2> QED  BY <1>1, <1>3, <1>11, <1>14, <1>15, <2>1
<1>17. n = N => Len(wa) = Len(wb)
  BY <1>4, <1>11, <1>15
<1>18. ASSUME n = N, Near(wa, wb)
       PROVE  (a.roots = b.roots \/ qa = qb) /\ \A q \in 1 .. m : \A r \in 1 .. k : RoundsAlike(qa[q][r], qb[q][r])
  <2>1. k = K /\ Len(ra) = Len(rb) /\ Len(da) = Len(db)
    BY <1>4, <1>5, <1>6, <1>13, <1>18
  <2>2. Near(ea, eb) /\ (ra = rb \/ ea = eb)
    <3>1. Chained(wa, a.final_value, n, ra, m, da, ea) /\ Chained(wb, b.final_value, N, rb, m, db, eb)
      BY <1>9, <1>10
    <3>2. /\ a.final_value \in Nat /\ b.final_value \in Nat /\ n \in Nat /\ N \in Nat /\ m \in Nat
          /\ ra \in Words /\ rb \in Words /\ da \in Words /\ db \in Words /\ ea \in Words /\ eb \in Words
      BY <1>1, <1>3, <1>5, <1>6, <1>11
    <3> DEFINE f == a.final_value
               f2 == b.final_value
    <3>3. f \in Nat /\ f2 \in Nat /\ Chained(wa, f, n, ra, m, da, ea) /\ Chained(wb, f2, N, rb, m, db, eb)
      BY <3>1, <3>2
    <3> HIDE DEF f, f2
    <3> QED  BY <1>18, <2>1, <3>2, <3>3, ChainedNear
  <2>3. qb \in [1 .. m -> Queries(k)] /\ eb = Flat(QueryCode(k), qb)
    BY <1>3, <1>8, <2>1
  <2>4. \A q \in 1 .. m : \A r \in 1 .. k : RoundsAlike(qa[q][r], qb[q][r])
    BY <1>1, <1>7, <1>8, <2>2, <2>3, QueriesNear
  <2>5. ra = rb => a.roots = b.roots
    <3> DEFINE u == a.roots
               v == b.roots
    <3>1. u \in [1 .. n -> Caps] /\ v \in [1 .. n -> Caps] /\ ra = Flat(RootCode, u) /\ rb = Flat(RootCode, v)
      BY <1>1, <1>3, <1>18 DEF ra, rb, RootWords
    <3> HIDE DEF u, v
    <3>2. Inverts(RootParser, RootCode, Caps)
      BY RootInverts
    <3>3. ra = rb => u = v
      BY <1>1, <3>1, <3>2, FlatInjective
    <3> QED  BY <3>3 DEF u, v
  <2>6. ea = eb => qa = qb
    <3> DEFINE p == QueryParser(k)
               e == QueryCode(k)
               T == Queries(k)
    <3>1. Inverts(p, e, T)
      BY <1>1, QueryInverts
    <3>2. qa \in [1 .. m -> T] /\ qb \in [1 .. m -> T] /\ ea = Flat(e, qa) /\ eb = Flat(e, qb)
      BY <1>1, <1>8, <2>3
    <3> HIDE DEF p, e, T
    <3> QED  BY <1>1, <3>1, <3>2, FlatInjective
  <2> QED  BY <2>2, <2>4, <2>5, <2>6
<1> QED  BY <1>16, <1>17, <1>18 DEF n, N, m, k, qa, qb, wa, wb

-----------------------------------------------------------------------------
\* The proof of a run.

\* What a prover opens is an opening.
LEMMA OpeningIs ==
  ASSUME NEW H \in 0 .. 30, NEW leaves \in [1 .. Two(H) -> Elements], NEW index \in 0 .. (Two(H) - 1)
  PROVE  /\ Opening(leaves, index) \in Openings /\ Len(Opening(leaves, index).proof) = H
         /\ Opening(leaves, index).leaf_index = index
         /\ Opening(leaves, index).leaf_value = leaves[index + 1]
<1> DEFINE size == Two(H)
           path == [h \in 1 .. H |-> Digest(Sibling(leaves, index, h - 1))]
<1>1. size \in Nat /\ Log2(size) = H /\ H \in Nat
  <2>1. size \in Nat
    BY PowersOfTwo
  <2>2. Log2(size) = H
    BY LogOfPower
  <2> QED  BY <2>1, <2>2
<1>2. Len(leaves) = size
  BY <1>1, VectorIsSeq
<1>3. Opening(leaves, index) = [leaf_index |-> index, leaf_value |-> leaves[index + 1], proof |-> path]
  <2>1. Log2(Len(leaves)) = H
    BY <1>1, <1>2
  <2> QED  BY <2>1, Zenon DEF Opening
<1>4. \A h \in 1 .. H : Digest(Sibling(leaves, index, h - 1)) \in Nat
  BY SiblingIs
<1>5. path \in [1 .. H -> Nat]
  BY <1>4
<1>6. index \in Nat /\ leaves[index + 1] \in Elements
  <2>1. index \in 0 .. (size - 1) /\ leaves \in [1 .. size -> Elements]
    OBVIOUS
  <2> HIDE DEF size
  <2>2. index \in Nat /\ index + 1 \in 1 .. size
    BY <1>1, <2>1
  <2> QED  BY <2>1, <2>2
<1> HIDE DEF size, path
<1>7. path \in Words /\ Len(path) = H
  BY <1>1, <1>5, VectorIsSeq DEF Words
<1> QED  BY <1>3, <1>6, <1>7 DEF Openings

\* The lengths of the paths of a round.
PathsOf(v, a, b) ==
  Len(v.opening_x.proof) = a /\ Len(v.opening_neg_x.proof) = a /\ Len(v.opening_folded.proof) = b

\* What a prover opens for a query is accepted under its roots (fri_query.rs).
LEMMA RoundOpens ==
  ASSUME NEW K \in 0 .. 30, NEW r \in 1 .. K, NEW current \in Layer(K, r),
         NEW next \in Layer(K, r + 1), NEW index \in Nat
  PROVE  /\ QueryRound(current, next, index) \in Rounds
         /\ PathsOf(QueryRound(current, next, index), K - (r - 1), K - r)
         /\ VerifyOpening(RootOf(current), Two(K - (r - 1)), QueryRound(current, next, index).opening_x)
         /\ VerifyOpening(RootOf(next), Two(K - r), QueryRound(current, next, index).opening_folded)
<1> DEFINE half == Two(K - r)
           i == index % half
<1>1. /\ r \in 1 .. (K + 1) /\ r + 1 \in 1 .. (K + 1) /\ (r + 1) - 1 = r
      /\ K - r \in 0 .. 30 /\ K - (r - 1) \in 0 .. 30
  OBVIOUS
<1>2. half \in Nat /\ half > 0 /\ Two(K - (r - 1)) = half + half /\ Two(K - (r - 1)) \div 2 = half
  BY HalfPower
<1>3. Len(current) = Two(K - (r - 1))
  BY <1>1, LayerIsSeq
<1>4. current \in [1 .. Two(K - (r - 1)) -> Elements] /\ next \in [1 .. half -> Elements]
  BY <1>1 DEF Layer, Vectors
<1>5. i \in 0 .. (half - 1) /\ i \in 0 .. (Two(K - (r - 1)) - 1) /\ i + half \in 0 .. (Two(K - (r - 1)) - 1)
  <2>1. half \in Nat /\ half > 0 /\ index \in Int
    BY <1>2
  <2>2. i \in Nat /\ i < half
    BY <2>1, DivIs
  <2> HIDE DEF half, i
  <2> QED  BY <1>2, <2>2
<1>6. QueryRound(current, next, index)
        = [opening_x |-> Opening(current, i), opening_neg_x |-> Opening(current, i + half),
           opening_folded |-> Opening(next, i)]
  BY <1>2, <1>3 DEF QueryRound
<1> HIDE DEF i
<1>7. /\ Opening(current, i) \in Openings /\ Len(Opening(current, i).proof) = K - (r - 1)
      /\ Opening(current, i + half) \in Openings /\ Len(Opening(current, i + half).proof) = K - (r - 1)
      /\ Opening(next, i) \in Openings /\ Len(Opening(next, i).proof) = K - r
  BY <1>1, <1>4, <1>5, OpeningIs
<1>8. VerifyOpening(RootOf(current), Two(K - (r - 1)), Opening(current, i))
  BY <1>1, <1>4, <1>5, OpeningVerifies
<1>9. VerifyOpening(RootOf(next), Two(K - r), Opening(next, i))
  BY <1>1, <1>4, <1>5, OpeningVerifies
<1> QED  BY <1>6, <1>7, <1>8, <1>9 DEF Rounds, PathsOf

\* The proof FRI makes has the fields of one.
IsMade == proof = Made(proof.roots, proof.final_value, proof.query_indices, proof.query_proofs)

\* Such a proof, part by part.
LEMMA ProofOfRun ==
  ASSUME FriInv, phase = "proved", IsMade, NEW K \in 0 .. 30, FriTyped(K)
  PROVE  /\ proof \in Proofs /\ Len(proof.roots) = K + 1 /\ Len(betas) = K
         /\ nqueries \in Nat /\ Len(proof.query_indices) = nqueries
         /\ proof.query_indices = indices /\ DOMAIN indices = 1 .. nqueries /\ DOMAIN betas = 1 .. K
         /\ \A r \in 1 .. (K + 1) : layers[r] \in Layer(K, r) /\ proof.roots[r] = RootOf(layers[r])
         /\ \A q \in 1 .. nqueries : indices[q] \in Nat
         /\ \A q \in 1 .. nqueries : \A r \in 1 .. K :
              proof.query_proofs[q][r] = QueryRound(layers[r], layers[r + 1], indices[q])
<1>1. /\ layers \in Seq(Seq(Elements)) /\ Len(layers) = K + 1 /\ \A r \in 1 .. (K + 1) : layers[r] \in Layer(K, r)
      /\ betas \in Seq(Elements) /\ Len(betas) = K /\ indices \in Seq(0 .. (Two(K) - 1)) /\ K \in Nat
      /\ nqueries \in Nat /\ Len(indices) = nqueries
  BY DEF FriTyped
<1>2. DOMAIN layers = 1 .. (K + 1) /\ DOMAIN betas = 1 .. K
  BY <1>1
<1> DEFINE m == nqueries
           n == K + 1
           roots == proof.roots
           final == proof.final_value
           queries == proof.query_proofs
<1>3. DOMAIN indices = 1 .. m /\ indices \in [1 .. m -> Nat]
  <2> DEFINE S == 0 .. (Two(K) - 1)
  <2>1. indices \in Seq(S) /\ S \subseteq Nat
    BY <1>1, PowersOfTwo
  <2> HIDE DEF S
  <2>2. Len(indices) \in Nat /\ DOMAIN indices = 1 .. Len(indices) /\ indices \in [1 .. Len(indices) -> S]
    BY <2>1, SeqIsVector
  <2> QED  BY <1>1, <2>1, <2>2
<1>4. /\ roots = [r \in 1 .. n |-> RootOf(layers[r])]
      /\ proof.query_indices = indices
      /\ queries = [q \in 1 .. m |-> [r \in 1 .. K |-> QueryRound(layers[r], layers[r + 1], indices[q])]]
      /\ final \in Elements
  BY <1>2, <1>3 DEF FriInv, FriProof
<1>5. roots \in [1 .. n -> Caps]
  <2>1. ASSUME NEW r \in 1 .. n PROVE RootOf(layers[r]) \in Caps
    <3>1. layers[r] \in Layer(K, r) /\ r \in 1 .. (K + 1)
      BY <1>1
    <3>2. RootOf(layers[r]) \in Seq(Nat)
      BY <3>1, RootIsNat
    <3>3. Len(RootOf(layers[r])) = 1
      BY DEF RootOf
    <3>4. IsPowerOfTwo(1)
      <4>1. 0 \in 0 .. 30 /\ Two(0) = 1
        BY PowersOfTwo
      <4> QED  BY <4>1, LogOfPower
    <3> DEFINE v == RootOf(layers[r])
               A == {x \in Nat : IsPowerOfTwo(x)}
    <3>5. v \in Seq(Nat) /\ Len(v) = 1 /\ 1 \in A
      BY <3>2, <3>3, <3>4
    <3> HIDE DEF v, A
    <3>6. v \in Lists(Nat, A)
      BY <3>5 DEF Lists
    <3> QED  BY <3>6 DEF v, A, Caps
  <2> QED  BY <1>4, <2>1
<1>6. ASSUME NEW q \in 1 .. m, NEW r \in 1 .. K
      PROVE  QueryRound(layers[r], layers[r + 1], indices[q]) \in Rounds
  <2>1. r \in 1 .. (K + 1) /\ r + 1 \in 1 .. (K + 1)
    BY <1>1
  <2>2. layers[r] \in Layer(K, r) /\ layers[r + 1] \in Layer(K, r + 1) /\ indices[q] \in Nat
    BY <1>1, <1>3, <2>1
  <2> DEFINE a == layers[r]
             b == layers[r + 1]
             j == indices[q]
  <2>3. a \in Layer(K, r) /\ b \in Layer(K, r + 1) /\ j \in Nat
    BY <2>2
  <2> HIDE DEF a, b, j
  <2>4. QueryRound(a, b, j) \in Rounds
    BY <2>3, RoundOpens
  <2> QED  BY <2>4 DEF a, b, j
<1>7. queries \in [1 .. m -> Queries(K)]
  <2>1. ASSUME NEW q \in 1 .. m PROVE queries[q] \in Queries(K)
    <3>1. queries[q] = [r \in 1 .. K |-> QueryRound(layers[r], layers[r + 1], indices[q])]
      BY <1>4
    <3>2. queries[q] \in [1 .. K -> Rounds]
      BY <1>6, <3>1
    <3> DEFINE v == queries[q]
    <3> HIDE DEF v
    <3>3. v \in [1 .. K -> Rounds]
      BY <3>2 DEF v
    <3>4. v \in Seq(Rounds) /\ Len(v) = K
      BY <1>1, <3>3, VectorIsSeq
    <3> QED  BY <3>4 DEF v, Queries, Lists
  <2>2. DOMAIN queries = 1 .. m /\ queries = [q \in 1 .. m |-> queries[q]]
    <3>1. \E F : queries = [q \in 1 .. m |-> F[q]]
      <4> DEFINE F == [q \in 1 .. m |-> [r \in 1 .. K |-> QueryRound(layers[r], layers[r + 1], indices[q])]]
      <4>1. queries = [q \in 1 .. m |-> F[q]]
        BY <1>4
      <4> QED  BY <4>1
    <3> QED  BY <3>1
  <2> QED  BY <2>1, <2>2
<1>8. MadeOf(Made(roots, final, indices, queries), n, m, roots, final, indices, queries)
  <2>1. n \in Nat /\ n >= 1 /\ n - 1 = K /\ m \in Nat
    BY <1>1
  <2>2. queries \in [1 .. m -> Queries(n - 1)]
    BY <1>7, <2>1
  <2>3. final \in Elements
    BY <1>4
  <2> DEFINE x == indices
  <2>4. x \in [1 .. m -> Nat]
    BY <1>3
  <2> HIDE DEF n, m, roots, final, queries, x
  <2>5. MadeOf(Made(roots, final, x, queries), n, m, roots, final, x, queries)
    BY <1>5, <2>1, <2>2, <2>3, <2>4, MadeIs
  <2> QED  BY <2>5 DEF x
<1>9. proof = Made(roots, final, indices, queries)
  BY <1>4 DEF IsMade
<1>10. proof \in Proofs /\ Len(proof.roots) = K + 1 /\ Len(proof.query_indices) = nqueries
  BY <1>8, <1>9 DEF MadeOf
<1>11. \A r \in 1 .. (K + 1) : proof.roots[r] = RootOf(layers[r])
  BY <1>4
<1>12. \A q \in 1 .. nqueries : \A r \in 1 .. K :
         proof.query_proofs[q][r] = QueryRound(layers[r], layers[r + 1], indices[q])
  BY <1>4
<1> QED  BY <1>1, <1>2, <1>3, <1>4, <1>10, <1>11, <1>12

-----------------------------------------------------------------------------
\* A single damage.

\* What a single damage leaves.
LEMMA DamagedLen ==
  ASSUME NEW w \in Words, NEW d \in Damaged(w)
  PROVE  d \in Words /\ Len(d) + 1 >= Len(w) /\ (Len(d) = Len(w) => Near(d, w))
<1> DEFINE n == Len(w)
<1>1. n \in Nat /\ DOMAIN w = 1 .. n
  BY DEF Words
<1>0. \A x \in Nat : (x + 1) + 1 >= x /\ (1 + x) + 1 >= x /\ x + 1 # x /\ 1 + x # x
  OBVIOUS
<1>2. CASE d = w
  <2>1. Near(w, w)
    BY <1>1 DEF Near
  <2> QED  BY <1>1, <1>2, <2>1
<1>3. CASE d = Append(w, 0)
  <2>1. d \in Words /\ Len(d) = n + 1
    BY <1>3 DEF Words
  <2> HIDE DEF n
  <2>2. Len(d) + 1 >= n /\ Len(d) # n
    BY <1>0, <1>1, <2>1
  <2> QED  BY <2>1, <2>2 DEF n
<1>4. CASE d = <<0>> \o w
  <2>1. <<0>> \in Words /\ Len(<<0>>) = 1
    BY DEF Words
  <2>2. d \in Words /\ Len(d) = 1 + n
    BY <1>4, <2>1, Joined
  <2> HIDE DEF n
  <2>3. Len(d) + 1 >= n /\ Len(d) # n
    BY <1>0, <1>1, <2>2
  <2> QED  BY <2>2, <2>3 DEF n
<1>5. ASSUME NEW i \in 1 .. n, NEW x \in Nat, d = [w EXCEPT ![i] = x]
      PROVE  d \in Words /\ Len(d) = n /\ Near(d, w)
  <2>1. w \in [1 .. n -> Nat]
    BY <1>1, SeqIsVector DEF Words
  <2>2. d \in [1 .. n -> Nat] /\ \A j \in 1 .. n : j # i => d[j] = w[j]
    BY <1>5, <2>1
  <2>3. d \in Words /\ Len(d) = n
    BY <1>1, <2>2, VectorIsSeq DEF Words
  <2>4. i \in Nat
    OBVIOUS
  <2> QED  BY <2>2, <2>3, <2>4 DEF Near
<1>6. ASSUME NEW i \in 1 .. n, d = SubSeq(w, 1, i - 1) \o SubSeq(w, i + 1, n)
      PROVE  d \in Words /\ Len(d) + 1 = n
  <2> DEFINE a == SubSeq(w, 1, i - 1)
             b == SubSeq(w, i + 1, n)
  <2>1. a \in Words /\ Len(a) = i - 1
    BY <1>1 DEF Words
  <2>2. b \in Words /\ Len(b) = n - i
    <3>1. CASE i = n
      <4>1. b = <<>> /\ n - i = 0
        <5>1. b = SubSeq(w, n + 1, n)
          BY <3>1, Zenon
        <5> HIDE DEF b
        <5>2. SubSeq(w, n + 1, n) = <<>>
          <6> HIDE DEF n
          <6> QED  BY <1>1 DEF Words
        <5> QED  BY <1>1, <3>1, <5>1, <5>2
      <4> QED  BY <4>1 DEF Words
    <3>2. CASE i # n
      <4>1. i + 1 \in 1 .. n /\ (n - (i + 1)) + 1 = n - i /\ n - i \in Nat
        <5> HIDE DEF n
        <5> QED  BY <1>1, <3>2
      <4>2. b = [j \in 1 .. ((n - (i + 1)) + 1) |-> w[j + (i + 1) - 1]]
        BY <4>1 DEF Words
      <4>3. \A j \in 1 .. (n - i) : j + (i + 1) - 1 \in 1 .. n
        BY <1>1, <4>1
      <4>4. \A j \in 1 .. n : w[j] \in Nat
        BY <1>1 DEF Words
      <4>5. b \in [1 .. (n - i) -> Nat]
        <5>1. \A j \in 1 .. (n - i) : w[j + (i + 1) - 1] \in Nat
          BY <4>3, <4>4
        <5>2. b = [j \in 1 .. (n - i) |-> w[j + (i + 1) - 1]]
          BY <4>1, <4>2
        <5> HIDE DEF b
        <5> QED  BY <5>1, <5>2
      <4> DEFINE l == n - i
      <4>6. l \in Nat /\ b \in [1 .. l -> Nat]
        BY <4>1, <4>5
      <4> HIDE DEF b, l
      <4>7. b \in Seq(Nat) /\ Len(b) = l
        BY <4>6, VectorIsSeq
      <4> QED  BY <4>7 DEF Words, l
    <3> QED  BY <3>1, <3>2
  <2> HIDE DEF a, b
  <2>3. a \o b \in Words /\ Len(a \o b) = Len(a) + Len(b)
    BY <2>1, <2>2, Joined
  <2>4. d = a \o b
    BY <1>6 DEF a, b
  <2> HIDE DEF n
  <2> QED  BY <1>1, <2>1, <2>2, <2>3, <2>4
<1>7. \/ d = w \/ d = Append(w, 0) \/ d = <<0>> \o w
      \/ \E i \in 1 .. n : \E x \in {0, 1} : d = [w EXCEPT ![i] = x]
      \/ \E i \in 1 .. n : d = [w EXCEPT ![i] = w[i] + 1]
      \/ \E i \in 1 .. n : d = SubSeq(w, 1, i - 1) \o SubSeq(w, i + 1, n)
  <2> DEFINE A == {w, Append(w, 0), <<0>> \o w}
             B == {[w EXCEPT ![i] = x] : i \in DOMAIN w, x \in {0, 1}}
             C == {[w EXCEPT ![i] = @ + 1] : i \in DOMAIN w}
             D == {SubSeq(w, 1, i - 1) \o SubSeq(w, i + 1, Len(w)) : i \in DOMAIN w}
  <2>1. Damaged(w) = ((A \cup B) \cup C) \cup D
    BY DEF Damaged
  <2>2. d \in A \/ d \in B \/ d \in C \/ d \in D
    <3> HIDE DEF A, B, C, D
    <3> QED  BY <2>1, Zenon
  <2>3. d \in A => d = w \/ d = Append(w, 0) \/ d = <<0>> \o w
    BY Zenon
  <2>4. d \in B => \E i \in DOMAIN w : \E x \in {0, 1} : d = [w EXCEPT ![i] = x]
    <3> SUFFICES ASSUME d \in B PROVE \E i \in DOMAIN w : \E x \in {0, 1} : d = [w EXCEPT ![i] = x]
      OBVIOUS
    <3>1. PICK i \in DOMAIN w, x \in {0, 1} : d = [w EXCEPT ![i] = x]
      OBVIOUS
    <3> QED  BY <3>1
  <2>5. d \in C => \E i \in DOMAIN w : d = [w EXCEPT ![i] = w[i] + 1]
    BY Zenon
  <2>6. d \in D => \E i \in DOMAIN w : d = SubSeq(w, 1, i - 1) \o SubSeq(w, i + 1, n)
    BY Zenon
  <2> HIDE DEF A, B, C, D, n
  <2> QED  BY <1>1, <2>2, <2>3, <2>4, <2>5, <2>6, Zenon
<1>8. CASE \E i \in 1 .. n : \E x \in {0, 1} : d = [w EXCEPT ![i] = x]
  <2>1. PICK i \in 1 .. n, x \in {0, 1} : d = [w EXCEPT ![i] = x]
    BY <1>8
  <2>2. x \in Nat
    OBVIOUS
  <2>3. d \in Words /\ Len(d) = n /\ Near(d, w)
    BY <1>5, <2>1, <2>2
  <2> QED  BY <1>1, <2>3
<1>9. CASE \E i \in 1 .. n : d = [w EXCEPT ![i] = w[i] + 1]
  <2>1. PICK i \in 1 .. n : d = [w EXCEPT ![i] = w[i] + 1]
    BY <1>9
  <2>2. w[i] + 1 \in Nat
    BY <1>1 DEF Words
  <2>3. d \in Words /\ Len(d) = n /\ Near(d, w)
    BY <1>5, <2>1, <2>2
  <2> QED  BY <1>1, <2>3
<1>10. CASE \E i \in 1 .. n : d = SubSeq(w, 1, i - 1) \o SubSeq(w, i + 1, n)
  <2>1. d \in Words /\ Len(d) + 1 = n
    BY <1>6, <1>10
  <2>2. Len(d) \in Nat
    BY <2>1 DEF Words
  <2> QED  BY <1>1, <2>1, <2>2
<1> QED  BY <1>2, <1>3, <1>4, <1>7, <1>8, <1>9, <1>10

\* The lengths of the domains, and what is below one value.
LEMMA DomainLengths ==
  ASSUME NEW K \in 0 .. 30, NEW dom \in Points(Two(K)), NEW k \in Nat
  PROVE  /\ \A r \in 1 .. (k + 1) : r <= K + 1 => Len(Domains(dom, k)[r]) = Two(K - (r - 1))
         /\ k > K => Len(Domains(dom, k)[K + 2]) = 0
<1>1. dom \in Seq(Elements) /\ \A r \in 1 .. (K + 1) : Domains(dom, K)[r] \in Points(Two(K - (r - 1)))
  BY DomainIs
<1>2. \A r \in 1 .. (K + 1) : Len(Domains(dom, K)[r]) = Two(K - (r - 1))
  <2> TAKE r \in 1 .. (K + 1)
  <2> DEFINE n == Two(K - (r - 1))
             d == Domains(dom, K)[r]
  <2>1. K - (r - 1) \in 0 .. 30
    OBVIOUS
  <2>2. n \in Nat
    BY <2>1, PowersOfTwo
  <2>3. d \in Points(n)
    BY <1>1
  <2> HIDE DEF n, d
  <2>4. Len(d) = n
    BY <2>2, <2>3 DEF Points
  <2> QED  BY <2>4 DEF n, d
<1>3. K \in Nat
  OBVIOUS
<1>4. ASSUME NEW r \in 1 .. (k + 1), r <= K + 1 PROVE Domains(dom, k)[r] = Domains(dom, K)[r]
  <2>1. CASE k <= K
    BY <1>1, <1>3, <2>1, DomainsAgree
  <2>2. CASE K <= k
    <3>1. \A i \in 1 .. (K + 1) : Domains(dom, K)[i] = Domains(dom, k)[i]
      BY <1>1, <1>3, <2>2, DomainsAgree
    <3>2. r \in 1 .. (K + 1)
      BY <1>4
    <3> QED  BY <3>1, <3>2
  <2> QED  BY <1>3, <2>1, <2>2
<1>5. \A r \in 1 .. (k + 1) : r <= K + 1 => Len(Domains(dom, k)[r]) = Two(K - (r - 1))
  <2> SUFFICES ASSUME NEW r \in 1 .. (k + 1), r <= K + 1 PROVE Len(Domains(dom, k)[r]) = Two(K - (r - 1))
    OBVIOUS
  <2>1. r \in 1 .. (K + 1)
    OBVIOUS
  <2> QED  BY <1>2, <1>4, <2>1
<1>6. ASSUME k > K PROVE Len(Domains(dom, k)[K + 2]) = 0
  <2> DEFINE d == Domains(dom, k)[K + 1]
  <2>1. K + 1 \in 1 .. k /\ K + 1 \in 1 .. (k + 1) /\ K + 1 <= K + 1 /\ (K + 1) + 1 = K + 2 /\ K - ((K + 1) - 1) = 0
    BY <1>6
  <2>2. Len(d) = 1
    <3>1. Len(d) = Two(K - ((K + 1) - 1))
      BY <1>5, <2>1
    <3>2. Two(0) = 1
      BY PowersOfTwo
    <3> QED  BY <2>1, <3>1, <3>2
  <2>3. Domains(dom, k)[K + 2] = FoldDomain(d)
    <3>1. Domains(dom, k)[(K + 1) + 1] = FoldDomain(Domains(dom, k)[K + 1])
      BY <1>1, <2>1, DomainsAre
    <3> QED  BY <2>1, <3>1
  <2> HIDE DEF d
  <2>4. FoldDomain(d) = [i \in 1 .. 0 |-> Times(d[i], d[i])]
    BY <2>2 DEF FoldDomain
  <2>5. Len(FoldDomain(d)) = 0
    <3> DEFINE V == {Times(d[i], d[i]) : i \in 1 .. 0}
    <3>1. FoldDomain(d) \in [1 .. 0 -> V] /\ 0 \in Nat
      BY <2>4
    <3> HIDE DEF V
    <3> QED  BY <3>1, VectorIsSeq
  <2> QED  BY <2>3, <2>5
<1> QED  BY <1>5, <1>6

-----------------------------------------------------------------------------
\* An accepted proof.

\* What a verifier that accepts has found of the openings of a round.
OpensUnder(pf, r, a, b, v) ==
  /\ VerifyOpening(pf.roots[r], a, v.opening_x)
  /\ VerifyOpening(pf.roots[r], a, v.opening_neg_x)
  /\ VerifyOpening(pf.roots[r + 1], b, v.opening_folded)

AcceptedAs(pf, k, draws) ==
  /\ Len(pf.query_indices) = nqueries
  /\ \A q \in 1 .. nqueries :
       /\ pf.query_indices[q] = draws[k + q] % Len(domain)
       /\ pf.query_proofs[q][k].opening_folded.leaf_value = pf.final_value
       /\ \A r \in 1 .. k :
            OpensUnder(pf, r, Len(Domains(domain, k)[r]), Len(Domains(domain, k)[r + 1]), pf.query_proofs[q][r])

\* That is what an accepting fri_verify has found.
LEMMA VerifyIs ==
  ASSUME NEW pf, NEW k, k = Len(pf.roots) - 1, NEW draws, FriVerify(domain, pf, nqueries, draws)
  PROVE  AcceptedAs(pf, k, draws)
BY Zenon DEF FriVerify, AcceptedAs, OpensUnder, VerifyQueryRound

\* No more rounds than the domain has, paths as long as its trees are high,
\* and roots of one digest each.
LEMMA AcceptedShape ==
  ASSUME NEW K \in 0 .. 30, domain \in Points(Two(K)), nqueries \in Nat, nqueries # 0,
         NEW pf \in Proofs, NEW k \in Nat, k = Len(pf.roots) - 1, k > 0, NEW draws, AcceptedAs(pf, k, draws)
  PROVE  /\ k <= K
         /\ \A r \in 1 .. (k + 1) : Len(pf.roots[r]) = 1
         /\ \A q \in 1 .. nqueries : \A r \in 1 .. k :
              /\ pf.query_proofs[q][r] \in Rounds
              /\ PathsOf(pf.query_proofs[q][r], K - (r - 1), K - r)
              /\ OpensUnder(pf, r, Two(K - (r - 1)), Two(K - r), pf.query_proofs[q][r])
<1> DEFINE m == nqueries
           doms == Domains(domain, k)
           qs == pf.query_proofs
<1>1. /\ Len(pf.roots) = k + 1 /\ qs \in [1 .. Len(pf.query_indices) -> Queries(Len(pf.roots) - 1)]
  BY ProofIs
<1>2. qs \in [1 .. m -> Queries(k)]
  <2>1. Len(pf.query_indices) = m
    BY DEF AcceptedAs
  <2> QED  BY <1>1, <2>1
<1>3. ASSUME NEW q \in 1 .. m, NEW r \in 1 .. k
      PROVE  /\ qs[q][r] \in Rounds
             /\ qs[q][r].opening_x \in Openings /\ qs[q][r].opening_neg_x \in Openings
             /\ qs[q][r].opening_folded \in Openings
             /\ OpensUnder(pf, r, Len(doms[r]), Len(doms[r + 1]), qs[q][r])
  <2> DEFINE v == qs[q]
  <2>1. v \in Queries(k)
    BY <1>2
  <2> HIDE DEF v
  <2>2. v \in [1 .. k -> Rounds]
    BY <2>1, QueryCodeIs
  <2>3. v[r] \in Rounds
    BY <2>2
  <2>4. v[r].opening_x \in Openings /\ v[r].opening_neg_x \in Openings /\ v[r].opening_folded \in Openings
    BY <2>3, RoundCodeIs
  <2>5. OpensUnder(pf, r, Len(doms[r]), Len(doms[r + 1]), qs[q][r])
    BY DEF AcceptedAs
  <2> QED  BY <2>3, <2>4, <2>5 DEF v
<1>4. /\ \A r \in 1 .. (k + 1) : r <= K + 1 => Len(doms[r]) = Two(K - (r - 1))
      /\ k > K => Len(doms[K + 2]) = 0
  BY DomainLengths
<1>5. 1 \in 1 .. m
  OBVIOUS
<1> HIDE DEF doms, m, qs
<1>6. k <= K
  <2> SUFFICES ASSUME k > K PROVE FALSE
    OBVIOUS
  <2>1. K + 1 \in 1 .. k /\ (K + 1) + 1 = K + 2
    OBVIOUS
  <2> DEFINE o == qs[1][K + 1].opening_folded
  <2>2. o \in Openings /\ OpensUnder(pf, K + 1, Len(doms[K + 1]), Len(doms[(K + 1) + 1]), qs[1][K + 1])
    BY <1>3, <1>5, <2>1
  <2>3. VerifyOpening(pf.roots[(K + 1) + 1], Len(doms[(K + 1) + 1]), o)
    <3> DEFINE v == qs[1][K + 1]
               R == K + 1
               a == Len(doms[R])
               b == Len(doms[R + 1])
    <3>1. OpensUnder(pf, R, a, b, v)
      BY <2>2
    <3> HIDE DEF v, R, a, b
    <3>2. VerifyOpening(pf.roots[R + 1], b, v.opening_folded)
      BY <3>1 DEF OpensUnder
    <3> QED  BY <3>2, Zenon DEF v, R, b
  <2>4. o.leaf_index < Len(doms[(K + 1) + 1])
    BY <2>3 DEF VerifyOpening
  <2>5. o.leaf_index \in Nat
    BY <2>2 DEF Openings
  <2> HIDE DEF o
  <2> QED  BY <1>4, <2>1, <2>4, <2>5
<1>7. ASSUME NEW q \in 1 .. m, NEW r \in 1 .. k
      PROVE  /\ OpensUnder(pf, r, Two(K - (r - 1)), Two(K - r), qs[q][r])
             /\ PathsOf(qs[q][r], K - (r - 1), K - r)
             /\ Len(pf.roots[r]) = 1 /\ Len(pf.roots[r + 1]) = 1
  <2>1. r \in 1 .. (k + 1) /\ r + 1 \in 1 .. (k + 1) /\ r <= K + 1 /\ r + 1 <= K + 1 /\ K - ((r + 1) - 1) = K - r
        /\ K - (r - 1) \in 0 .. 30 /\ K - r \in 0 .. 30
    BY <1>6
  <2>2. Len(doms[r]) = Two(K - (r - 1)) /\ Len(doms[r + 1]) = Two(K - r)
    <3>1. Len(doms[r + 1]) = Two(K - ((r + 1) - 1))
      BY <1>4, <2>1
    <3> QED  BY <1>4, <2>1, <3>1
  <2> DEFINE v == qs[q][r]
             x == v.opening_x
             n == v.opening_neg_x
             f == v.opening_folded
             c == pf.roots[r]
             d == pf.roots[r + 1]
  <2>3. OpensUnder(pf, r, Two(K - (r - 1)), Two(K - r), v)
    BY <1>3, <2>2
  <2>4. x \in Openings /\ n \in Openings /\ f \in Openings
    BY <1>3
  <2>5. /\ VerifyOpening(c, Two(K - (r - 1)), x) /\ VerifyOpening(c, Two(K - (r - 1)), n)
        /\ VerifyOpening(d, Two(K - r), f)
    BY <2>3 DEF OpensUnder
  <2> DEFINE H == K - (r - 1)
             G == K - r
  <2>6. H \in 0 .. 30 /\ G \in 0 .. 30
    BY <2>1
  <2> HIDE DEF v, x, n, f, c, d, H, G
  <2>7. ASSUME NEW h \in 0 .. 30, NEW o \in Openings, NEW root, VerifyOpening(root, Two(h), o)
        PROVE  Len(o.proof) = h /\ Len(root) = 1
    <3>1. VerifyOpening(root, Two(h), o) =>
              /\ o.leaf_index \in 0 .. (Two(h) - 1) /\ Len(o.proof) = h
              /\ \E u : Climbs(o, h, u) /\ root = <<u[h]>>
      BY AcceptedClimbs
    <3>2. PICK u : root = <<u[h]>>
      BY <2>7, <3>1
    <3>3. Len(root) = 1
      BY <3>2
    <3> QED  BY <2>7, <3>1, <3>3
  <2>8. /\ VerifyOpening(c, Two(H), x) /\ VerifyOpening(c, Two(H), n) /\ VerifyOpening(d, Two(G), f)
    BY <2>5 DEF H, G
  <2>9. Len(x.proof) = H /\ Len(n.proof) = H /\ Len(f.proof) = G /\ Len(c) = 1 /\ Len(d) = 1
    BY <2>4, <2>6, <2>7, <2>8
  <2>10. PathsOf(v, K - (r - 1), K - r)
    BY <2>9 DEF PathsOf, x, n, f, H, G
  <2> QED  BY <2>3, <2>9, <2>10 DEF v, c, d
<1>8. ASSUME NEW r \in 1 .. (k + 1) PROVE Len(pf.roots[r]) = 1
  <2>1. CASE r <= k
    <3>1. r \in 1 .. k
      BY <2>1
    <3> QED  BY <1>5, <1>7, <3>1
  <2>2. CASE r = k + 1
    <3>1. k \in 1 .. k
      OBVIOUS
    <3> QED  BY <1>5, <1>7, <2>2, <3>1
  <2> QED  BY <2>1, <2>2
<1>9. \A q \in 1 .. m : \A r \in 1 .. k :
        /\ qs[q][r] \in Rounds
        /\ PathsOf(qs[q][r], K - (r - 1), K - r)
        /\ OpensUnder(pf, r, Two(K - (r - 1)), Two(K - r), qs[q][r])
  BY <1>3, <1>7
<1> QED  BY <1>6, <1>8, <1>9 DEF m, qs

-----------------------------------------------------------------------------
\* What an opening shows.

\* What DamageIsSeen says of an accepted proof.
OpensLayer(o, mine, layer) ==
  /\ o.leaf_value = mine.leaf_value /\ o.proof = mine.proof
  /\ o.leaf_index + 1 \in DOMAIN layer /\ layer[o.leaf_index + 1] = o.leaf_value

SeenAs(pf) ==
  /\ pf.roots = proof.roots /\ pf.final_value = proof.final_value
  /\ pf.query_indices = proof.query_indices
  /\ \A q \in DOMAIN indices, r \in DOMAIN betas :
       /\ OpensLayer(pf.query_proofs[q][r].opening_x, proof.query_proofs[q][r].opening_x, layers[r])
       /\ OpensLayer(pf.query_proofs[q][r].opening_neg_x, proof.query_proofs[q][r].opening_neg_x, layers[r])
       /\ OpensLayer(pf.query_proofs[q][r].opening_folded, proof.query_proofs[q][r].opening_folded, layers[r + 1])

\* It is.
LEMMA SeenIs == (reread.outcome = "accepted" => SeenAs(reread.proof)) => DamageIsSeen
BY Zenon DEF DamageIsSeen, SeenAs, OpensLayer

\* An accepted opening that is nearly mine is of my leaf.
LEMMA OpensMine ==
  ASSUME NEW H \in 0 .. 30, NEW leaves \in [1 .. Two(H) -> Elements], NEW index \in 0 .. (Two(H) - 1),
         NEW o \in Openings, VerifyOpening(RootOf(leaves), Two(H), o), Alike(o, Opening(leaves, index))
  PROVE  OpensLayer(o, Opening(leaves, index), leaves)
<1> DEFINE n == Two(H)
           mine == Opening(leaves, index)
<1>1. o.leaf_index \in 0 .. (n - 1) /\ o.leaf_value = leaves[o.leaf_index + 1]
      /\ o.proof = Opening(leaves, o.leaf_index).proof
  BY OpeningSound
<1>2. mine.leaf_index = index /\ mine.leaf_value = leaves[index + 1]
  BY OpeningIs
<1>3. n \in Nat
  BY PowersOfTwo
<1>4. o.leaf_index + 1 \in DOMAIN leaves
  <2>1. DOMAIN leaves = 1 .. n
    OBVIOUS
  <2> HIDE DEF n
  <2> QED  BY <1>1, <1>3, <2>1
<1>5. CASE o.leaf_index = mine.leaf_index
  <2>1. o.leaf_index = index
    BY <1>2, <1>5
  <2>2. o.leaf_value = mine.leaf_value /\ o.proof = mine.proof
    BY <1>1, <1>2, <2>1
  <2> QED  BY <1>1, <1>4, <2>2 DEF OpensLayer
<1>6. CASE o.leaf_value = mine.leaf_value /\ o.proof = mine.proof
  BY <1>1, <1>4, <1>6 DEF OpensLayer
<1> QED  BY <1>5, <1>6 DEF Alike

\* The queried round of mine, and one that is nearly it and accepted under
\* my roots.
LEMMA RoundSeen ==
  ASSUME NEW K \in 0 .. 30, NEW r \in 1 .. K, NEW current \in Layer(K, r),
         NEW next \in Layer(K, r + 1), NEW index \in Nat, NEW v \in Rounds,
         VerifyOpening(RootOf(current), Two(K - (r - 1)), v.opening_x),
         VerifyOpening(RootOf(current), Two(K - (r - 1)), v.opening_neg_x),
         VerifyOpening(RootOf(next), Two(K - r), v.opening_folded),
         RoundsAlike(v, QueryRound(current, next, index))
  PROVE  /\ OpensLayer(v.opening_x, QueryRound(current, next, index).opening_x, current)
         /\ OpensLayer(v.opening_neg_x, QueryRound(current, next, index).opening_neg_x, current)
         /\ OpensLayer(v.opening_folded, QueryRound(current, next, index).opening_folded, next)
<1> DEFINE half == Two(K - r)
           i == index % half
           q == QueryRound(current, next, index)
<1>1. /\ r \in 1 .. (K + 1) /\ r + 1 \in 1 .. (K + 1) /\ (r + 1) - 1 = r
      /\ K - r \in 0 .. 30 /\ K - (r - 1) \in 0 .. 30
  OBVIOUS
<1>2. half \in Nat /\ half > 0 /\ Two(K - (r - 1)) = half + half /\ Two(K - (r - 1)) \div 2 = half
  BY HalfPower
<1>3. Len(current) = Two(K - (r - 1))
  BY <1>1, LayerIsSeq
<1>4. current \in [1 .. Two(K - (r - 1)) -> Elements] /\ next \in [1 .. half -> Elements]
  BY <1>1 DEF Layer, Vectors
<1>5. i \in 0 .. (half - 1) /\ i \in 0 .. (Two(K - (r - 1)) - 1) /\ i + half \in 0 .. (Two(K - (r - 1)) - 1)
  <2>1. half \in Nat /\ half > 0 /\ index \in Int
    BY <1>2
  <2>2. i \in Nat /\ i < half
    BY <2>1, DivIs
  <2> HIDE DEF half, i
  <2> QED  BY <1>2, <2>2
<1>6. q.opening_x = Opening(current, i) /\ q.opening_neg_x = Opening(current, i + half)
      /\ q.opening_folded = Opening(next, i)
  BY <1>2, <1>3 DEF QueryRound
<1>7. /\ Alike(v.opening_x, Opening(current, i)) /\ Alike(v.opening_neg_x, Opening(current, i + half))
      /\ Alike(v.opening_folded, Opening(next, i))
  BY <1>6 DEF RoundsAlike
<1>8. v.opening_x \in Openings /\ v.opening_neg_x \in Openings /\ v.opening_folded \in Openings
  BY RoundCodeIs
<1> DEFINE H == K - (r - 1)
           G == K - r
           x == v.opening_x
           n == v.opening_neg_x
           f == v.opening_folded
           j == i + half
<1>9. /\ H \in 0 .. 30 /\ current \in [1 .. Two(H) -> Elements] /\ i \in 0 .. (Two(H) - 1) /\ j \in 0 .. (Two(H) - 1)
      /\ x \in Openings /\ VerifyOpening(RootOf(current), Two(H), x) /\ Alike(x, Opening(current, i))
      /\ n \in Openings /\ VerifyOpening(RootOf(current), Two(H), n) /\ Alike(n, Opening(current, j))
      /\ G \in 0 .. 30 /\ next \in [1 .. Two(G) -> Elements] /\ i \in 0 .. (Two(G) - 1)
      /\ f \in Openings /\ VerifyOpening(RootOf(next), Two(G), f) /\ Alike(f, Opening(next, i))
  BY <1>1, <1>4, <1>5, <1>7, <1>8
<1> HIDE DEF H, G, x, n, f, i, j, q, half
<1>10. OpensLayer(x, Opening(current, i), current)
  BY <1>9, OpensMine
<1>11. OpensLayer(n, Opening(current, j), current)
  BY <1>9, OpensMine
<1>12. OpensLayer(f, Opening(next, i), next)
  BY <1>9, OpensMine
<1> QED  BY <1>6, <1>10, <1>11, <1>12 DEF x, n, f, j, q

-----------------------------------------------------------------------------
\* An accepted proof that was nearly mine.

\* A proof is written in words.
LEMMA EncodedIsWords ==
  ASSUME NEW x \in Proofs
  PROVE  EncodeFriProof(x) \in Words /\ EncodeFriProof(x) # <<>>
<1> DEFINE n == Len(x.roots)
           c == Len(x.query_indices)
           f == x.final_value
           places == x.query_indices
           w == EncodeFriProof(x)
           a == RootWords(x)
           b == QueryWords(x)
<1>1. /\ n \in Nat /\ c \in Nat /\ n - 1 \in Nat /\ x.roots \in [1 .. n -> Caps] /\ f \in Nat
      /\ places \in Words /\ x.query_proofs \in [1 .. c -> Queries(n - 1)]
  BY ProofIs
<1>2. a \in Words /\ b \in Words
  BY <1>1, RootWordsTyped, QueryWordsTyped DEF RootWords, QueryWords
<1>3. Chained(w, f, n, a, c, places, b)
  BY EncodeIs
<1> HIDE DEF n, c, f, places, w, a, b
<1>4. w \in Words /\ Len(w) = 5 + ((Len(a) + Len(places)) + Len(b))
  BY <1>1, <1>2, <1>3, ChainedLength
<1>5. \A v \in Words : Len(v) \in Nat
  BY DEF Words
<1>6. Len(a) \in Nat /\ Len(b) \in Nat /\ Len(places) \in Nat
  BY <1>1, <1>2, <1>5
<1>7. Len(w) # 0
  BY <1>4, <1>6
<1>8. w # <<>>
  BY <1>7
<1> QED  BY <1>4, <1>8 DEF w

\* A proof that is accepted and was nearly mine is mine.
LEMMA AcceptedIsMine ==
  ASSUME FriInv, phase = "proved", IsMade, ~faulty,
         NEW pf \in Proofs, Len(pf.roots) >= 2, Len(pf.query_indices) # 0,
         NEW draws \in Draws(pf.roots, nqueries), FriVerify(domain, pf, nqueries, draws),
         Len(EncodeFriProof(pf)) + 1 >= Len(EncodeFriProof(proof)),
         Len(EncodeFriProof(pf)) = Len(EncodeFriProof(proof))
           => Near(EncodeFriProof(pf), EncodeFriProof(proof))
  PROVE  SeenAs(pf)
<1>1. PICK K \in 0 .. 30, t \in [Nat -> Seq(Int)], raw \in [Nat -> Elements] :
        FriTyped(K) /\ FriHonest(K) /\ FriLog(K, t, raw)
  BY Zenon DEF FriInv
<1> DEFINE m == nqueries
           k == Len(pf.roots) - 1
           qs == pf.query_proofs
           ms == proof.query_proofs
<1>2. /\ proof \in Proofs /\ Len(proof.roots) = K + 1 /\ Len(betas) = K
      /\ m \in Nat /\ Len(proof.query_indices) = m
      /\ proof.query_indices = indices /\ DOMAIN indices = 1 .. m /\ DOMAIN betas = 1 .. K
      /\ \A r \in 1 .. (K + 1) : layers[r] \in Layer(K, r) /\ proof.roots[r] = RootOf(layers[r])
      /\ \A q \in 1 .. m : indices[q] \in Nat
      /\ \A q \in 1 .. m : \A r \in 1 .. K : ms[q][r] = QueryRound(layers[r], layers[r + 1], indices[q])
  BY <1>1, ProofOfRun, Zenon
<1>3. /\ Len(pf.roots) = k + 1 /\ k \in Nat /\ k > 0 /\ pf.roots \in [1 .. (k + 1) -> Caps]
      /\ pf.query_indices \in [1 .. Len(pf.query_indices) -> Nat]
  <2>1. Len(pf.roots) \in Nat /\ pf.roots \in [1 .. Len(pf.roots) -> Caps]
        /\ pf.query_indices \in [1 .. Len(pf.query_indices) -> Nat]
    BY ProofIs
  <2> DEFINE n == Len(pf.roots)
             f == pf.roots
  <2>2. n \in Nat /\ n >= 2 /\ f \in [1 .. n -> Caps]
    BY <2>1
  <2>3. Len(pf.roots) = n /\ k = n - 1
    OBVIOUS
  <2> HIDE DEF n, f, k
  <2>4. n = k + 1 /\ k \in Nat /\ k > 0
    BY <2>2, <2>3
  <2>5. f \in [1 .. (k + 1) -> Caps]
    BY <2>2, <2>4
  <2> QED  BY <2>1, <2>3, <2>4, <2>5 DEF f
<1>4. AcceptedAs(pf, k, draws)
  BY VerifyIs
<1>5. Len(pf.query_indices) = m /\ m # 0 /\ 1 \in 1 .. m
  <2>1. Len(pf.query_indices) = m
    BY <1>4 DEF AcceptedAs
  <2> QED  BY <1>2, <2>1
<1>6. domain \in Points(Two(K)) /\ Len(layers) = K + 1
  BY <1>1 DEF FriTyped
<1> HIDE DEF k, m, qs, ms
<1>7. /\ k <= K
      /\ \A r \in 1 .. (k + 1) : Len(pf.roots[r]) = 1
      /\ \A q \in 1 .. m : \A r \in 1 .. k :
           /\ qs[q][r] \in Rounds
           /\ PathsOf(qs[q][r], K - (r - 1), K - r)
           /\ OpensUnder(pf, r, Two(K - (r - 1)), Two(K - r), qs[q][r])
  BY <1>2, <1>3, <1>4, <1>5, <1>6, AcceptedShape DEF k, m, qs
<1>8. ASSUME NEW q \in 1 .. m, NEW r \in 1 .. K
      PROVE  /\ layers[r] \in Layer(K, r) /\ layers[r + 1] \in Layer(K, r + 1) /\ indices[q] \in Nat
             /\ PathsOf(ms[q][r], K - (r - 1), K - r)
             /\ VerifyOpening(RootOf(layers[r]), Two(K - (r - 1)), ms[q][r].opening_x)
             /\ VerifyOpening(RootOf(layers[r + 1]), Two(K - r), ms[q][r].opening_folded)
  <2>1. r \in 1 .. (K + 1) /\ r + 1 \in 1 .. (K + 1)
    OBVIOUS
  <2> DEFINE a == layers[r]
             b == layers[r + 1]
             j == indices[q]
  <2>2. a \in Layer(K, r) /\ b \in Layer(K, r + 1) /\ j \in Nat /\ ms[q][r] = QueryRound(a, b, j)
    BY <1>2, <2>1
  <2> HIDE DEF a, b, j
  <2>3. /\ PathsOf(QueryRound(a, b, j), K - (r - 1), K - r)
        /\ VerifyOpening(RootOf(a), Two(K - (r - 1)), QueryRound(a, b, j).opening_x)
        /\ VerifyOpening(RootOf(b), Two(K - r), QueryRound(a, b, j).opening_folded)
    BY <2>2, RoundOpens
  <2> QED  BY <2>2, <2>3 DEF a, b, j
<1>9. Comparable(pf, proof)
  <2>1. \A r \in 1 .. Len(pf.roots) : Len(pf.roots[r]) = 1
    BY <1>3, <1>7
  <2>2. \A r \in 1 .. Len(proof.roots) : Len(proof.roots[r]) = 1
    <3>1. \A v : Len(RootOf(v)) = 1
      BY DEF RootOf
    <3> SUFFICES ASSUME NEW r \in 1 .. Len(proof.roots) PROVE Len(proof.roots[r]) = 1
      OBVIOUS
    <3>2. r \in 1 .. (K + 1)
      BY <1>2
    <3>3. proof.roots[r] = RootOf(layers[r])
      BY <1>2, <3>2
    <3> QED  BY <3>1, <3>3
  <2>3. Len(pf.roots) <= Len(proof.roots) /\ Len(pf.query_indices) = Len(proof.query_indices)
    BY <1>2, <1>3, <1>5, <1>7
  <2>4. ASSUME NEW q \in 1 .. m, NEW r \in 1 .. k PROVE SameShape(qs[q][r], ms[q][r])
    <3>1. r \in 1 .. K
      <4>1. k \in Nat /\ k <= K
        BY <1>3, <1>7
      <4> QED  BY <4>1
    <3>2. PathsOf(qs[q][r], K - (r - 1), K - r) /\ PathsOf(ms[q][r], K - (r - 1), K - r)
      BY <1>7, <1>8, <3>1
    <3> QED  BY <3>2 DEF PathsOf, SameShape
  <2>5. \A q \in 1 .. Len(pf.query_indices) : \A r \in 1 .. (Len(pf.roots) - 1) :
          SameShape(pf.query_proofs[q][r], proof.query_proofs[q][r])
    BY <1>5, <2>4 DEF qs, ms, k
  <2> QED  BY <2>1, <2>2, <2>3, <2>5 DEF Comparable
<1>10. Len(EncodeFriProof(pf)) \in Nat /\ Len(EncodeFriProof(proof)) \in Nat
  <2>1. \A x : x \in Proofs => EncodeFriProof(x) \in Words
    BY EncodedIsWords
  <2>2. EncodeFriProof(pf) \in Words /\ EncodeFriProof(proof) \in Words
    BY <1>2, <2>1
  <2>3. \A v \in Words : Len(v) \in Nat
    BY DEF Words
  <2> QED  BY <2>2, <2>3
<1>11. k = K
  <2>1. Len(pf.roots) < Len(proof.roots) => Len(EncodeFriProof(pf)) + 2 <= Len(EncodeFriProof(proof))
    BY <1>2, <1>9, ProofsCompared
  <2>2. ~(Len(pf.roots) < Len(proof.roots))
    BY <1>10, <2>1
  <2> QED  BY <1>2, <1>3, <1>7, <2>2
<1>12. /\ pf.roots = proof.roots \/ qs = ms
       /\ \A q \in 1 .. m : \A r \in 1 .. K : RoundsAlike(qs[q][r], ms[q][r])
  <2>1. Len(pf.roots) = Len(proof.roots)
    BY <1>2, <1>3, <1>11
  <2>2. Near(EncodeFriProof(pf), EncodeFriProof(proof))
    BY <1>2, <1>9, <2>1, ProofsCompared
  <2>3. /\ pf.roots = proof.roots \/ pf.query_proofs = proof.query_proofs
        /\ \A q \in 1 .. Len(pf.query_indices) : \A r \in 1 .. (Len(pf.roots) - 1) :
             RoundsAlike(pf.query_proofs[q][r], proof.query_proofs[q][r])
    BY <1>2, <1>9, <2>1, <2>2, ProofsCompared
  <2> QED  BY <1>5, <1>11, <2>3 DEF qs, ms, k
<1>13. pf.roots = proof.roots
  <2> SUFFICES ASSUME qs = ms PROVE pf.roots = proof.roots
    BY <1>12
  <2>1. ASSUME NEW r \in 1 .. K PROVE pf.roots[r] = proof.roots[r] /\ pf.roots[r + 1] = proof.roots[r + 1]
    <3>1. OpensUnder(pf, r, Two(K - (r - 1)), Two(K - r), ms[1][r])
      BY <1>5, <1>7, <1>11
    <3>2. /\ VerifyOpening(pf.roots[r], Two(K - (r - 1)), ms[1][r].opening_x)
          /\ VerifyOpening(pf.roots[r + 1], Two(K - r), ms[1][r].opening_folded)
      BY <3>1 DEF OpensUnder
    <3>3. /\ VerifyOpening(RootOf(layers[r]), Two(K - (r - 1)), ms[1][r].opening_x)
          /\ VerifyOpening(RootOf(layers[r + 1]), Two(K - r), ms[1][r].opening_folded)
      BY <1>5, <1>8
    <3>4. pf.roots[r] = RootOf(layers[r]) /\ pf.roots[r + 1] = RootOf(layers[r + 1])
      BY <3>2, <3>3, OneRoot
    <3>5. r \in 1 .. (K + 1) /\ r + 1 \in 1 .. (K + 1)
      OBVIOUS
    <3> QED  BY <1>2, <3>4, <3>5
  <2>2. ASSUME NEW r \in 1 .. (K + 1) PROVE pf.roots[r] = proof.roots[r]
    <3>1. CASE r <= K
      <4> DEFINE s == r
      <4>1. s \in 1 .. K
        BY <3>1
      <4> HIDE DEF s
      <4>2. pf.roots[s] = proof.roots[s] /\ pf.roots[s + 1] = proof.roots[s + 1]
        BY <2>1, <4>1
      <4> QED  BY <4>2 DEF s
    <3>2. CASE r = K + 1
      <4>1. K \in 1 .. K
        BY <1>3, <1>11
      <4> QED  BY <2>1, <3>2, <4>1
    <3>3. r <= K \/ r = K + 1
      OBVIOUS
    <3> QED  BY <3>1, <3>2, <3>3
  <2> DEFINE u == pf.roots
             v == proof.roots
  <2>3. u \in [1 .. (K + 1) -> Caps]
    BY <1>3, <1>11
  <2>4. v \in [1 .. (K + 1) -> Caps]
    <3>1. v \in [1 .. Len(v) -> Caps]
      BY <1>2, ProofIs
    <3> QED  BY <1>2, <3>1
  <2> HIDE DEF u, v
  <2>5. u = v
    <3>1. \A r \in 1 .. (K + 1) : u[r] = v[r]
      BY <2>2 DEF u, v
    <3> QED  BY <2>3, <2>4, <3>1
  <2> QED  BY <2>5 DEF u, v
<1>14. pf.query_indices = proof.query_indices
  <2>1. draws \in Draws(proof.roots, nqueries)
    BY <1>13
  <2>2. \A q \in DOMAIN indices : draws[Len(betas) + q] % Len(domain) = indices[q]
    BY <1>1, <2>1, QueriesTell
  <2>3. \A q \in 1 .. m : pf.query_indices[q] = draws[k + q] % Len(domain)
    BY <1>4 DEF AcceptedAs, m
  <2>4. \A q \in 1 .. m : pf.query_indices[q] = indices[q]
    BY <1>2, <1>11, <2>2, <2>3
  <2> DEFINE u == pf.query_indices
             v == proof.query_indices
  <2>5. u \in [1 .. m -> Nat]
    BY <1>3, <1>5
  <2>6. v \in [1 .. m -> Nat]
    <3>1. v \in [1 .. Len(v) -> Nat]
      BY <1>2, ProofIs
    <3> QED  BY <1>2, <3>1
  <2>7. \A q \in 1 .. m : u[q] = v[q]
    BY <1>2, <2>4
  <2> HIDE DEF u, v
  <2>8. u = v
    <3>1. u = [q \in 1 .. m |-> u[q]]
      BY <2>5
    <3>2. v = [q \in 1 .. m |-> v[q]]
      BY <2>6
    <3> QED  BY <3>1, <3>2, <2>7, Zenon
  <2> QED  BY <2>8 DEF u, v
<1>15. ASSUME NEW q \in 1 .. m, NEW r \in 1 .. K
       PROVE  /\ OpensLayer(qs[q][r].opening_x, ms[q][r].opening_x, layers[r])
              /\ OpensLayer(qs[q][r].opening_neg_x, ms[q][r].opening_neg_x, layers[r])
              /\ OpensLayer(qs[q][r].opening_folded, ms[q][r].opening_folded, layers[r + 1])
  <2>1. r \in 1 .. (K + 1) /\ r + 1 \in 1 .. (K + 1)
    OBVIOUS
  <2> DEFINE a == layers[r]
             b == layers[r + 1]
             j == indices[q]
             v == qs[q][r]
  <2>2. a \in Layer(K, r) /\ b \in Layer(K, r + 1) /\ j \in Nat /\ ms[q][r] = QueryRound(a, b, j)
    BY <1>2, <2>1
  <2>3. v \in Rounds /\ OpensUnder(pf, r, Two(K - (r - 1)), Two(K - r), v)
    BY <1>7, <1>11
  <2>4. pf.roots[r] = RootOf(a) /\ pf.roots[r + 1] = RootOf(b)
    BY <1>2, <1>13, <2>1
  <2>5. RoundsAlike(v, QueryRound(a, b, j))
    BY <1>12, <2>2
  <2> HIDE DEF a, b, j, v
  <2>6. /\ VerifyOpening(RootOf(a), Two(K - (r - 1)), v.opening_x)
        /\ VerifyOpening(RootOf(a), Two(K - (r - 1)), v.opening_neg_x)
        /\ VerifyOpening(RootOf(b), Two(K - r), v.opening_folded)
    BY <2>3, <2>4 DEF OpensUnder
  <2>7. /\ OpensLayer(v.opening_x, QueryRound(a, b, j).opening_x, a)
        /\ OpensLayer(v.opening_neg_x, QueryRound(a, b, j).opening_neg_x, a)
        /\ OpensLayer(v.opening_folded, QueryRound(a, b, j).opening_folded, b)
    BY <2>2, <2>3, <2>5, <2>6, RoundSeen
  <2> QED  BY <2>2, <2>7 DEF a, b, v
<1>16. pf.final_value = proof.final_value
  <2>1. K \in 1 .. K /\ K + 1 \in 1 .. (K + 1)
    BY <1>3, <1>11
  <2> DEFINE o == qs[1][K].opening_folded
             b == layers[K + 1]
  <2>2. o.leaf_value = pf.final_value
    BY <1>4, <1>5, <1>11 DEF AcceptedAs, m, qs
  <2>3. OpensLayer(o, ms[1][K].opening_folded, b)
    BY <1>5, <1>15, <2>1
  <2>4. b \in Layer(K, K + 1)
    BY <1>2, <2>1
  <2> HIDE DEF o, b
  <2>5. b \in Seq(Elements) /\ Len(b) = 1
    BY <2>1, <2>4, LayerIsSeq
  <2>6. o.leaf_index + 1 \in DOMAIN b /\ b[o.leaf_index + 1] = o.leaf_value
    BY <2>3 DEF OpensLayer
  <2>7. DOMAIN b = 1 .. 1
    BY <2>5
  <2>8. o.leaf_index + 1 = 1
    BY <2>6, <2>7
  <2>9. b[1] = pf.final_value
    BY <2>2, <2>6, <2>8
  <2>10. proof.final_value = Current[1]
    BY <1>1 DEF FriHonest
  <2> QED  BY <1>6, <2>9, <2>10 DEF Current, b
<1>17. \A q \in DOMAIN indices, r \in DOMAIN betas :
         /\ OpensLayer(pf.query_proofs[q][r].opening_x, proof.query_proofs[q][r].opening_x, layers[r])
         /\ OpensLayer(pf.query_proofs[q][r].opening_neg_x, proof.query_proofs[q][r].opening_neg_x, layers[r])
         /\ OpensLayer(pf.query_proofs[q][r].opening_folded, proof.query_proofs[q][r].opening_folded, layers[r + 1])
  BY <1>2, <1>15 DEF qs, ms
<1> QED  BY <1>13, <1>14, <1>16, <1>17 DEF SeenAs

-----------------------------------------------------------------------------
\* What is kept of the words.

\* What has been written of a proof, and what became of it.
CodecInv ==
  /\ phase = "proved" => IsMade
  /\ stage \in Proving => nqueries = job.queries
  /\ stage \in Proven \cup {"delivered"} => words # <<>>
  /\ words # <<>> =>
       /\ stage \in Proven \cup {"delivered", "done"}
       /\ phase = "proved" /\ ~faulty /\ nqueries = job.queries /\ words = EncodeFriProof(proof)
  /\ stage = "delivered" => received \in Damaged(words)
  /\ reread.outcome # "none" => stage = "done"
  /\ EncodingIsCanonical
  /\ reread.outcome = "accepted" => SeenAs(reread.proof)

\* A run that has ended is of a size.
LEMMA RunHasSize ==
  ASSUME FriInv, phase = "proved" PROVE \E K \in 0 .. 30 : FriTyped(K)
BY DEF FriInv

\* Nothing is written before any run.
LEMMA CodecInitially == Init => CodecInv
<1> SUFFICES ASSUME Init PROVE CodecInv
  OBVIOUS
<1>1. PICK j, at, repository : /\ TelemetryInit(j, at, repository)
                               /\ at \in {"plain", "idle", "requested"}
  BY DEF Init
<1>2. /\ stage \in {"plain", "idle", "requested"} /\ words = <<>>
      /\ reread.outcome = "none" /\ phase = "idle"
  BY <1>1 DEF Init, FriInit, TelemetryInit
<1> QED  BY <1>2 DEF CodecInv, EncodingIsCanonical, Proving, Proven

\* What a reader finds in the words of a run.
LEMMA CodecTells == ASSUME FriInv, CodecInv PROVE CodecIsExact
<1>1. ASSUME words # <<>>
      PROVE  DecodeFriProof(words) = IF betas # <<>> /\ nqueries > 0 THEN Done(proof, <<>>) ELSE Fail
  <2>1. phase = "proved" /\ IsMade /\ words = EncodeFriProof(proof)
    BY <1>1 DEF CodecInv
  <2>2. PICK K \in 0 .. 30 : FriTyped(K)
    <3>1. phase = "proved"
      BY <2>1, Zenon
    <3> QED  BY <3>1, RunHasSize, Zenon
  <2>3. /\ proof \in Proofs /\ Len(proof.roots) = K + 1 /\ Len(betas) = K
        /\ nqueries \in Nat /\ Len(proof.query_indices) = nqueries
    BY <2>1, <2>2, ProofOfRun
  <2>4. betas \in Seq(Elements)
    BY <2>2 DEF FriTyped
  <2>5. betas # <<>> <=> K + 1 >= 2
    BY <2>3, <2>4
  <2>6. nqueries > 0 <=> nqueries # 0
    BY <2>3
  <2>7. DecodeFriProof(EncodeFriProof(proof)) =
          IF Len(proof.roots) >= 2 /\ Len(proof.query_indices) # 0 THEN Done(proof, <<>>) ELSE Fail
    BY <2>3, DecodeEncodes
  <2> QED  BY <2>1, <2>3, <2>5, <2>6, <2>7
<1>2. WordsTellProof
  BY <1>1 DEF WordsTellProof
<1>3. DamageIsSeen
  BY SeenIs DEF CodecInv
<1> QED  BY <1>2, <1>3 DEF CodecInv, CodecIsExact

\* The proof of a run has a proof's fields.
LEMMA MadeByFri ==
  ASSUME phase = "proved" => IsMade, FriNext \/ \E e, d, q, f : FriCommit(e, d, q, f)
  PROVE  phase' = "proved" => IsMade'
<1>1. CASE FriFold \/ FriQuery \/ \E e, d, q, f : FriCommit(e, d, q, f)
  BY <1>1 DEF FriFold, FriQuery, FriCommit
<1>2. CASE FriFinish
  <2>1. PICK final :
          proof' = [roots |-> [r \in DOMAIN layers |-> RootOf(layers[r])],
                    final_value |-> final,
                    query_indices |-> indices,
                    query_proofs |->
                      [q \in DOMAIN indices |->
                         [r \in DOMAIN betas |-> QueryRound(layers[r], layers[r + 1], indices[q])]]]
    BY <1>2 DEF FriFinish
  <2> QED  BY <2>1 DEF IsMade, Made
<1> QED  BY <1>1, <1>2 DEF FriNext

\* Whoever runs FRI without a telemetry job.
LEMMA OthersKeepWords ==
  ASSUME CodecInv, stage \in {"plain", "idle"}, UNCHANGED telemetryVars, phase' = "proved" => IsMade'
  PROVE  CodecInv'
<1>1. UNCHANGED <<stage, job, words, received, reread>>
  BY DEF telemetryVars, runVars, readerVars
<1>2. words = <<>> /\ reread.outcome = "none"
  BY DEF CodecInv, Proven, Proving
<1> QED  BY <1>1, <1>2 DEF CodecInv, EncodingIsCanonical, Proven, Proving

\* A step that leaves FRI, the words and their reader alone.
LEMMA WordsStay ==
  ASSUME CodecInv, UNCHANGED <<friVars, job, words, received, reread>>,
         stage' \in Proving => stage \in Proving,
         stage' \in Proven \cup {"delivered"} => stage \in Proven \cup {"delivered"},
         stage \in Proven \cup {"delivered", "done"} => stage' \in Proven \cup {"delivered", "done"},
         stage' = "delivered" => stage = "delivered",
         stage = "done" => stage' = "done"
  PROVE  CodecInv'
<1>1. UNCHANGED <<phase, faulty, nqueries, proof, betas, layers, indices>>
  BY DEF friVars
<1>2. phase' = "proved" => IsMade'
  BY <1>1 DEF CodecInv, IsMade
<1>3. stage' \in Proving => nqueries' = job'.queries
  BY <1>1 DEF CodecInv
<1>4. stage' \in Proven \cup {"delivered"} => words' # <<>>
  BY DEF CodecInv
<1>5. words' # <<>> =>
         /\ stage' \in Proven \cup {"delivered", "done"}
         /\ phase' = "proved" /\ ~faulty' /\ nqueries' = job'.queries /\ words' = EncodeFriProof(proof')
  BY <1>1 DEF CodecInv
<1>6. stage' = "delivered" => received' \in Damaged(words')
  BY DEF CodecInv
<1>7. (reread'.outcome # "none" => stage' = "done") /\ EncodingIsCanonical'
  BY DEF CodecInv, EncodingIsCanonical
<1>8. reread'.outcome = "accepted" => SeenAs(reread.proof)'
  BY <1>1 DEF CodecInv, SeenAs
<1> QED  BY <1>2, <1>3, <1>4, <1>5, <1>6, <1>7, <1>8 DEF CodecInv

\* Whoever reads the words again sees what was done to them.
LEMMA RereadKeeps == ASSUME FriInv, CodecInv, Reread PROVE CodecInv'
<1>1. /\ stage = "delivered" /\ stage' = "done" /\ UNCHANGED <<friVars, job, words, received>>
  BY DEF Reread, runVars
<1>2. UNCHANGED <<phase, faulty, nqueries, proof, domain, betas, layers, indices>>
  BY <1>1 DEF friVars
<1>3. /\ words # <<>> /\ phase = "proved" /\ IsMade /\ ~faulty /\ nqueries = job.queries
      /\ words = EncodeFriProof(proof) /\ received \in Damaged(words)
  BY <1>1 DEF CodecInv
<1>4. PICK K \in 0 .. 30 : FriTyped(K)
  <2>1. phase = "proved"
    BY <1>3, Zenon
  <2> QED  BY <2>1, RunHasSize, Zenon
<1>5. proof \in Proofs
  BY <1>3, <1>4, ProofOfRun
<1>6. words \in Words
  BY <1>3, <1>5, EncodedIsWords
<1>7. received \in Words /\ Len(received) + 1 >= Len(words) /\ (Len(received) = Len(words) => Near(received, words))
  BY <1>3, <1>6, DamagedLen
<1> DEFINE decoded == DecodeFriProof(received)
           pf == decoded.value
<1>8. CASE ~decoded.ok
  <2>1. reread' = [outcome |-> "undecodable", proof |-> NoProof]
    BY <1>8 DEF Reread
  <2>2. reread'.outcome = "undecodable"
    BY <2>1
  <2> QED  BY <1>1, <1>2, <1>3, <2>2 DEF CodecInv, EncodingIsCanonical, IsMade, Proving, Proven
<1>9. CASE decoded.ok
  <2>1. PICK draws \in Draws(pf.roots, job.queries) :
          reread' = [outcome |-> IF FriVerify(domain, pf, job.queries, draws) THEN "accepted" ELSE "rejected",
                     proof |-> pf]
    BY <1>9 DEF Reread
  <2>2. /\ pf \in Proofs /\ Len(pf.roots) >= 2 /\ Len(pf.query_indices) # 0 /\ EncodeFriProof(pf) = received
    BY <1>7, <1>9, EncodeDecodes
  <2> HIDE DEF decoded
  <2>3. reread'.proof = pf /\ reread'.outcome \in {"accepted", "rejected"}
        /\ (reread'.outcome = "accepted" => FriVerify(domain, pf, job.queries, draws))
    BY <2>1
  <2>4. ASSUME reread'.outcome = "accepted" PROVE SeenAs(reread.proof)'
    <3>1. FriVerify(domain, pf, nqueries, draws) /\ draws \in Draws(pf.roots, nqueries)
      BY <1>3, <2>1, <2>3, <2>4
    <3>2. SeenAs(pf)
      <4> DEFINE x == pf
      <4>1. /\ x \in Proofs /\ Len(x.roots) >= 2 /\ Len(x.query_indices) # 0
            /\ draws \in Draws(x.roots, nqueries) /\ FriVerify(domain, x, nqueries, draws)
            /\ Len(EncodeFriProof(x)) + 1 >= Len(EncodeFriProof(proof))
            /\ (Len(EncodeFriProof(x)) = Len(EncodeFriProof(proof)) => Near(EncodeFriProof(x), EncodeFriProof(proof)))
        BY <1>3, <1>7, <2>2, <3>1
      <4> HIDE DEF x
      <4>2. SeenAs(x)
        BY <1>3, <4>1, AcceptedIsMine
      <4> QED  BY <4>2 DEF x
    <3> QED  BY <1>2, <2>3, <3>2 DEF SeenAs
  <2>5. EncodingIsCanonical'
    BY <1>1, <2>2, <2>3 DEF EncodingIsCanonical
  <2>6. phase' = "proved" => IsMade'
    BY <1>2, <1>3 DEF IsMade
  <2> QED  BY <1>1, <1>2, <1>3, <2>4, <2>5, <2>6 DEF CodecInv, Proving, Proven
<1> QED  BY <1>8, <1>9

-----------------------------------------------------------------------------
\* The steps that keep it.

\* Every step of a telemetry run keeps what was written.
LEMMA TelemetryKeepsWords ==
  ASSUME FriInv, RunInv, CodecInv, TelemetryNext
  PROVE  CodecInv'
<1>1. CASE Tick
  BY <1>1, WordsStay DEF Tick, runVars, readerVars
<1>2. CASE Refuse \/ EmitFails
  <2>1. /\ stage \in {"requested", "ready"} /\ stage' = "done"
        /\ UNCHANGED <<friVars, job, words, received, reread>>
    BY <1>2 DEF Refuse, EmitFails, runVars, readerVars
  <2> QED  BY <2>1, WordsStay DEF Proving, Proven
<1>3. CASE BeginProving
  <2>1. /\ stage = "requested" /\ stage' = "setup"
        /\ UNCHANGED <<friVars, job, words, received, reread>>
    BY <1>3 DEF BeginProving, readerVars
  <2> QED  BY <2>1, WordsStay DEF Proving, Proven
<1>4. CASE BeginFri
  <2>1. /\ stage = "setup" /\ stage' = "proving" /\ UNCHANGED <<job, words, received, reread>>
        /\ FriCommit(job.evals, job.domain, job.queries, FALSE)
    BY <1>4 DEF BeginFri, readerVars
  <2>2. words = <<>> /\ reread.outcome = "none"
    BY <2>1 DEF CodecInv, Proving, Proven
  <2>3. phase' # "proved" /\ nqueries' = job.queries
    BY <2>1 DEF FriCommit
  <2> QED  BY <2>1, <2>2, <2>3 DEF CodecInv, EncodingIsCanonical, Proving, Proven
<1>5. CASE RunFri
  <2>1. stage = "proving" /\ FriNext /\ UNCHANGED <<stage, job, words, received, reread>>
    BY <1>5 DEF RunFri, telemetryVars, runVars, readerVars
  <2>2. words = <<>> /\ reread.outcome = "none" /\ nqueries = job.queries
    BY <2>1 DEF CodecInv, Proving, Proven
  <2>3. phase' = "proved" => IsMade'
    BY <2>1, MadeByFri DEF CodecInv
  <2>4. nqueries' = nqueries
    BY <2>1 DEF FriNext, FriFold, FriQuery, FriFinish
  <2> QED  BY <2>1, <2>2, <2>3, <2>4 DEF CodecInv, EncodingIsCanonical, Proving, Proven
<1>6. CASE Serialize
  <2>1. /\ stage = "proving" /\ phase = "proved" /\ stage' = "serialized"
        /\ words' = EncodeFriProof(proof) /\ UNCHANGED <<friVars, job, received, reread>>
    BY <1>6 DEF Serialize, readerVars
  <2>2. UNCHANGED <<phase, faulty, nqueries, proof>>
    BY <2>1 DEF friVars
  <2>3. IsMade /\ nqueries = job.queries /\ reread.outcome = "none"
    BY <2>1 DEF CodecInv, Proving
  <2>4. ~faulty
    BY <2>1 DEF RunInv, Proving
  <2>5. PICK K \in 0 .. 30 : FriTyped(K)
    <3>1. phase = "proved"
      BY <2>1, Zenon
    <3> QED  BY <3>1, RunHasSize, Zenon
  <2>6. proof \in Proofs
    BY <2>1, <2>3, <2>5, ProofOfRun
  <2>7. words' # <<>>
    BY <2>1, <2>6, EncodedIsWords
  <2>8. IsMade'
    BY <2>2, <2>3 DEF IsMade
  <2> QED  BY <2>1, <2>2, <2>3, <2>4, <2>7, <2>8 DEF CodecInv, EncodingIsCanonical, Proving, Proven
<1>7. CASE BeginVerify \/ FinishVerify
  <2>1. /\ stage \in {"serialized", "verifying"} /\ stage' \in {"verifying", "verified"}
        /\ UNCHANGED <<friVars, job, words, received, reread>>
    BY <1>7 DEF BeginVerify, FinishVerify, readerVars
  <2> QED  BY <2>1, WordsStay DEF Proving, Proven
<1>8. CASE GitCommit \/ PackRefs \/ ReadHead \/ ReadRef \/ ReadPackedRefs \/ EmitArtifact
  <2>1. /\ stage \in {"verified", "head", "loose", "ready"} /\ stage' \in {"head", "loose", "ready", "emitted"}
        /\ UNCHANGED <<friVars, job, words, received, reread>>
    BY <1>8 DEF GitCommit, PackRefs, ReadHead, ReadRef, ReadPackedRefs, EmitArtifact, runVars, readerVars
  <2> QED  BY <2>1, WordsStay DEF Proving, Proven
<1>9. CASE Deliver
  <2>1. /\ stage = "emitted" /\ stage' = "delivered" /\ received' \in Damaged(words)
        /\ UNCHANGED <<friVars, job, words, reread>>
    BY <1>9 DEF Deliver
  <2>2. UNCHANGED <<phase, faulty, nqueries, proof>>
    BY <2>1 DEF friVars
  <2>3. reread.outcome = "none" /\ words # <<>>
    BY <2>1 DEF CodecInv, Proving, Proven
  <2>4. phase' = "proved" => IsMade'
    BY <2>2 DEF CodecInv, IsMade
  <2> QED  BY <2>1, <2>2, <2>3, <2>4 DEF CodecInv, EncodingIsCanonical, Proving, Proven
<1>10. CASE Reread
  BY <1>10, RereadKeeps
<1> QED  BY <1>1, <1>2, <1>3, <1>4, <1>5, <1>6, <1>7, <1>8, <1>9, <1>10 DEF TelemetryNext

\* So does every step beside it.
LEMMA CodecStep == ClientInv /\ RunInv /\ CodecInv /\ [Next]_vars => CodecInv'
<1> SUFFICES ASSUME ClientInv, RunInv, CodecInv, [Next]_vars PROVE CodecInv'
  OBVIOUS
<1>1. phase = "proved" => IsMade
  BY DEF CodecInv
<1>2. CASE PlainFri
  <2>1. stage = "plain" /\ UNCHANGED telemetryVars
    BY <1>2 DEF PlainFri
  <2>2. FriNext \/ \E e, d, q, f : FriCommit(e, d, q, f)
    BY <1>2 DEF PlainFri
  <2>3. phase' = "proved" => IsMade'
    BY <1>1, <2>2, MadeByFri
  <2> QED  BY <2>1, <2>3, OthersKeepWords
<1>3. CASE DeepNext /\ UNCHANGED telemetryVars
  <2>1. stage = "idle"
    BY <1>3, IdleIsIdle DEF RunInv
  <2>2. (FriNext \/ \E e, d, q, f : FriCommit(e, d, q, f)) \/ UNCHANGED friVars
    <3>1. CASE WireFri
      BY <3>1 DEF WireFri
    <3>2. CASE ProveFri
      BY <3>2 DEF ProveFri
    <3>3. CASE ~WireFri /\ ~ProveFri
      BY <1>3, <3>3 DEF DeepNext, GateDenies, ComputeDeepQuotient, QuotientAbsent, VerifyFri, NextBatch,
         Consume, Reset, VerifyDeepBatch
    <3> QED  BY <3>1, <3>2, <3>3
  <2>3. phase' = "proved" => IsMade'
    <3>1. CASE UNCHANGED friVars
      BY <1>1, <3>1 DEF friVars, IsMade
    <3>2. CASE FriNext \/ \E e, d, q, f : FriCommit(e, d, q, f)
      BY <1>1, <3>2, MadeByFri
    <3> QED  BY <2>2, <3>1, <3>2
  <2> QED  BY <1>3, <2>1, <2>3, OthersKeepWords
<1>4. CASE TelemetryNext
  BY <1>4, TelemetryKeepsWords DEF ClientInv
<1>5. CASE UNCHANGED <<friVars, telemetryVars>>
  BY <1>5, WordsStay DEF telemetryVars, runVars, readerVars
<1> QED  BY <1>2, <1>3, <1>4, <1>5 DEF Next, vars

\* The invariants give the checked property.
LEMMA CodecHolds == ClientInv /\ CodecInv => CodecIsExact
BY CodecTells DEF ClientInv

\* The codec of FRI proofs is exact, for every prime field, job and domain
\* (oracle_bridge.rs, encode_fri_proof_v1 and decode_fri_proof_v1): the words of
\* a run decode to its proof, or to nothing when there is no fold or no query;
\* what decodes at all has one encoding; and no proof whose words were damaged
\* once is accepted unless commitments, last value, places and every opened
\* value are the prover's.
THEOREM CodecIsRight == Spec => []CodecIsExact
BY ClientInitially, ClientStep, RunInitially, RunStep, CodecInitially, CodecStep, CodecHolds, PTL DEF Spec
=============================================================================
