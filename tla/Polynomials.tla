---------------------------- MODULE Polynomials ----------------------------
(***************************************************************************)
(* Polynomials over the field as vectors of coefficients, the lowest       *)
(* first: the radix-2 transform, interpolation, long and synthetic         *)
(* division and quotients by a vanishing polynomial                        *)
(* (crates/oracle-layer: fft.rs, poly.rs, quotient.rs; crates/             *)
(* prover-server: the interpolations of deep_ali.rs).                      *)
(***************************************************************************)
EXTENDS Field

\* The coefficient of x^k, zero beyond the vector.
Coeff(p, k) == IF k + 1 \in DOMAIN p THEN p[k + 1] ELSE 0

SamePoly(p, q) == \A k \in 0 .. (Len(p) + Len(q)) : Coeff(p, k) = Coeff(q, k)

\* Horner's rule.
EvaluateCoeffs(coeffs, x) ==
  LET n == Len(coeffs)
      acc[k \in 0 .. n] == IF k = 0 THEN 0
                           ELSE Plus(Times(acc[k - 1], x), coeffs[n + 1 - k])
  IN acc[n]

PrimitiveRoot(n) == Power(Generator, (P - 1) \div n)
TwoAdicDomain(n) == [i \in 1 .. n |-> Power(PrimitiveRoot(n), i - 1)]

-----------------------------------------------------------------------------
\* The transform: bits reversed, then one stage of butterflies per doubling.

ReverseBits(x, bits) ==
  LET r[k \in 0 .. bits] == IF k = 0 THEN 0
                            ELSE (2 * r[k - 1]) + ((x \div 2^(k - 1)) % 2)
  IN r[bits]

Butterflies(a, len, omega) ==
  LET half == len \div 2
      root == Power(omega, Len(a) \div len)
  IN [i \in DOMAIN a |->
        LET k == (i - 1) % len
        IN IF k < half THEN Plus(a[i], Times(a[i + half], Power(root, k)))
           ELSE Minus(a[i - half], Times(a[i], Power(root, k - half)))]

\* Mutant of FftInPlace: the places are not permuted.
FftInPlaceUnreversed(a, omega) ==
  LET bits == Log2(Len(a))
      stage[k \in 0 .. bits] == IF k = 0 THEN a ELSE Butterflies(stage[k - 1], 2^k, omega)
  IN stage[bits]

FftInPlace(a, omega) ==
  LET bits == Log2(Len(a))
      stage[k \in 0 .. bits] ==
        IF k = 0 THEN [i \in DOMAIN a |-> a[ReverseBits(i - 1, bits) + 1]]
        ELSE Butterflies(stage[k - 1], 2^k, omega)
  IN stage[bits]

Fft(coeffs, omega) == FftInPlace(coeffs, omega)

Ifft(evals, omega) ==
  LET a == FftInPlace(evals, Inv(omega))
  IN [i \in DOMAIN a |-> Times(a[i], Inv(Len(a) % P))]

\* Over the powers of the root, as the live DEEP-ALI path interpolates.
InterpolateSubgroup(evals) == Ifft(evals, PrimitiveRoot(Len(evals)))

\* Over the points 0 .. n-1, as the dormant verifier does.
TimesLinear(p, root) ==
  [k \in 1 .. (Len(p) + 1) |-> Minus(Coeff(p, k - 2), Times(root, Coeff(p, k - 1)))]

LagrangeBasis(n, i) ==
  LET step[j \in 0 .. n] ==
        IF j = 0 THEN <<1>>
        ELSE IF j - 1 = i THEN step[j - 1] ELSE TimesLinear(step[j - 1], j - 1)
  IN step[n]

InterpolateLagrangeNaive(evals) ==
  LET n == Len(evals)
      scale(i) == Inv(Product([j \in 1 .. n |-> IF j - 1 = i THEN 1 ELSE Minus(i, j - 1)]))
  IN [k \in 1 .. n |->
        Total([i \in 1 .. n |-> Times(Times(LagrangeBasis(n, i - 1)[k], evals[i]), scale(i - 1))])]

-----------------------------------------------------------------------------
\* Division.

VanishingPoly(n) == [k \in 1 .. (n + 1) |-> IF k = 1 THEN Minus(0, 1) ELSE IF k = n + 1 THEN 1 ELSE 0]

\* Long division; the empty vector when there is nothing to divide.
PolyDiv(num, den) ==
  LET d == Len(den)
      top == Len(num) - d
      lead == den[d]
      \* What is left of num after the steps for x^top down to x^k.
      rest[j \in 0 .. top] ==
        IF j = 0 THEN num
        ELSE LET prev == rest[j - 1]
                 k == top - j + 1
                 c == Times(prev[k + d], Inv(lead))
             IN [i \in DOMAIN num |-> Minus(prev[i], Times(c, Coeff(den, i - 1 - k)))]
  IN IF top < 0 \/ lead = 0 THEN <<>>
     ELSE [k \in 1 .. (top + 1) |-> Times(rest[top - k + 1][k + d - 1], Inv(lead))]

BuildQuotient(constraint, n) == PolyDiv(constraint, VanishingPoly(n))

\* Division by x^n - 1: what stands at x^i for i >= n goes to the quotient
\* and folds down to x^(i-n).
DivideByVanishing(coeffs, n) ==
  LET deg == Len(coeffs)
      folded[i \in 1 .. deg] ==
        IF i + n > deg THEN coeffs[i] ELSE Plus(coeffs[i], folded[i + n])
  IN IF deg <= n THEN [quotient |-> <<0>>, remainder |-> coeffs]
     ELSE [quotient |-> [k \in 1 .. (deg - n) |-> folded[k + n]],
           remainder |-> [k \in 1 .. n |-> folded[k]]]

VanishesOnDomain(coeffs, n) ==
  LET r == DivideByVanishing(coeffs, n).remainder
  IN \A k \in DOMAIN r : r[k] = 0

\* Synthetic division by x - z, with its remainder.
DivideByPoint(coeffs, z) ==
  LET n == Len(coeffs)
      q[k \in 0 .. n] == IF k = n THEN 0 ELSE Plus(coeffs[k + 1], Times(z, q[k + 1]))
  IN [quotient |-> [k \in 1 .. (n - 1) |-> q[k]], remainder |-> q[0]]

\* The product of two polynomials, to state what a division promises.
PolyTimes(p, q) ==
  [k \in 1 .. (Len(p) + Len(q)) |->
     Total([i \in 1 .. k |-> Times(Coeff(p, i - 1), Coeff(q, k - i))])]
=============================================================================
