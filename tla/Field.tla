------------------------------- MODULE Field -------------------------------
(***************************************************************************)
(* The prime field the provers compute in (p3_field, p3_baby_bear), and    *)
(* the conversions at its border.  The code uses BabyBear; every algorithm *)
(* modelled over it is generic in the field, and the models take a small   *)
(* one.  A vector of the code is a sequence: index i there is i + 1 here.  *)
(***************************************************************************)
EXTENDS Integers, Sequences

CONSTANTS
  P,             \* the order of the field
  Generator      \* a generator of its multiplicative group

Elements == 0 .. (P - 1)

Plus(a, b) == (a + b) % P
Minus(a, b) == (a - b) % P
Times(a, b) == (a * b) % P

Power(a, n) ==
  LET pow[k \in 0 .. n] == IF k = 0 THEN 1 ELSE Times(a, pow[k - 1])
  IN pow[n]

ASSUME FieldAssumption ==
  /\ P \in Nat /\ P > 2
  /\ \A d \in 2 .. (P - 1) : P % d # 0
  /\ Generator \in 1 .. (P - 1)
  /\ \A k \in 1 .. (P - 2) : Power(Generator, k) # 1

Inv(a) == CHOOSE b \in Elements : Times(a, b) = 1

Total(s) ==
  LET upTo[k \in 0 .. Len(s)] == IF k = 0 THEN 0 ELSE Plus(upTo[k - 1], s[k])
  IN upTo[Len(s)]

Product(s) ==
  LET upTo[k \in 0 .. Len(s)] == IF k = 0 THEN 1 ELSE Times(upTo[k - 1], s[k])
  IN upTo[Len(s)]

Vectors(n) == [1 .. n -> Elements]

IsPowerOfTwo(n) == \E k \in 0 .. 30 : n = 2^k
Log2(n) == CHOOSE k \in 0 .. 30 : n = 2^k

\* Fiat-Shamir: a challenger is the transcript of what it has observed, and
\* a sample is a function of the transcript.  fs holds the values that have
\* been drawn; a transcript nobody has sampled yet may answer anything.  A -1 marks
\* a sample in the transcript: sampling changes the state of a challenger too.
Samples(fs, t, values) == IF t \in DOMAIN fs THEN {fs[t]} ELSE values
Learn(fs, t, r) == [u \in DOMAIN fs \cup {t} |-> IF u = t THEN r ELSE fs[u]]
Sampled(t) == Append(t, -1)
=============================================================================
