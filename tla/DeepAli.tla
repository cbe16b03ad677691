------------------------------ MODULE DeepAli ------------------------------
(***************************************************************************)
(* DEEP-ALI (crates/prover-server: deep_ali.rs, deep_ali_fri.rs): the      *)
(* quotient of a trace by the points it is queried at, combined under      *)
(* sampled weights and proved with FRI; the batch verifier, which nothing  *)
(* calls yet; and the accumulator that binds the soundness budget to the   *)
(* transcript.                                                             *)
(***************************************************************************)
EXTENDS Fri, FiniteSets

CONSTANTS
  Lambda,        \* DEEP_ALI_LAMBDA, the bits of soundness there are
  Bits,          \* amounts of bits a caller may consume
  MaxConsumes    \* bound: consumes a transcript holds

ASSUME DeepAliAssumption == Lambda \in Nat /\ MaxConsumes \in Nat /\ Bits \subseteq Nat

Sides == {"prover", "verifier"}

VARIABLES
  deep,          \* the request: trace, queries, links, the two limits, nqueries
  step,          \* what compute_deep_quotient and its FRI have come to
  weights,       \* the weights sampled for the combination
  quotient,      \* the combined quotient
  acc,           \* the SoundnessAccumulator of each side
  tr             \* the transcript of each side: a DeepAliChallenger

deepVars == <<deep, step, weights, quotient, acc, tr>>

Column(trace, c) == [r \in DOMAIN trace |-> trace[r][c + 1]]

-----------------------------------------------------------------------------
\* The quotient.

SingleQuotient(trace, query) ==
  DivideByPoint(InterpolateSubgroup(Column(trace, query.column)), query.point).quotient

\* Mutant of Combine: every quotient gets the first weight.
CombineOneWeight(quotients, ws) ==
  [j \in DOMAIN quotients[1] |->
     Total([q \in DOMAIN quotients |-> Times(ws[1], quotients[q][j])])]

Combine(quotients, ws) ==
  [j \in DOMAIN quotients[1] |->
     Total([q \in DOMAIN quotients |-> Times(ws[q], quotients[q][j])])]

Trim(p) ==
  LET used == {k \in DOMAIN p : p[k] # 0}
  IN IF used = {} THEN <<>> ELSE SubSeq(p, 1, CHOOSE k \in used : \A j \in used : j <= k)

\* The height the radix-2 inverse transform takes.
GoodHeight(trace) == Len(trace) >= 2 /\ IsPowerOfTwo(Len(trace))

Cells(trace) ==
  LET w == Len(trace[1])
  IN [k \in 1 .. (Len(trace) * w) |-> trace[((k - 1) \div w) + 1][((k - 1) % w) + 1]]

OutOfBounds(request, q) == request.queries[q].column >= request.num_columns

\* compute_deep_quotient with the gate open.  Nothing is observed for no
\* query; a bad query, or a height no transform takes, is found after the
\* trace has been; a weight is drawn per quotient once all are there.
QuotientResult(request, ws) ==
  LET qs == request.queries
      combined == Trim(Combine([q \in DOMAIN qs |-> SingleQuotient(request.trace, qs[q])], ws))
      degree == IF combined = <<>> THEN 0 ELSE Len(combined) - 1
      unread == Cells(request.trace)
      drawn == unread \o [q \in DOMAIN qs |-> -1]
      Result(status, value, seen) == [status |-> status, value |-> value, seen |-> seen]
  IN IF qs = <<>> THEN Result("quotient", <<>>, <<>>)
     ELSE IF OutOfBounds(request, 1) THEN Result("column", <<>>, unread)
     ELSE IF ~GoodHeight(request.trace) THEN Result("interpolation", <<>>, unread)
     ELSE IF \E q \in DOMAIN qs : OutOfBounds(request, q) THEN Result("column", <<>>, unread)
     ELSE IF degree >= request.max_degree THEN Result("degree", <<>>, drawn)
     ELSE Result("quotient", combined, drawn)

GateDenies ==
  /\ step = "requested"
  /\ step' = "owsl_halt"
  /\ UNCHANGED <<deep, weights, quotient, acc, tr, friVars>>

ComputeDeepQuotient ==
  /\ step = "requested"
  /\ \E ws \in [DOMAIN deep.queries -> Elements] :
       LET result == QuotientResult(deep, ws)
       IN /\ step' = result.status
          /\ quotient' = result.value
          /\ weights' = ws
          /\ tr' = [tr EXCEPT !["prover"] = @ \o result.seen]
  /\ UNCHANGED <<deep, acc, friVars>>

DomainSize(len) ==
  LET sizes == {2^k : k \in 1 .. 30}
  IN CHOOSE n \in sizes : n >= len /\ \A m \in sizes : m >= len => n <= m

Padded(n) == [k \in 1 .. n |-> Coeff(quotient, k - 1)]

\* deep_ali_fri_prove.
QuotientAbsent ==
  /\ step = "quotient" /\ quotient = <<>>
  /\ step' = "absent"
  /\ UNCHANGED <<deep, weights, quotient, acc, tr, friVars>>

WireFri ==
  /\ step = "quotient" /\ quotient # <<>>
  /\ LET n == DomainSize(Len(quotient))
     IN FriCommit(Fft(Padded(n), PrimitiveRoot(n)), TwoAdicDomain(n), deep.nqueries, FALSE)
  /\ step' = "proving"
  /\ UNCHANGED <<deep, weights, quotient, acc, tr>>

ProveFri ==
  /\ step = "proving" /\ FriNext
  /\ UNCHANGED deepVars

\* deep_ali_fri_verify.
VerifyFri ==
  /\ step = "proving" /\ phase = "proved"
  /\ \E accept \in BOOLEAN :
       /\ Verified(accept)
       /\ step' = IF accept THEN "accepted" ELSE "rejected"
  /\ UNCHANGED <<deep, weights, quotient, acc, tr, friVars>>

-----------------------------------------------------------------------------
\* SoundnessAccumulator.

Fresh == [bits_consumed |-> 0, bits_remaining |-> Lambda, round |-> 0]

Consumed(a, bits) ==
  [bits_consumed |-> a.bits_consumed + bits, bits_remaining |-> a.bits_remaining - bits,
   round |-> a.round + 1]

\* Mutant of ConsumeAndBind: only the bits consumed are bound.
ConsumeAndBindBits(side, bits, then) ==
  /\ bits <= acc[side].bits_remaining
  /\ acc' = [acc EXCEPT ![side] = Consumed(@, bits)]
  /\ tr' = [tr EXCEPT ![side] = Append(@, acc'[side].bits_consumed) \o then]

\* A consume that fails changes neither the accumulator nor the transcript,
\* so it is no step.  The numbers are far below the order of BabyBear: they
\* are observed as they are, and after them what the caller observes next.
ConsumeAndBind(side, bits, then) ==
  /\ bits <= acc[side].bits_remaining
  /\ acc' = [acc EXCEPT ![side] = Consumed(@, bits)]
  /\ tr' = [tr EXCEPT ![side] =
              @ \o <<acc'[side].round, acc'[side].bits_consumed, acc'[side].bits_remaining>> \o then]

Consume(side, bits) ==
  /\ step = "accounting" /\ Len(tr[side]) < 3 * MaxConsumes
  /\ ConsumeAndBind(side, bits, <<>>)
  /\ UNCHANGED <<deep, step, weights, quotient, friVars>>

\* Either side may lose its accumulator and go on with a new one.
Reset(side) ==
  /\ step = "accounting" /\ acc[side] # Fresh
  /\ acc' = [acc EXCEPT ![side] = Fresh]
  /\ UNCHANGED <<deep, step, weights, quotient, tr, friVars>>

-----------------------------------------------------------------------------
\* The batch verifier, over the integers 0 .. height-1 as the domain.

EvaluateColumn(trace, c, z) == EvaluateCoeffs(InterpolateLagrangeNaive(Column(trace, c)), z)

\* Mutant of EvaluateShifted: the shift is multiplicative.
EvaluateShiftedTimes(trace, c, z, shift) == EvaluateColumn(trace, c, Times(z, Power(Generator, shift)))

EvaluateShifted(trace, c, z, shift) == EvaluateColumn(trace, c, Plus(z, shift))

\* evaluate_air_constraint of a link whose columns are in bounds.
EvaluateAirConstraint(trace, link) ==
  LET evals == [i \in DOMAIN link.columns |->
                  EvaluateShifted(trace, link.columns[i], link.deep_point, link.shifts[i])]
      value == IF link.numerator = <<>> THEN Total(evals)
               ELSE EvaluateCoeffs(link.numerator, link.deep_point)
  IN Times(value, Inv(link.denominator))

LinkResult(request, link) ==
  IF \E i \in DOMAIN link.columns : link.columns[i] >= request.num_columns THEN "column"
  ELSE IF link.denominator = 0 THEN "point"
  ELSE IF EvaluateAirConstraint(request.trace, link) # 0 THEN "violated"
  ELSE "ok"

BitsPerBatch(n) == (Lambda \div (IF n = 0 THEN 1 ELSE n)) * n

\* The values of the responses, as far as the columns are in bounds.
Responses(request) ==
  LET qs == request.queries
      bad == {q \in DOMAIN qs : OutOfBounds(request, q)}
      upTo == IF bad = {} THEN Len(qs) ELSE (CHOOSE q \in bad : \A o \in bad : q <= o) - 1
  IN [q \in 1 .. upTo |-> qs[q].value]

\* verify_deep_batch: the budget first, then the queries, the links, and
\* the gate last.
VerifyDeepBatch(permits) ==
  /\ step = "batch"
  /\ LET qs == deep.queries
         good == \A q \in DOMAIN qs : ~OutOfBounds(deep, q)
         bad == {l \in DOMAIN deep.links : LinkResult(deep, deep.links[l]) # "ok"}
         bits == BitsPerBatch(Len(qs))
     IN IF bits > acc["verifier"].bits_remaining
        THEN step' = "depleted" /\ UNCHANGED <<acc, tr>>
        ELSE /\ ConsumeAndBind("verifier", bits, Responses(deep))
             /\ step' = IF ~good THEN "column"
                        ELSE IF bad # {}
                        THEN LinkResult(deep, deep.links[CHOOSE l \in bad : \A m \in bad : l <= m])
                        ELSE IF permits THEN "batch_ok" ELSE "owsl_halt"
  /\ UNCHANGED <<deep, weights, quotient, friVars>>

\* The caller goes on with the same accumulator.
NextBatch ==
  /\ step = "batch_ok" /\ acc["verifier"].round < MaxConsumes
  /\ step' = "batch"
  /\ UNCHANGED <<deep, weights, quotient, acc, tr, friVars>>

DeepNext ==
  \/ GateDenies \/ ComputeDeepQuotient \/ QuotientAbsent
  \/ WireFri \/ ProveFri \/ VerifyFri \/ NextBatch
  \/ \E side \in Sides, bits \in Bits : Consume(side, bits)
  \/ \E side \in Sides : Reset(side)
  \/ \E permits \in BOOLEAN : VerifyDeepBatch(permits)

-----------------------------------------------------------------------------
\* The value at x of the polynomial that takes the given values at the
\* given points, by Lagrange's formula: the reference for what the
\* interpolations compute.
Lagrange(points, values, x) ==
  Total([i \in DOMAIN points |->
    LET factor(j) == IF j = i THEN 1
                     ELSE Times(Minus(x, points[j]), Inv(Minus(points[i], points[j])))
    IN Times(values[i], Product([j \in DOMAIN points |-> factor(j)]))])

\* Both interpolations are that polynomial: over the powers of the root of
\* unity as the live path has it, over 0 .. n-1 as the dormant one has it
\* (deep_ali.rs keeps the second as an oracle for the first).
TransformsMeet ==
  step = "requested" /\ GoodHeight(deep.trace) =>
    \A c \in 0 .. (Len(deep.trace[1]) - 1), x \in Elements :
      LET t == Column(deep.trace, c)
          n == Len(t)
      IN /\ EvaluateCoeffs(InterpolateSubgroup(t), x) = Lagrange(TwoAdicDomain(n), t, x)
         /\ EvaluateColumn(deep.trace, c, x) = Lagrange([i \in 1 .. n |-> i - 1], t, x)

\* A rule over a column, such as t(1-t) = 0, holds in every row exactly if
\* the vanishing polynomial divides it; the quotient times it, with the
\* remainder, is the rule again, and long division finds the same quotient.
RuleVanishesOnRows ==
  step = "requested" /\ GoodHeight(deep.trace) =>
    \A c \in 0 .. (Len(deep.trace[1]) - 1) :
      LET t == Column(deep.trace, c)
          n == Len(t)
          p == InterpolateSubgroup(t)
          rule == PolyTimes(p, [k \in 1 .. n |-> Minus(IF k = 1 THEN 1 ELSE 0, p[k])])
          divided == DivideByVanishing(rule, n)
          product == PolyTimes(divided.quotient, VanishingPoly(n))
      IN /\ VanishesOnDomain(rule, n) <=> \A r \in 1 .. n : t[r] \in {0, 1}
         /\ \A k \in 0 .. (2 * n) :
              Coeff(rule, k) = Plus(Coeff(product, k), Coeff(divided.remainder, k))
         /\ SamePoly(BuildQuotient(rule, n), divided.quotient)

\* What the code computes on vectors is what it is named for on polynomials:
\* folds, transforms, interpolations and divisions.
PolynomialsMeet == FoldHalvesPolynomial /\ TransformsMeet /\ RuleVanishesOnRows

\* The combined quotient is what the queries say it is: off the queried
\* points, at every point of the trace domain, the weighted sum of
\* (t(x) - t(z)) / (x - z), with a degree that leaves no other such
\* polynomial when no queried point is in the domain.
QuotientAnswersQueries ==
  step = "quotient" /\ deep.queries # <<>> =>
    LET qs == deep.queries
        n == Len(deep.trace)
        dom == TwoAdicDomain(n)
    IN /\ Len(quotient) < n
       /\ \A i \in 1 .. n :
            (\A q \in DOMAIN qs : qs[q].point # dom[i]) =>
              EvaluateCoeffs(quotient, dom[i]) =
                Total([q \in DOMAIN qs |->
                  LET t == Column(deep.trace, qs[q].column)
                  IN Times(weights[q],
                           Times(Minus(t[i], Lagrange(dom, t, qs[q].point)),
                                 Inv(Minus(dom[i], qs[q].point))))])

\* What FRI commits to is that quotient over a domain whose halves are the
\* negatives of each other, and its verifier never turns an honest one down.
CommittedIsQuotient ==
  /\ step # "rejected"
  /\ step = "proving" /\ betas = <<>> =>
       LET half == Len(domain) \div 2
       IN /\ \A i \in DOMAIN domain : layers[1][i] = EvaluateCoeffs(quotient, domain[i])
          /\ \A i \in 1 .. half : domain[i + half] = Minus(0, domain[i])
          /\ Len(domain) >= Len(quotient)

\* From the queries to the commitment it is one polynomial, of low degree.
DeepQuotientBinds == QuotientAnswersQueries /\ CommittedIsQuotient

\* What one side has bound to its transcript tells its accumulator: two
\* sides that have both consumed and whose transcripts are equal have equal
\* accumulators, whatever either has lost in between.
AccumulatorBinds ==
  (\A side \in Sides : acc[side].round > 0) /\ tr["prover"] = tr["verifier"] =>
    acc["prover"] = acc["verifier"]

\* Bits are neither made nor lost, and never overdrawn.
BudgetIsKept ==
  \A side \in Sides :
    /\ acc[side].bits_consumed + acc[side].bits_remaining = Lambda
    /\ acc[side].bits_remaining >= 0

\* The soundness account is exact, and both sides know it.
AccountIsKept == AccumulatorBinds /\ BudgetIsKept

\* Whether every cell a link is about is a row of the trace: its point is a
\* row, and so is the row its shift leads to.
OnRows(trace, link) ==
  /\ link.numerator = <<>>
  /\ \A i \in DOMAIN link.columns : link.deep_point + link.shifts[i] < Len(trace)

\* The batch verifier's verdict on links between rows is about the cells k
\* rows later: it passes them exactly if every sum is zero.
BatchVerdict ==
  /\ step \in {"batch_ok", "violated"}
  /\ (\A l \in DOMAIN deep.links : OnRows(deep.trace, deep.links[l]))
  =>
    (step # "violated" <=>
      \A l \in DOMAIN deep.links :
        LET link == deep.links[l]
        IN Total([i \in DOMAIN link.columns |->
             deep.trace[link.deep_point + link.shifts[i] + 1][link.columns[i] + 1]]) = 0)
=============================================================================
