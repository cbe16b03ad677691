--------------------------------- MODULE Fri ---------------------------------
(***************************************************************************)
(* FRI (crates/oracle-layer: fri.rs, fri_protocol.rs, fri_query.rs,        *)
(* merkle.rs): a vector of evaluations is committed to, folded in half     *)
(* under a challenge until one value is left, with a commitment per round, *)
(* and opened at sampled places; a verifier draws the same challenges from *)
(* the roots alone and checks every opening.                               *)
(*                                                                         *)
(* Hashes are injective: the digest of a subtree is the number its leaves  *)
(* spell in base P behind a leading 1.  A prover is honest, or one with a  *)
(* value of each fold, or the last value, that may be anything.            *)
(***************************************************************************)
EXTENDS Polynomials

VARIABLES
  phase,         \* "idle", "committing" or "proved"
  faulty,        \* whether the prover is
  domain,        \* the evaluation domain
  layers,        \* the leaves of each round's tree
  betas,         \* the challenges of the folds
  nqueries,      \* num_queries
  indices,       \* the places sampled
  challenger,    \* the FRI transcript
  fs,            \* samples drawn so far
  proof          \* the FriProof

friVars == <<phase, faulty, domain, layers, betas, nqueries, indices, challenger, fs, proof>>

-----------------------------------------------------------------------------
\* fri.rs

\* The even part, and beta times the odd part, of the polynomial behind the
\* evaluations at x and -x.
FoldStep(evals, dom, beta) ==
  LET half == Len(evals) \div 2
  IN [i \in 1 .. half |->
        Plus(Times(Plus(evals[i], evals[i + half]), Inv(2)),
             Times(beta, Times(Times(Minus(evals[i], evals[i + half]), Inv(2)), Inv(dom[i]))))]

FoldDomain(dom) == [i \in 1 .. (Len(dom) \div 2) |-> Times(dom[i], dom[i])]

\* The domain of each round; the first is the original one.
Domains(dom, rounds) ==
  LET d[r \in 0 .. rounds] == IF r = 0 THEN dom ELSE FoldDomain(d[r - 1])
  IN [r \in 1 .. (rounds + 1) |-> d[r - 1]]

-----------------------------------------------------------------------------
\* merkle.rs: a tree is its leaves, a commitment a cap of one digest.

Digest(leaves) ==
  LET d[k \in 0 .. Len(leaves)] == IF k = 0 THEN 1 ELSE P * d[k - 1] + leaves[k]
  IN d[Len(leaves)]

RootOf(leaves) == <<Digest(leaves)>>

\* The subtree of 2^h leaves beside the one that holds an index.
Sibling(leaves, index, h) ==
  LET block == index \div 2^h
      other == IF block % 2 = 0 THEN block + 1 ELSE block - 1
  IN SubSeq(leaves, other * 2^h + 1, (other + 1) * 2^h)

Opening(leaves, index) ==
  [leaf_index |-> index, leaf_value |-> leaves[index + 1],
   proof |-> [h \in 1 .. Log2(Len(leaves)) |-> Digest(Sibling(leaves, index, h - 1))]]

\* The digest of two subtrees of 2^h leaves; 0 when one is no such digest.
\* The least of their digests is that of zeros, and all are below its double.
Compress(left, right, h) ==
  LET width == Digest([i \in 1 .. 2^h |-> 0])
  IN IF left \in width .. (2 * width - 1) /\ right \in width .. (2 * width - 1)
     THEN left * width + (right - width)
     ELSE 0

VerifyOpening(commitment, count, opening) ==
  LET height == Log2(count)
      up[h \in 0 .. height] ==
        IF h = 0 THEN Digest(<<opening.leaf_value>>)
        ELSE IF (opening.leaf_index \div 2^(h - 1)) % 2 = 0
             THEN Compress(up[h - 1], opening.proof[h], h - 1)
             ELSE Compress(opening.proof[h], up[h - 1], h - 1)
  IN /\ opening.leaf_index < count
     /\ Len(opening.proof) = height
     /\ commitment = <<up[height]>>

-----------------------------------------------------------------------------
\* fri_query.rs

QueryRound(current, next, index) ==
  LET half == Len(current) \div 2
      idx == index % half
  IN [opening_x |-> Opening(current, idx),
      opening_neg_x |-> Opening(current, idx + half),
      opening_folded |-> Opening(next, idx)]

VerifyQueryRound(root, next, count, count2, x, beta, query) ==
  /\ VerifyOpening(root, count, query.opening_x)
  /\ VerifyOpening(root, count, query.opening_neg_x)
  /\ VerifyOpening(next, count2, query.opening_folded)
  /\ LET p == query.opening_x.leaf_value
         m == query.opening_neg_x.leaf_value
     IN query.opening_folded.leaf_value =
          Plus(Times(Plus(p, m), Inv(2)),
               Times(beta, Times(Times(Minus(p, m), Inv(2)), Inv(x))))

\* The transcripts a verifier samples from: after the first root one per
\* fold, with the next root in between, then one per query.
Transcripts(roots, queries) ==
  LET rounds == Len(roots) - 1
      t[k \in 1 .. (rounds + queries)] ==
        IF k = 1 THEN roots[1]
        ELSE IF k <= rounds + 1 THEN Sampled(t[k - 1]) \o roots[k]
             ELSE Sampled(t[k - 1])
  IN t

\* The values it may draw there.
Draws(roots, queries) ==
  LET t == Transcripts(roots, queries)
      at(k) == Samples(fs, t[k], Elements)
  IN {d \in [DOMAIN t -> UNION {at(k) : k \in DOMAIN t}] : \A k \in DOMAIN t : d[k] \in at(k)}

\* Mutant of FriVerify: the last value is not compared.
FriVerifyNoFinal(dom, pf, queries, draws) ==
  LET rounds == Len(pf.roots) - 1
      doms == Domains(dom, rounds)
  IN /\ rounds > 0
     /\ Len(pf.query_indices) = queries /\ Len(pf.query_proofs) = queries
     /\ \A q \in 1 .. queries :
          /\ pf.query_indices[q] = draws[rounds + q] % Len(dom)
          /\ Len(pf.query_proofs[q]) = rounds
          /\ \A r \in 1 .. rounds :
               VerifyQueryRound(pf.roots[r], pf.roots[r + 1], Len(doms[r]), Len(doms[r + 1]),
                                doms[r][(pf.query_indices[q] % (Len(doms[r]) \div 2)) + 1],
                                draws[r], pf.query_proofs[q][r])

\* fri_verify.  Without a round it rejects; without a query nothing is left
\* to check.
FriVerify(dom, pf, queries, draws) ==
  LET rounds == Len(pf.roots) - 1
      doms == Domains(dom, rounds)
  IN /\ rounds > 0
     /\ Len(pf.query_indices) = queries /\ Len(pf.query_proofs) = queries
     /\ \A q \in 1 .. queries :
          /\ pf.query_indices[q] = draws[rounds + q] % Len(dom)
          /\ Len(pf.query_proofs[q]) = rounds
          /\ \A r \in 1 .. rounds :
               VerifyQueryRound(pf.roots[r], pf.roots[r + 1], Len(doms[r]), Len(doms[r + 1]),
                                doms[r][(pf.query_indices[q] % (Len(doms[r]) \div 2)) + 1],
                                draws[r], pf.query_proofs[q][r])
          /\ pf.query_proofs[q][rounds].opening_folded.leaf_value = pf.final_value

-----------------------------------------------------------------------------
\* fri_protocol.rs: the commit phase computed again from the evaluations.

CommitLayers(evals, dom, challenges) ==
  LET doms == Domains(dom, Len(challenges))
      l[r \in 0 .. Len(challenges)] ==
        IF r = 0 THEN evals ELSE FoldStep(l[r - 1], doms[r], challenges[r])
  IN [r \in 1 .. (Len(challenges) + 1) |-> l[r - 1]]

VerifyCommitment(evals, dom, challenges, claimed) ==
  LET again == CommitLayers(evals, dom, challenges)
  IN /\ claimed.roots = [r \in DOMAIN again |-> RootOf(again[r])]
     /\ claimed.final_value = again[Len(again)][1]

VerifyCommitmentTranscript(evals, dom, claimed) ==
  \E challenges \in [1 .. Log2(Len(evals)) -> Elements] :
    LET again == CommitLayers(evals, dom, challenges)
    IN /\ VerifyCommitment(evals, dom, challenges, claimed)
       /\ challenges \in Draws([r \in DOMAIN again |-> RootOf(again[r])], 0)

-----------------------------------------------------------------------------
\* The prover.

NoProof == [roots |-> <<>>, final_value |-> 0, query_indices |-> <<>>, query_proofs |-> <<>>]

FriInit ==
  /\ phase = "idle" /\ faulty = FALSE /\ nqueries = 0
  /\ domain = <<>> /\ layers = <<>> /\ betas = <<>> /\ indices = <<>>
  /\ challenger = <<>> /\ fs = <<>> /\ proof = NoProof

Current == layers[Len(layers)]

FriCommit(evals, dom, queries, f) ==
  /\ phase = "idle"
  /\ phase' = "committing"
  /\ domain' = dom
  /\ layers' = <<evals>>
  /\ nqueries' = queries
  /\ faulty' = f
  /\ challenger' = RootOf(evals)
  /\ UNCHANGED <<betas, indices, fs, proof>>

\* A layer, and what it is with one value off.
OneOff(v) == {v} \cup {[v EXCEPT ![i] = e] : i \in DOMAIN v, e \in Elements}

\* Mutant of FriFold: the last fold is left out.
FriFoldEarly ==
  /\ phase = "committing" /\ Len(Current) > 2
  /\ \E beta \in Samples(fs, challenger, Elements) :
       \E next \in LET doms == Domains(domain, Len(betas))
                       true == FoldStep(Current, doms[Len(doms)], beta)
                   IN IF faulty THEN OneOff(true) ELSE {true} :
         /\ layers' = Append(layers, next)
         /\ betas' = Append(betas, beta)
         /\ fs' = Learn(fs, challenger, beta)
         /\ challenger' = Sampled(challenger) \o RootOf(next)
  /\ UNCHANGED <<phase, faulty, domain, nqueries, indices, proof>>

FriFold ==
  /\ phase = "committing" /\ Len(Current) > 1
  /\ \E beta \in Samples(fs, challenger, Elements) :
       \E next \in LET doms == Domains(domain, Len(betas))
                       true == FoldStep(Current, doms[Len(doms)], beta)
                   IN IF faulty THEN OneOff(true) ELSE {true} :
         /\ layers' = Append(layers, next)
         /\ betas' = Append(betas, beta)
         /\ fs' = Learn(fs, challenger, beta)
         /\ challenger' = Sampled(challenger) \o RootOf(next)
  /\ UNCHANGED <<phase, faulty, domain, nqueries, indices, proof>>

\* Mutant of FriQuery: the sample is not reduced to the domain.
FriQueryUnreduced ==
  /\ phase = "committing" /\ Len(Current) = 1 /\ Len(indices) < nqueries
  /\ \E raw \in Samples(fs, challenger, Elements) :
       /\ indices' = Append(indices, raw)
       /\ fs' = Learn(fs, challenger, raw)
  /\ challenger' = Sampled(challenger)
  /\ UNCHANGED <<phase, faulty, domain, layers, betas, nqueries, proof>>

FriQuery ==
  /\ phase = "committing" /\ Len(Current) = 1 /\ Len(indices) < nqueries
  /\ \E raw \in Samples(fs, challenger, Elements) :
       /\ indices' = Append(indices, raw % Len(layers[1]))
       /\ fs' = Learn(fs, challenger, raw)
  /\ challenger' = Sampled(challenger)
  /\ UNCHANGED <<phase, faulty, domain, layers, betas, nqueries, proof>>

FriFinish ==
  /\ phase = "committing" /\ Len(Current) = 1 /\ Len(indices) = nqueries
  /\ \E final \in IF faulty THEN Elements ELSE {Current[1]} :
       proof' = [roots |-> [r \in DOMAIN layers |-> RootOf(layers[r])],
                 final_value |-> final,
                 query_indices |-> indices,
                 query_proofs |->
                   [q \in DOMAIN indices |->
                      [r \in DOMAIN betas |-> QueryRound(layers[r], layers[r + 1], indices[q])]]]
  /\ phase' = "proved"
  /\ UNCHANGED <<faulty, domain, layers, betas, nqueries, indices, challenger, fs>>

FriNext == FriFold \/ FriQuery \/ FriFinish

Verified(accept) ==
  \E draws \in Draws(proof.roots, nqueries) : accept = FriVerify(domain, proof, nqueries, draws)

-----------------------------------------------------------------------------
\* Folding keeps the polynomial: the coefficients behind the layer a fold
\* has made are the even ones and beta times the odd ones of the layer
\* before it.
FoldHalvesPolynomial ==
  phase = "committing" /\ betas # <<>> /\ indices = <<>> /\ ~faulty =>
    LET r == Len(betas)
        doms == Domains(domain, r)
        p == Ifft(layers[r], doms[r][2])
        folded == [k \in 1 .. (Len(p) \div 2) |-> Plus(p[2 * k - 1], Times(betas[r], p[2 * k]))]
    IN \A i \in DOMAIN Current : Current[i] = EvaluateCoeffs(folded, doms[r + 1][i])

\* Whether the committed layers are what the queries make of them.
PathHolds(index) ==
  \A r \in DOMAIN betas :
    LET half == Len(layers[r]) \div 2
        i == (index % half) + 1
        doms == Domains(domain, r)
    IN layers[r + 1][i] = FoldStep(layers[r], doms[r], betas[r])[i]

\* Recomputing the commit phase, with the challenges or with a transcript,
\* accepts exactly the proofs in which every fold and the last value are
\* right: what the queries only sample.
RecommitDecides ==
  phase = "proved" =>
    LET right == /\ \A index \in 0 .. (Len(domain) - 1) : PathHolds(index)
                 /\ proof.final_value = Current[1]
    IN /\ VerifyCommitment(layers[1], domain, betas, proof) <=> right
       /\ VerifyCommitmentTranscript(layers[1], domain, proof) <=> right

\* The queries decide: a proof is accepted exactly if at least one fold was
\* made, every queried path folds as it should and, when anything is
\* queried, the last value is the one committed.  So an honest proof of two
\* or more values is always accepted, and a wrong fold is seen by a query
\* that meets it.
QueriesDecide ==
  phase = "proved" =>
    LET right == /\ betas # <<>>
                 /\ \A q \in DOMAIN indices : PathHolds(indices[q])
                 /\ indices # <<>> => proof.final_value = Current[1]
    IN \A draws \in Draws(proof.roots, nqueries) :
         FriVerify(domain, proof, nqueries, draws) <=> right

\* The verifier, who sees the roots alone, draws what the prover has drawn.
DrawsMeet ==
  phase = "proved" /\ betas # <<>> =>
    \A draws \in Draws(proof.roots, nqueries) :
      /\ \A r \in DOMAIN betas : draws[r] = betas[r]
      /\ \A q \in DOMAIN indices : draws[Len(betas) + q] % Len(domain) = indices[q]

\* Every verifier of a FRI proof, whether it recomputes the commit phase or
\* follows the queries under the transcript of its own, decides what it is to
\* decide.
VerdictsDecide == RecommitDecides /\ QueriesDecide /\ DrawsMeet
=============================================================================
