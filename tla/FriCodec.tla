------------------------------ MODULE FriCodec ------------------------------
(***************************************************************************)
(* tscp-fri-proof-serialization-v1 (crates/tscp-verifier/src/              *)
(* oracle_bridge.rs): a proof as words, and the decoder that must reject   *)
(* everything that is no proof.  A word is one number of the format,       *)
(* whatever its width in bytes; the magic is a word, and so is a digest,   *)
(* whose eight elements the models take for one number.                    *)
(***************************************************************************)
EXTENDS Field, SequencesExt

FRI_PROOF_MAGIC == 8001
FS_TRANSCRIPT_PROXY_MAGIC == 8002
FRI_PROOF_FORMAT_VERSION == 1

-----------------------------------------------------------------------------
\* The encoder.

Counted(items) == <<Len(items)>> \o FlattenSeq(items)

EncodeDigests(digests) == <<Len(digests)>> \o digests

EncodeCommitmentRoots(pf) ==
  <<pf.final_value>> \o Counted([r \in DOMAIN pf.roots |-> EncodeDigests(pf.roots[r])])

EncodeOpening(o) == <<o.leaf_index, o.leaf_value>> \o EncodeDigests(o.proof)

EncodeRound(round) ==
  EncodeOpening(round.opening_x) \o EncodeOpening(round.opening_neg_x)
    \o EncodeOpening(round.opening_folded)

EncodeFriProof(pf) ==
  <<FRI_PROOF_MAGIC, FRI_PROOF_FORMAT_VERSION>>
    \o EncodeCommitmentRoots(pf)
    \o <<Len(pf.query_indices)>> \o pf.query_indices
    \o FlattenSeq([q \in DOMAIN pf.query_proofs |->
                     Counted([r \in DOMAIN pf.query_proofs[q] |-> EncodeRound(pf.query_proofs[q][r])])])

EncodeTranscriptProxy(pf) ==
  <<FS_TRANSCRIPT_PROXY_MAGIC, FRI_PROOF_FORMAT_VERSION>> \o EncodeCommitmentRoots(pf)

-----------------------------------------------------------------------------
\* The decoder.  A parser takes the words that are left and yields a value
\* and the rest, or fails; a failure is final.

Fail == [ok |-> FALSE]
Done(value, rest) == [ok |-> TRUE, value |-> value, rest |-> rest]

\* Reader.take: no word is read beyond the end.
Take(words, Allowed(_)) ==
  IF words # <<>> /\ Allowed(Head(words)) THEN Done(Head(words), Tail(words)) ELSE Fail

ReadNat(words) == Take(words, LAMBDA w : TRUE)
ReadElem(words) == Take(words, LAMBDA w : w < P)
ReadDigest(words) == Take(words, LAMBDA w : TRUE)

\* Reader.read_bounded_len: a count that cannot fit fails at once.
ReadBoundedLen(words, Allowed(_)) ==
  Take(words, LAMBDA w : w <= Len(words) - 1 /\ Allowed(w))

Then(parsed, Next(_, _)) == IF parsed.ok THEN Next(parsed.value, parsed.rest) ELSE Fail

Many(n, Parse(_), words) ==
  LET upTo[k \in 0 .. n] ==
        IF k = 0 THEN Done(<<>>, words)
        ELSE Then(upTo[k - 1], LAMBDA items, rest :
               Then(Parse(rest), LAMBDA item, rest2 : Done(Append(items, item), rest2)))
  IN upTo[n]

ReadDigests(words, Allowed(_)) ==
  Then(ReadBoundedLen(words, Allowed), LAMBDA n, rest : Many(n, ReadDigest, rest))

\* A root is a cap of a power of two of digests.
ReadRoot(words) == ReadDigests(words, IsPowerOfTwo)

ReadOpening(words) ==
  Then(ReadNat(words), LAMBDA index, r1 :
  Then(ReadElem(r1), LAMBDA value, r2 :
  Then(ReadDigests(r2, LAMBDA n : TRUE), LAMBDA path, r3 :
  Done([leaf_index |-> index, leaf_value |-> value, proof |-> path], r3))))

ReadRound(words) ==
  Then(ReadOpening(words), LAMBDA x, r1 :
  Then(ReadOpening(r1), LAMBDA neg, r2 :
  Then(ReadOpening(r2), LAMBDA folded, r3 :
  Done([opening_x |-> x, opening_neg_x |-> neg, opening_folded |-> folded], r3))))

\* Mutant of DecodeFriProof: what follows the proof is ignored.
DecodeFriProofTrailing(words) ==
  Then(Take(words, LAMBDA w : w = FRI_PROOF_MAGIC), LAMBDA m, r1 :
  Then(Take(r1, LAMBDA w : w = FRI_PROOF_FORMAT_VERSION), LAMBDA v, r2 :
  Then(ReadElem(r2), LAMBDA final, r3 :
  Then(ReadBoundedLen(r3, LAMBDA n : n >= 2), LAMBDA nroots, r4 :
  Then(Many(nroots, ReadRoot, r4), LAMBDA roots, r5 :
  Then(ReadBoundedLen(r5, LAMBDA n : n # 0), LAMBDA nqueries, r6 :
  Then(Many(nqueries, ReadNat, r6), LAMBDA indices, r7 :
  Then(Many(nqueries,
            LAMBDA ws : Then(ReadBoundedLen(ws, LAMBDA n : n = nroots - 1),
                             LAMBDA n, rest : Many(n, ReadRound, rest)), r7),
       LAMBDA queries, r8 :
  Done([roots |-> roots, final_value |-> final, query_indices |-> indices,
        query_proofs |-> queries], <<>>)))))))))

DecodeFriProof(words) ==
  Then(Take(words, LAMBDA w : w = FRI_PROOF_MAGIC), LAMBDA m, r1 :
  Then(Take(r1, LAMBDA w : w = FRI_PROOF_FORMAT_VERSION), LAMBDA v, r2 :
  Then(ReadElem(r2), LAMBDA final, r3 :
  Then(ReadBoundedLen(r3, LAMBDA n : n >= 2), LAMBDA nroots, r4 :
  Then(Many(nroots, ReadRoot, r4), LAMBDA roots, r5 :
  Then(ReadBoundedLen(r5, LAMBDA n : n # 0), LAMBDA nqueries, r6 :
  Then(Many(nqueries, ReadNat, r6), LAMBDA indices, r7 :
  Then(Many(nqueries,
            LAMBDA ws : Then(ReadBoundedLen(ws, LAMBDA n : n = nroots - 1),
                             LAMBDA n, rest : Many(n, ReadRound, rest)), r7),
       LAMBDA queries, r8 :
  IF r8 = <<>> THEN Done([roots |-> roots, final_value |-> final, query_indices |-> indices,
                          query_proofs |-> queries], <<>>)
  ELSE Fail))))))))
=============================================================================
