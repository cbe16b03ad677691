----------------------------- MODULE Telemetry -----------------------------
(***************************************************************************)
(* The telemetry verifier (crates/tscp-verifier: oracle_bridge.rs,         *)
(* emitter.rs, timing.rs, provenance.rs): FRI proved and verified under a  *)
(* PhaseTimer, the artifact made of the measurements, the commit of the    *)
(* repository read while git moves it, and the proof's words read again by *)
(* somebody else after they may have been damaged.                         *)
(***************************************************************************)
EXTENDS Fri, FriCodec

CONSTANTS
  MaxClock,      \* bound: the clock stops there
  MaxCommits     \* bound: commits of the repository

\* A detached HEAD is a commit: there is one at least.
ASSUME TelemetryAssumption == MaxClock \in Nat /\ MaxCommits \in Nat \ {0}

VARIABLES
  job,           \* what prove_and_emit was called with: evals, domain, queries
  stage,         \* how far it is
  clock,         \* the time
  timer,         \* the PhaseTimer of the prover
  vtimer,        \* the PhaseTimer of the verifier
  words,         \* proof_bytes
  proxy,         \* transcript_bytes
  verdict,       \* verification_ok
  git,           \* the repository: HEAD, the branch's loose ref, packed-refs
  read,          \* what repo_commit has read
  tips,          \* the commits checked out since it began
  artifact,      \* the PulseArtifact
  received,      \* proof_bytes as they reached a reader
  reread         \* what the reader made of them

runVars == <<job, timer, vtimer, words, proxy, verdict>>
readerVars == <<received, reread>>
telemetryVars == <<runVars, stage, clock, git, read, tips, artifact, readerVars>>

-----------------------------------------------------------------------------
\* PhaseTimer: a stack of the phases that run, and what the others took.

NewTimer == [active |-> <<>>, phases |-> <<>>]

Started(t, name) == [t EXCEPT !.active = Append(@, [name |-> name, at |-> clock])]

Record(phases, name, ms) ==
  [p \in DOMAIN phases \cup {name} |-> IF p = name THEN ms ELSE phases[p]]

\* Mutant of Stopped: the phase that started first is stopped.
StoppedFirst(t) ==
  LET first == Head(t.active)
  IN [active |-> Tail(t.active), phases |-> Record(t.phases, first.name, clock - first.at)]

Stopped(t) ==
  LET last == t.active[Len(t.active)]
  IN [active |-> SubSeq(t.active, 1, Len(t.active) - 1),
      phases |-> Record(t.phases, last.name, clock - last.at)]

\* The other timer's phases overwrite.
Merge(t, other) ==
  [t EXCEPT !.phases = [p \in DOMAIN @ \cup DOMAIN other.phases |->
                          IF p \in DOMAIN other.phases THEN other.phases[p] ELSE @[p]]]

Get(t, name) == IF name \in DOMAIN t.phases THEN t.phases[name] ELSE -1
GetOrZero(t, name) == IF name \in DOMAIN t.phases THEN t.phases[name] ELSE 0

\* Time is modelled while anything is timed.
Tick ==
  /\ stage \in {"setup", "proving", "serialized", "verifying"}
  /\ clock < MaxClock
  /\ clock' = clock + 1
  /\ UNCHANGED <<runVars, stage, git, read, tips, artifact, readerVars, friVars>>

-----------------------------------------------------------------------------
\* prove_instrumented_internal

BadInput ==
  \/ job.evals = <<>>
  \/ ~IsPowerOfTwo(Len(job.evals))
  \/ Len(job.domain) # Len(job.evals)

Refuse ==
  /\ stage = "requested" /\ BadInput
  /\ stage' = "done"
  /\ UNCHANGED <<runVars, clock, git, read, tips, artifact, readerVars, friVars>>

BeginProving ==
  /\ stage = "requested" /\ ~BadInput
  /\ stage' = "setup"
  /\ timer' = Started(Started(NewTimer, "proving_total"), "transcript_generation")
  /\ UNCHANGED <<job, vtimer, words, proxy, verdict, clock, git, read, tips, artifact, readerVars, friVars>>

BeginFri ==
  /\ stage = "setup"
  /\ stage' = "proving"
  /\ timer' = Started(Stopped(timer), "fri")
  /\ FriCommit(job.evals, job.domain, job.queries, FALSE)
  /\ UNCHANGED <<job, vtimer, words, proxy, verdict, clock, git, read, tips, artifact, readerVars>>

RunFri ==
  /\ stage = "proving" /\ FriNext
  /\ UNCHANGED telemetryVars

Serialize ==
  /\ stage = "proving" /\ phase = "proved"
  /\ stage' = "serialized"
  /\ timer' = Stopped(Stopped(timer))
  /\ words' = EncodeFriProof(proof)
  /\ proxy' = EncodeTranscriptProxy(proof)
  /\ UNCHANGED <<job, vtimer, verdict, clock, git, read, tips, artifact, readerVars, friVars>>

\* verify_instrumented_with_proof
BeginVerify ==
  /\ stage = "serialized"
  /\ stage' = "verifying"
  /\ vtimer' = Started(NewTimer, "verification")
  /\ UNCHANGED <<job, timer, words, proxy, verdict, clock, git, read, tips, artifact, readerVars, friVars>>

FinishVerify ==
  /\ stage = "verifying"
  /\ stage' = "verified"
  /\ vtimer' = Stopped(vtimer)
  /\ verdict' \in BOOLEAN /\ Verified(verdict')
  /\ UNCHANGED <<job, timer, words, proxy, clock, git, read, tips, artifact, readerVars, friVars>>

-----------------------------------------------------------------------------
\* provenance.rs: repo_commit, and git beside it.  0 is no commit.

Tip == IF git.head # 0 THEN git.head ELSE IF git.loose # 0 THEN git.loose ELSE git.packed

\* The states of a repository nobody has touched for a while.
Repositories ==
  {g \in [head : 0 .. 1, loose : 0 .. MaxCommits, packed : 0 .. MaxCommits] :
     /\ g.head # 0 => g.loose = 0 /\ g.packed = 0
     /\ g.loose # 0 => g.packed < g.loose}

NoGit == [head |-> 0, loose |-> 0, packed |-> 0]

\* A commit is written to HEAD if that is detached, else to the loose ref.
GitCommit ==
  /\ stage \in {"head", "loose"}
  /\ Tip < MaxCommits
  /\ git' = IF git.head # 0 THEN [git EXCEPT !.head = Tip + 1] ELSE [git EXCEPT !.loose = Tip + 1]
  /\ tips' = tips \cup {Tip + 1}
  /\ UNCHANGED <<runVars, stage, clock, read, artifact, readerVars, friVars>>

\* git pack-refs writes the packed ref before it removes the loose one.
PackRefs ==
  /\ stage \in {"head", "loose"} /\ git.loose # 0
  /\ \/ git.packed # git.loose /\ git' = [git EXCEPT !.packed = git.loose]
     \/ git.packed = git.loose /\ git' = [git EXCEPT !.loose = 0]
  /\ UNCHANGED <<runVars, stage, clock, read, tips, artifact, readerVars, friVars>>

\* A detached HEAD is the commit itself.
ReadHead ==
  /\ stage = "verified"
  /\ stage' = IF git.head # 0 THEN "ready" ELSE "head"
  /\ read' = git.head
  /\ tips' = {Tip}
  /\ UNCHANGED <<runVars, clock, git, artifact, readerVars, friVars>>

\* Mutant of ReadRef: packed-refs is read first.
ReadRefPacked ==
  /\ stage = "head"
  /\ read' = git.packed
  /\ stage' = IF git.packed # 0 THEN "ready" ELSE "loose"
  /\ UNCHANGED <<runVars, clock, git, tips, artifact, readerVars, friVars>>

ReadRef ==
  /\ stage = "head"
  /\ read' = git.loose
  /\ stage' = IF git.loose # 0 THEN "ready" ELSE "loose"
  /\ UNCHANGED <<runVars, clock, git, tips, artifact, readerVars, friVars>>

ReadPackedRefs ==
  /\ stage = "loose"
  /\ read' = git.packed
  /\ stage' = "ready"
  /\ UNCHANGED <<runVars, clock, git, tips, artifact, readerVars, friVars>>

-----------------------------------------------------------------------------
\* emit, from the digest of the binary on.

NoArtifact == [status |-> "none"]

\* Without the digest of the running binary there is no artifact.
EmitFails ==
  /\ stage = "ready"
  /\ stage' = "done"
  /\ UNCHANGED <<runVars, clock, git, read, tips, artifact, readerVars, friVars>>

Measured(merged) ==
  LET proving == GetOrZero(merged, "proving_total")
      verification == GetOrZero(merged, "verification")
  IN [status |-> "pass", rounds |-> Len(proof.roots),
      proving |-> proving, verification |-> verification, total |-> proving + verification,
      transcript |-> GetOrZero(merged, "transcript_generation"),
      sumcheck |-> GetOrZero(merged, "sumcheck"), fri |-> Get(merged, "fri"),
      proof_digest |-> words, transcript_digest |-> proxy, repo_commit |-> read]

\* A digest is what it is of.  Of a proof that was not verified nothing
\* measured is reported.
EmitArtifact ==
  /\ stage = "ready"
  /\ stage' = "emitted"
  /\ LET all == Measured(Merge(timer, vtimer))
     IN artifact' = IF verdict THEN all
                    ELSE [all EXCEPT !.status = "fail", !.rounds = 1, !.proving = 0,
                                     !.verification = 0, !.total = 0, !.transcript = 0,
                                     !.sumcheck = 0, !.fri = -1]
  /\ UNCHANGED <<runVars, clock, git, read, tips, readerVars, friVars>>

-----------------------------------------------------------------------------
\* Somebody else reads proof_bytes: as they are, or with one word altered,
\* lost or added.  Nothing else of the run is left then.

Damaged(ws) ==
  {ws, Append(ws, 0), <<0>> \o ws}
    \cup {[ws EXCEPT ![i] = w] : i \in DOMAIN ws, w \in {0, 1}}
    \cup {[ws EXCEPT ![i] = @ + 1] : i \in DOMAIN ws}
    \cup {SubSeq(ws, 1, i - 1) \o SubSeq(ws, i + 1, Len(ws)) : i \in DOMAIN ws}

Deliver ==
  /\ stage = "emitted"
  /\ stage' = "delivered"
  /\ received' \in Damaged(words)
  /\ clock' = 0 /\ timer' = NewTimer /\ vtimer' = NewTimer
  /\ git' = NoGit /\ read' = 0 /\ tips' = {} /\ artifact' = NoArtifact
  /\ UNCHANGED <<job, words, proxy, verdict, reread, friVars>>

\* decode_fri_proof_v1, then fri_verify with a fresh challenger.
Reread ==
  /\ stage = "delivered"
  /\ stage' = "done"
  /\ LET decoded == DecodeFriProof(received)
     IN IF ~decoded.ok THEN reread' = [outcome |-> "undecodable", proof |-> NoProof]
        ELSE \E draws \in Draws(decoded.value.roots, job.queries) :
               reread' = [outcome |-> IF FriVerify(domain, decoded.value, job.queries, draws)
                                      THEN "accepted" ELSE "rejected",
                          proof |-> decoded.value]
  /\ UNCHANGED <<runVars, clock, git, read, tips, artifact, received, friVars>>

TelemetryNext ==
  \/ Tick \/ Refuse \/ BeginProving \/ BeginFri \/ RunFri \/ Serialize
  \/ BeginVerify \/ FinishVerify
  \/ GitCommit \/ PackRefs \/ ReadHead \/ ReadRef \/ ReadPackedRefs
  \/ EmitFails \/ EmitArtifact \/ Deliver \/ Reread

-----------------------------------------------------------------------------
\* The measurements of a verified run fit into each other: the phases of
\* the prover into the time it took, and that beside the verification,
\* which is outside it, into the time that has passed.
PhasesNest ==
  artifact.status = "pass" =>
    /\ artifact.fri >= 0
    /\ artifact.transcript + artifact.fri <= artifact.proving
    /\ artifact.total <= clock

\* An artifact tells the verdict and nothing more: it passes exactly if the
\* evaluations were folded at least once, then with a challenge round per
\* commitment; else it reports no measurement at all.
ArtifactTellsVerdict ==
  artifact.status # "none" =>
    IF Len(job.evals) >= 2
    THEN artifact.status = "pass" /\ artifact.rounds = Log2(Len(job.evals)) + 1
    ELSE /\ artifact.status = "fail" /\ artifact.rounds = 1 /\ artifact.fri = -1
         /\ artifact.proving + artifact.verification + artifact.total
              + artifact.transcript + artifact.sumcheck = 0

\* An artifact is true: of the verdict, and of the time when there is one.
ArtifactTellsRun == PhasesNest /\ ArtifactTellsVerdict

\* The words that are digested say the whole proof: they decode to it, if it
\* has a fold and a query, and otherwise to nothing.
WordsTellProof ==
  words # <<>> =>
    DecodeFriProof(words) =
      IF betas # <<>> /\ nqueries > 0 THEN Done(proof, <<>>) ELSE Fail

\* A proof has one encoding: what decodes at all encodes to the same words.
EncodingIsCanonical ==
  reread.outcome \in {"accepted", "rejected"} => EncodeFriProof(reread.proof) = received

\* No single damage makes a reader accept another proof: the commitments,
\* the last value, the places and the values are the prover's, and every
\* opening is one of the committed layers.
DamageIsSeen ==
  reread.outcome = "accepted" =>
    LET pf == reread.proof
        Opens(o, mine, layer) ==
          /\ o.leaf_value = mine.leaf_value /\ o.proof = mine.proof
          /\ o.leaf_index + 1 \in DOMAIN layer /\ layer[o.leaf_index + 1] = o.leaf_value
    IN /\ pf.roots = proof.roots /\ pf.final_value = proof.final_value
       /\ pf.query_indices = proof.query_indices
       /\ \A q \in DOMAIN indices, r \in DOMAIN betas :
            LET round == pf.query_proofs[q][r]
                mine == proof.query_proofs[q][r]
            IN /\ Opens(round.opening_x, mine.opening_x, layers[r])
               /\ Opens(round.opening_neg_x, mine.opening_neg_x, layers[r])
               /\ Opens(round.opening_folded, mine.opening_folded, layers[r + 1])

\* Encoding and decoding are exact: one text for a proof, and a damaged text
\* is no other proof.
CodecIsExact == WordsTellProof /\ EncodingIsCanonical /\ DamageIsSeen

\* The commit in an artifact was checked out at some moment of the reading,
\* whatever git committed or packed meanwhile; it is unknown only if there
\* was none.
RepoCommitWasTip ==
  artifact.status # "none" => artifact.repo_commit \in tips
=============================================================================
