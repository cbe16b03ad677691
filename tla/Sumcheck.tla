------------------------------ MODULE Sumcheck ------------------------------
(***************************************************************************)
(* The sumcheck a request ends in, behind admission and gate: the part of  *)
(* prove_handler that validates the columns, folds them, proves the sum    *)
(* round by round, checks its own proof with a second transcript and seals *)
(* it (crates/prover-server/src/main.rs), the envelope a client opens      *)
(* (crates/tscp-protocol), and the library's round and verifier            *)
(* (crates/oracle-layer/src/sumcheck.rs) on the oracle of a constraint.    *)
(*                                                                         *)
(* The self-check is there to catch a prover that errs, so a job has a     *)
(* prover that is honest or one that may answer anything in any round.     *)
(***************************************************************************)
EXTENDS Mle, FiniteSets

CONSTANTS
  Requests,      \* ProofRequests: records of kind "columns"
  Traces,        \* jobs of the library: records of kind "trace"
  ClientVersions \* protocol versions clients implement

\* A column may have any length: the handler validates it.  A trace has a
\* power of two of rows, which the constraint's oracle asserts.
ASSUME SumcheckAssumption ==
  /\ ClientVersions \subseteq {"V0_6_1", "V0_6_2"}
  /\ \A r \in Requests : r.kind = "columns" /\ r.alpha \in Elements
                        /\ r.col0 \in Seq(Elements) /\ r.col1 \in Seq(Elements)
  /\ \A t \in Traces : t.kind = "trace" /\ t.trace \in Seq(Rows(Elements, Elements))
                      /\ IsPowerOfTwo(Len(t.trace))

VARIABLES
  job,           \* the request, or the trace
  honest,        \* whether the prover is
  stage,         \* where the handler is
  values,        \* the oracle: what the proof is about
  claimed,       \* claimed_sum
  rounds,        \* the pairs <<g(0), g(1)>> of the proof
  prefix,        \* the challenges the prover has drawn
  challenger,    \* the prover's transcript
  verifier,      \* the verifier's transcript: verifier_challenger
  fs,            \* samples drawn so far
  running,       \* running_claim of the verifier
  challenges,    \* the challenges the verifier has drawn
  reply          \* what the handler or the library answers

vars == <<job, honest, stage, values, claimed, rounds, prefix, challenger,
          verifier, fs, running, challenges, reply>>

NoReply == [status |-> "none"]

NVars == Log2(Len(values))

\* The sum over the corners that are left below a point.
HypercubeSum(point) ==
  LET remaining == NVars - Len(point)
  IN Total([k \in 1 .. 2^remaining |-> EvaluateMle(values, point \o Corner(k - 1, remaining))])

ProverRound(pre) == <<HypercubeSum(Append(pre, 0)), HypercubeSum(Append(pre, 1))>>

SumcheckRound(pre) == <<HypercubeSum(Append(pre, 0)), HypercubeSum(Append(pre, 1))>>

HonestRound(pre) == IF job.kind = "trace" THEN SumcheckRound(pre) ELSE ProverRound(pre)

Line(pair, x) == Plus(pair[1], Times(x, Minus(pair[2], pair[1])))

Init ==
  /\ job \in Requests \cup Traces
  /\ honest \in BOOLEAN
  /\ stage = "received"
  /\ values = <<>> /\ claimed = 0 /\ running = 0
  /\ rounds = <<>> /\ prefix = <<>> /\ challenges = <<>>
  /\ challenger = <<>> /\ verifier = <<>> /\ fs = <<>>
  /\ reply = NoReply

BadColumns ==
  \/ job.col0 = <<>> \/ job.col1 = <<>>
  \/ Len(job.col0) # Len(job.col1)
  \/ ~IsPowerOfTwo(Len(job.col0))

Validate ==
  /\ stage = "received" /\ job.kind = "columns" /\ BadColumns
  /\ stage' = "answered"
  /\ reply' = [status |-> "bad_request"]
  /\ UNCHANGED <<job, honest, values, claimed, rounds, prefix, challenger,
                 verifier, fs, running, challenges>>

\* Both transcripts begin with the columns.  Neither alpha nor the claimed
\* sum is observed.
Setup ==
  /\ stage = "received" /\ job.kind = "columns" /\ ~BadColumns
  /\ values' = Fold(<<job.col0, job.col1>>, job.alpha)
  /\ challenger' = job.col0 \o job.col1
  /\ verifier' = job.col0 \o job.col1
  /\ stage' = "claiming"
  /\ UNCHANGED <<job, honest, claimed, rounds, prefix, fs, running, challenges, reply>>

SetupTrace ==
  /\ stage = "received" /\ job.kind = "trace"
  /\ values' = ConstraintEvals(job.trace)
  /\ stage' = "claiming"
  /\ UNCHANGED <<job, honest, claimed, rounds, prefix, challenger, verifier, fs,
                 running, challenges, reply>>

Claim ==
  /\ stage = "claiming"
  /\ claimed' \in IF honest THEN {HypercubeSum(<<>>)} ELSE Elements
  /\ stage' = "proving"
  /\ UNCHANGED <<job, honest, values, rounds, prefix, challenger, verifier, fs,
                 running, challenges, reply>>

Pairs(pre) == IF honest THEN {HonestRound(pre)} ELSE Elements \X Elements

\* Mutant of Prove: the challenge is not kept for the next round.
ProveForgets ==
  /\ stage = "proving" /\ job.kind = "columns" /\ Len(rounds) < NVars
  /\ \E pair \in Pairs(prefix) :
       LET seen == challenger \o pair
       IN \E r \in Samples(fs, seen, Elements) :
            /\ rounds' = Append(rounds, pair)
            /\ challenger' = Sampled(seen)
            /\ fs' = Learn(fs, seen, r)
  /\ UNCHANGED <<job, honest, stage, values, claimed, prefix, verifier, running,
                 challenges, reply>>

Prove ==
  /\ stage = "proving" /\ job.kind = "columns" /\ Len(rounds) < NVars
  /\ \E pair \in Pairs(prefix) :
       LET seen == challenger \o pair
       IN \E r \in Samples(fs, seen, Elements) :
            /\ rounds' = Append(rounds, pair)
            /\ prefix' = Append(prefix, r)
            /\ challenger' = Sampled(seen)
            /\ fs' = Learn(fs, seen, r)
  /\ UNCHANGED <<job, honest, stage, values, claimed, verifier, running, challenges, reply>>

\* The caller of the library draws the challenges itself.
ProveTrace ==
  /\ stage = "proving" /\ job.kind = "trace" /\ Len(rounds) < NVars
  /\ \E pair \in Pairs(prefix), r \in Elements :
       /\ rounds' = Append(rounds, pair)
       /\ prefix' = Append(prefix, r)
  /\ UNCHANGED <<job, honest, stage, values, claimed, challenger, verifier, fs,
                 running, challenges, reply>>

\* Mutant of BeginCheck: it waits for a round more than there are variables.
BeginCheckLate ==
  /\ stage = "proving" /\ job.kind = "columns" /\ Len(rounds) = NVars + 1
  /\ stage' = "checking"
  /\ running' = claimed
  /\ UNCHANGED <<job, honest, values, claimed, rounds, prefix, challenger,
                 verifier, fs, challenges, reply>>

BeginCheck ==
  /\ stage = "proving" /\ job.kind = "columns" /\ Len(rounds) = NVars
  /\ stage' = "checking"
  /\ running' = claimed
  /\ UNCHANGED <<job, honest, values, claimed, rounds, prefix, challenger,
                 verifier, fs, challenges, reply>>

\* sumcheck_verify, one round: the verifier derives the challenge from a
\* transcript of its own.
CheckRound ==
  /\ stage = "checking" /\ Len(challenges) < Len(rounds)
  /\ LET pair == rounds[Len(challenges) + 1]
         seen == verifier \o pair
     IN /\ Plus(pair[1], pair[2]) = running
        /\ \E r \in Samples(fs, seen, Elements) :
             /\ verifier' = Sampled(seen)
             /\ fs' = Learn(fs, seen, r)
             /\ challenges' = Append(challenges, r)
             /\ running' = Line(pair, r)
  /\ UNCHANGED <<job, honest, stage, values, claimed, rounds, prefix, challenger, reply>>

Bound == running = EvaluateMle(values, challenges)

Checked == stage = "checking" /\ Len(challenges) = Len(rounds)

SelfCheckFails ==
  /\ \/ /\ stage = "checking" /\ Len(challenges) < Len(rounds)
        /\ LET pair == rounds[Len(challenges) + 1]
           IN Plus(pair[1], pair[2]) # running
     \/ Checked /\ ~Bound
  /\ stage' = "answered"
  /\ reply' = [status |-> "error"]
  /\ UNCHANGED <<job, honest, values, claimed, rounds, prefix, challenger,
                 verifier, fs, running, challenges>>

Seal(version, claim, payload) ==
  [status |-> "success", version |-> version, claim |-> claim, payload |-> payload]

\* Mutant of Ship: the last claim is not compared with the oracle.
ShipUnbound ==
  /\ Checked
  /\ stage' = "answered"
  /\ reply' = Seal("V0_6_1", claimed, [claimed_sum |-> claimed, rounds |-> rounds])
  /\ UNCHANGED <<job, honest, values, claimed, rounds, prefix, challenger,
                 verifier, fs, running, challenges>>

\* Mutant of Ship: the envelope states the last claim of the verifier.
ShipRunning ==
  /\ Checked /\ Bound
  /\ stage' = "answered"
  /\ reply' = Seal("V0_6_1", running, [claimed_sum |-> claimed, rounds |-> rounds])
  /\ UNCHANGED <<job, honest, values, claimed, rounds, prefix, challenger,
                 verifier, fs, running, challenges>>

Ship ==
  /\ Checked /\ Bound
  /\ stage' = "answered"
  /\ reply' = Seal("V0_6_1", claimed, [claimed_sum |-> claimed, rounds |-> rounds])
  /\ UNCHANGED <<job, honest, values, claimed, rounds, prefix, challenger,
                 verifier, fs, running, challenges>>

\* ProofEnvelope.open by a client of a version: versions must match exactly.
Open(version) ==
  /\ stage = "answered" /\ reply.status = "success"
  /\ stage' = IF reply.version = version THEN version ELSE "unsupported"
  /\ UNCHANGED <<job, honest, values, claimed, rounds, prefix, challenger,
                 verifier, fs, running, challenges, reply>>

\* The claim before each round of a proof, and after the last.
Claims(proof, points) ==
  LET claim[i \in 0 .. Len(proof.rounds)] ==
        IF i = 0 THEN proof.claimed_sum ELSE Line(proof.rounds[i], points[i])
  IN claim

\* Mutant of Inconsistent: every round is compared with the first claim.
InconsistentClaim(proof, points) ==
  {i \in DOMAIN proof.rounds :
     Plus(proof.rounds[i][1], proof.rounds[i][2]) # proof.claimed_sum}

Inconsistent(proof, points) ==
  {i \in DOMAIN proof.rounds :
     Plus(proof.rounds[i][1], proof.rounds[i][2]) # Claims(proof, points)[i - 1]}

\* verify_sumcheck: the first check that fails.
VerifySumcheck(proof, points, oracle) ==
  LET n == Len(proof.rounds)
      bad == Inconsistent(proof, points)
  IN CASE n # proof.n_vars -> [status |-> "RoundCount"]
       [] n = proof.n_vars /\ Len(points) # n -> [status |-> "ChallengeCount"]
       [] n = proof.n_vars /\ Len(points) = n /\ bad # {} ->
            [status |-> "RoundConsistency", round |-> CHOOSE i \in bad : \A j \in bad : i <= j]
       [] n = proof.n_vars /\ Len(points) = n /\ bad = {} ->
            IF Claims(proof, points)[n] # proof.final_eval THEN [status |-> "TranscriptBinding"]
            ELSE IF EvaluateMle(oracle, points) # proof.final_eval
            THEN [status |-> "FinalEvalBinding"]
            ELSE [status |-> "Ok"]

\* What is presented to the library: an honest transcript, or one with a
\* round or a challenge missing, or any statement of the last evaluation.
Presented(final) ==
  [claimed_sum |-> claimed, n_vars |-> NVars, rounds |-> rounds, final_eval |-> final]

ButLast(s) == SubSeq(s, 1, Len(s) - 1)

VerifyTrace ==
  /\ stage = "proving" /\ job.kind = "trace" /\ Len(rounds) = NVars
  /\ \E final \in IF honest THEN {EvaluateMle(values, prefix)} ELSE Elements :
       LET proof == Presented(final)
           whole == VerifySumcheck(proof, prefix, values)
           short == VerifySumcheck([proof EXCEPT !.rounds = ButLast(rounds)], prefix, values)
           early == VerifySumcheck(proof, ButLast(prefix), values)
       IN reply' \in IF honest \/ rounds = <<>> THEN {whole} ELSE {whole, short, early}
  /\ stage' = "answered"
  /\ UNCHANGED <<job, honest, values, claimed, rounds, prefix, challenger,
                 verifier, fs, running, challenges>>

Next ==
  \/ Validate \/ Setup \/ SetupTrace \/ Claim
  \/ Prove \/ ProveTrace \/ BeginCheck \/ CheckRound
  \/ SelfCheckFails \/ Ship \/ VerifyTrace
  \/ \E version \in ClientVersions : Open(version)

\* Past the gate the handler is one synchronous computation.
FairSpec == Init /\ [][Next]_vars /\ WF_vars(Next)

-----------------------------------------------------------------------------
ClientProof == [claimed_sum : Elements, rounds : Seq(Elements \X Elements)]
Replies ==
  {NoReply} \cup [status : {"bad_request", "error", "RoundCount", "ChallengeCount",
                           "TranscriptBinding", "FinalEvalBinding", "Ok"}]
  \cup [status : {"RoundConsistency"}, round : Nat]
  \cup [status : {"success"}, version : {"V0_6_1"}, claim : Elements, payload : ClientProof]

\* Types.  A verifier draws no more challenges than the proof has rounds.
TypeOK ==
  /\ job \in Requests \cup Traces /\ honest \in BOOLEAN
  /\ stage \in {"received", "claiming", "proving", "checking", "answered", "unsupported"} \cup ClientVersions
  /\ values \in Seq(Elements) /\ claimed \in Elements /\ running \in Elements
  /\ rounds \in Seq(Elements \X Elements)
  /\ prefix \in Seq(Elements) /\ Len(prefix) = Len(rounds)
  /\ challenges \in Seq(Elements) /\ Len(challenges) <= Len(rounds)
  /\ DOMAIN fs \subseteq Seq(Elements \cup {-1}) /\ \A t \in DOMAIN fs : fs[t] \in Elements
  /\ reply \in Replies

Accepted == reply.status \in {"success", "Ok"}
Rejected == reply.status \in {"error", "RoundCount", "ChallengeCount", "RoundConsistency",
                             "TranscriptBinding", "FinalEvalBinding"}

\* An honest prover is never turned away, not by the self-check of the
\* handler and not by the library: what the rounds state is what either
\* verifier computes from them, for every challenge.
HonestIsAccepted == honest => ~Rejected

\* A proof of a wrong sum is accepted only if in some round the prover's
\* line differs from the true one and meets it in the very challenge that
\* was drawn, and two lines meet in at most one point.  In particular the
\* last round cannot lie: its line is compared with the oracle.
LieNeedsLuck ==
  Accepted /\ claimed # HypercubeSum(<<>>) =>
    \E i \in DOMAIN rounds :
      LET truth == HonestRound(SubSeq(prefix, 1, i - 1))
      IN \A x \in Elements : Line(rounds[i], x) = Line(truth, x) <=> x = prefix[i]

\* The two transcripts of the handler meet: round by round the verifier
\* draws the challenges the prover answered.
TranscriptsMeet == challenges = SubSeq(prefix, 1, Len(challenges))

\* A verdict is the truth of the claim unless a challenge was lucky.
VerdictIsRight == HonestIsAccepted /\ LieNeedsLuck /\ TranscriptsMeet

\* The verifier of the handler and the one of the library are two programs
\* for one decision.  Given the challenges of the transcript and the last
\* claim as the stated evaluation, they agree on every proof, and on the
\* round a bad one fails in.
VerifiersAgree ==
  job.kind = "columns" /\ reply.status \in {"success", "error"} =>
    LET n == Len(rounds)
        proof == Presented(IF n = 0 THEN claimed ELSE Line(rounds[n], prefix[n]))
        verdict == VerifySumcheck(proof, prefix, values)
    IN CASE reply.status = "success" -> verdict.status = "Ok"
         [] reply.status = "error" /\ Len(challenges) < n ->
              verdict.status = "RoundConsistency" /\ verdict.round = Len(challenges) + 1
         [] OTHER -> verdict.status = "FinalEvalBinding"

\* Folding and binding commute: binding the folded oracle to a prefix of
\* challenges gives the columns bound one by one, folded.
FoldCommutes ==
  stage = "proving" /\ job.kind = "columns" =>
    \A k \in 1 .. 2^(NVars - Len(prefix)) :
      LET point == prefix \o Corner(k - 1, NVars - Len(prefix))
      IN BindPrefix(values, prefix)[k] =
           Plus(EvaluateMle(job.col0, point), Times(job.alpha, EvaluateMle(job.col1, point)))

\* The extension extends: on the corners of the hypercube the oracle is the
\* column itself, its low index bit first.
OracleExtends ==
  stage \in {"proving", "checking"} =>
    \A k \in DOMAIN values : EvaluateMle(values, Corner(k - 1, NVars)) = values[k]

\* A row that keeps the rules of the register is accepted, and a row that
\* breaks one of them under a Boolean selector is not.  Of two broken rules
\* nothing is said: their squares may cancel.
OneBreakIsSeen ==
  stage = "claiming" /\ job.kind = "trace" =>
    \A k \in DOMAIN values :
      /\ Broken(job.trace[k]) = {} => values[k] = 0
      /\ Broken(job.trace[k]) \in {{"value"}, {"timestamp"}} => values[k] # 0

\* The oracle the rounds are about is the multilinear extension of the
\* columns, or of the constraint over the rows.
OracleTellsColumns == FoldCommutes /\ OracleExtends /\ OneBreakIsSeen

\* What a client opens is a proof of its own version that the library's
\* verifier accepts under the challenges of the transcript, for the claim
\* on the envelope.
OpenedIsVerified ==
  stage \in ClientVersions =>
    /\ stage = reply.version
    /\ reply.claim = reply.payload.claimed_sum
    /\ VerifySumcheck([claimed_sum |-> reply.claim, n_vars |-> NVars,
                       rounds |-> reply.payload.rounds,
                       final_eval |-> EvaluateMle(values, challenges)],
                      challenges, values).status = "Ok"

\* Every request is answered, whatever the prover does.
EveryJobIsAnswered == <>(reply # NoReply)
=============================================================================
