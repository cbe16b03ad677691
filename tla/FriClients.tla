----------------------------- MODULE FriClients -----------------------------
(***************************************************************************)
(* Whoever uses FRI, one at a time: a caller of fri_prove and fri_verify   *)
(* itself, the DEEP-ALI path, the DEEP-ALI verifier and its accumulator,   *)
(* and the telemetry verifier.                                             *)
(***************************************************************************)
EXTENDS DeepAli, Telemetry

CONSTANTS
  FriJobs,       \* [evals, domain, queries, faulty] of plain callers
  DeepRequests,  \* requests for a DEEP quotient
  BatchRequests, \* requests to the batch verifier
  Jobs           \* [evals, domain, queries] of the telemetry verifier, with the
                 \* repositories it may run beside

\* What callers see to, or FRI asserts before it computes: values are field
\* elements, and a plain caller's vectors are as long as each other, a power
\* of two (fri_query.rs, merkle.rs).  The points of a domain are invertible.
\* A trace has the width its request says.  A job of the telemetry verifier
\* may be anything of these types, for it is checked before it is used.
ASSUME FriClientsAssumption ==
  /\ \A j \in FriJobs :
       /\ j.evals \in Seq(Elements) /\ j.domain \in Seq(Elements \ {0})
       /\ Len(j.domain) = Len(j.evals) /\ IsPowerOfTwo(Len(j.evals))
       /\ j.queries \in Nat /\ j.faulty \in BOOLEAN
  /\ \A r \in DeepRequests \cup BatchRequests :
       /\ r.trace \in Seq(Seq(Elements)) /\ r.num_columns \in Nat /\ r.nqueries \in Nat
       /\ \A i \in DOMAIN r.trace : Len(r.trace[i]) = r.num_columns
       /\ r.queries \in Seq([point : Elements, column : Nat, value : Elements])
  /\ \A j \in Jobs :
       /\ j.evals \in Seq(Elements) /\ j.domain \in Seq(Elements \ {0}) /\ j.queries \in Nat
       /\ j.repositories \subseteq Repositories

\* The links of a batch: columns and shifts come in pairs (what is left over of
\* the longer list is not looked at), and a trace has no more rows than the
\* field has points 0 .. n-1, or the interpolation would divide by zero.
ASSUME LinkAssumption ==
  \A r \in BatchRequests :
    /\ Len(r.trace) <= P
    /\ r.links \in Seq([columns : Seq(Nat), shifts : Seq(Nat), deep_point : Elements,
                        numerator : Seq(Elements), denominator : Elements])
    /\ \A l \in DOMAIN r.links : Len(r.links[l].shifts) = Len(r.links[l].columns)

\* A trace the live path transforms is of a size the field has roots of unity
\* for (fft.rs: BabyBear has them up to 2^27 rows).
ASSUME HeightAssumption ==
  \A r \in DeepRequests : GoodHeight(r.trace) => (P - 1) % Len(r.trace) = 0

\* The domain FRI folds over: the powers of a primitive root of unity, in which
\* x and -x stand half the domain apart (deep_ali_fri.rs, two_adic_domain; the
\* negation_closed_domain of the tests of fri_query.rs).  FRI asks for it and
\* does not check it; folds are folds of a polynomial over no other.
RootDomain(dom) ==
  Len(dom) >= 2 /\ IsPowerOfTwo(Len(dom)) =>
    /\ Power(dom[2], Len(dom) \div 2) = Minus(0, 1)
    /\ \A i \in DOMAIN dom : dom[i] = Power(dom[2], i - 1)

CallersGiveRoots == \A j \in FriJobs \cup Jobs : RootDomain(j.domain)

vars == <<friVars, deepVars, telemetryVars>>

NoRequest == [trace |-> <<>>, queries |-> <<>>, links |-> <<>>,
              max_degree |-> 0, num_columns |-> 0, nqueries |-> 0]
NoJob == [evals |-> <<>>, domain |-> <<>>, queries |-> 0]

DeepInit(request, at) ==
  /\ deep = request /\ step = at
  /\ weights = <<>> /\ quotient = <<>>
  /\ acc = [side \in Sides |-> Fresh]
  /\ tr = [side \in Sides |-> <<>>]

TelemetryInit(j, at, repository) ==
  /\ job = j /\ stage = at /\ git = repository
  /\ clock = 0 /\ timer = NewTimer /\ vtimer = NewTimer
  /\ words = <<>> /\ proxy = <<>> /\ verdict = FALSE
  /\ read = 0 /\ tips = {} /\ artifact = NoArtifact
  /\ received = <<>> /\ reread = [outcome |-> "none", proof |-> NoProof]

\* A plain caller's job is the one of the telemetry verifier without the
\* measurements around it.
Init ==
  /\ FriInit
  /\ \/ \E j \in FriJobs : DeepInit(NoRequest, "idle") /\ TelemetryInit(j, "plain", NoGit)
     \/ \E r \in DeepRequests : DeepInit(r, "requested") /\ TelemetryInit(NoJob, "idle", NoGit)
     \/ \E r \in BatchRequests : DeepInit(r, "batch") /\ TelemetryInit(NoJob, "idle", NoGit)
     \/ DeepInit(NoRequest, "accounting") /\ TelemetryInit(NoJob, "idle", NoGit)
     \/ \E j \in Jobs : \E repository \in j.repositories :
          DeepInit(NoRequest, "idle") /\ TelemetryInit(j, "requested", repository)

PlainFri ==
  /\ stage = "plain"
  /\ \/ FriCommit(job.evals, job.domain, job.queries, job.faulty)
     \/ FriNext
  /\ UNCHANGED <<deepVars, telemetryVars>>

Next ==
  \/ PlainFri
  \/ DeepNext /\ UNCHANGED telemetryVars
  \/ TelemetryNext /\ UNCHANGED deepVars

\* A call, once it is made, runs to its end on its own thread.  Nobody has to
\* consume bits, commit to the repository, pack it or read a proof again.
Spec ==
  /\ Init /\ [][Next]_vars
  /\ WF_vars(PlainFri)
  /\ WF_vars((ProveFri \/ VerifyFri) /\ UNCHANGED telemetryVars)
  /\ WF_vars((Refuse \/ BeginProving \/ BeginFri \/ RunFri \/ Serialize \/ BeginVerify
               \/ FinishVerify \/ ReadHead \/ ReadRef \/ ReadPackedRefs \/ EmitFails
               \/ EmitArtifact) /\ UNCHANGED deepVars)

-----------------------------------------------------------------------------
\* Every vector has the length its place asks for, every number its range.
TypeOK ==
  /\ phase \in {"idle", "committing", "proved"}
  /\ \A r \in DOMAIN layers : layers[r] \in Vectors(Len(domain) \div 2^(r - 1))
  /\ Len(betas) = (IF layers = <<>> THEN 0 ELSE Len(layers) - 1)
  /\ \A q \in DOMAIN indices : indices[q] \in 0 .. (Len(domain) - 1)
  /\ \A t \in DOMAIN fs : fs[t] \in Elements
  /\ Len(indices) <= nqueries
  /\ \A k \in DOMAIN quotient : quotient[k] \in Elements
  /\ quotient # <<>> => quotient[Len(quotient)] # 0
  /\ \A side \in Sides : acc[side] \in [bits_consumed : Nat, bits_remaining : Int, round : Nat]
  /\ clock \in 0 .. MaxClock /\ verdict \in BOOLEAN
  /\ Len(timer.active) <= 2 /\ Len(vtimer.active) <= 1
  /\ read \in 0 .. MaxCommits /\ tips \subseteq 0 .. MaxCommits
  /\ \A i \in DOMAIN words : words[i] \in Nat

\* A proof that is asked for is made, the proof of a DEEP quotient is judged
\* too, and a telemetry job ends with an artifact or an error.
EveryJobEnds ==
  /\ stage = "plain" ~> phase = "proved"
  /\ step = "proving" ~> step \in {"accepted", "rejected"}
  /\ stage = "requested" ~> stage \in {"emitted", "delivered", "done"}
=============================================================================
