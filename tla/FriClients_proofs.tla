------------------------- MODULE FriClients_proofs -------------------------
(* Proofs about FRI and its clients (FriClients): for every prime field,
   every plain job, DEEP request, batch and telemetry job.  Six arguments: the
   soundness accounts (AccountInv), the commit of an artifact (ProvenanceInv),
   the verdicts (FriInv, ClientInv), the artifact (RunInv), the types (TypeInv),
   and the links of a batch (BatchVerdict).  The verdicts rest on lemmas about
   the field, the digests, Merkle openings, folds, layers and transcripts, and on
   the typing of the transforms and quotients that the DEEP pipeline gives to
   FRI; the links on the laws of a ring.  What the fast transform computes stands
   at the end, for FriPipeline_proofs.                                         *)
EXTENDS FriClients, TLAPS, WellFoundedInduction, FiniteSetTheorems

Account == [bits_consumed : Nat, bits_remaining : Int, round : Nat]

Tells(t, a) ==
  /\ Len(t) >= 3
  /\ t[Len(t) - 2] = a.round
  /\ t[Len(t) - 1] = a.bits_consumed
  /\ t[Len(t)] = a.bits_remaining

AccountInv ==
  /\ acc \in [Sides -> Account]
  /\ BudgetIsKept
  /\ step \in {"batch", "batch_ok"} => deep \in BatchRequests
  /\ step # "accounting" => acc["prover"] = Fresh
  /\ step = "accounting" =>
       /\ tr \in [Sides -> Seq(Int)]
       /\ \A side \in Sides : acc[side].round > 0 => Tells(tr[side], acc[side])

\* A fresh account is well typed and holds the whole budget.
LEMMA FreshIsAccount ==
  /\ Fresh \in Account
  /\ Fresh.round = 0 /\ Fresh.bits_consumed + Fresh.bits_remaining = Lambda
  /\ Fresh.bits_remaining >= 0
BY DeepAliAssumption DEF Fresh, Account

\* Consuming bits keeps the type and the sum of an account.
LEMMA ConsumedIsAccount ==
  ASSUME NEW a \in Account, NEW bits \in Nat
  PROVE  /\ Consumed(a, bits) \in Account
         /\ Consumed(a, bits).round > 0
         /\ Consumed(a, bits).bits_consumed + Consumed(a, bits).bits_remaining
              = a.bits_consumed + a.bits_remaining
         /\ bits <= a.bits_remaining => Consumed(a, bits).bits_remaining >= 0
BY DEF Consumed, Account

\* Three words appended to a transcript are the account it then tells.
LEMMA ThreeTell ==
  ASSUME NEW t \in Seq(Int), NEW a \in Account, NEW u,
         u = t \o <<a.round, a.bits_consumed, a.bits_remaining>> \o <<>>
  PROVE  u \in Seq(Int) /\ Tells(u, a)
<1> DEFINE x == a.round
           y == a.bits_consumed
           z == a.bits_remaining
<1>1. x \in Int /\ y \in Int /\ z \in Int
  BY DEF Account
<1> HIDE DEF x, y, z
<1>2. u = t \o <<x, y, z>> \o <<>>
  BY DEF x, y, z
<1>3. <<x, y, z>> \in Seq(Int) /\ Len(<<x, y, z>>) = 3
  BY <1>1
<1>4. <<x, y, z>> \o <<>> = <<x, y, z>>
  BY <1>3
<1>5. t \o <<x, y, z>> \in Seq(Int) /\ Len(t \o <<x, y, z>>) = Len(t) + 3
  BY <1>3
<1>6. (t \o <<x, y, z>>) \o <<>> = t \o <<x, y, z>>
  BY <1>5
<1>7. u = t \o <<x, y, z>>
  BY <1>2, <1>6
<1>8. u \in Seq(Int) /\ Len(u) = Len(t) + 3 /\ Len(t) \in Nat
  BY <1>5, <1>7
<1>9. u[Len(t) + 1] = x /\ u[Len(t) + 2] = y /\ u[Len(t) + 3] = z
  BY <1>3, <1>7
<1>10. Len(u) >= 3 /\ Len(u) - 2 = Len(t) + 1 /\ Len(u) - 1 = Len(t) + 2
  BY <1>8
<1> QED  BY <1>8, <1>9, <1>10 DEF Tells, x, y, z

\* A batch costs a natural number of bits.
LEMMA BitsPerBatchIsNat == ASSUME NEW n \in Nat PROVE BitsPerBatch(n) \in Nat
<1> DEFINE d == IF n = 0 THEN 1 ELSE n
           q == Lambda \div d
<1>1. d \in Nat /\ d > 0
  OBVIOUS
<1> HIDE DEF d
<1>2. q \in Nat
  BY <1>1, DeepAliAssumption
<1> HIDE DEF q
<1>3. q * n \in Nat
  BY <1>2
<1> QED  BY <1>3 DEF BitsPerBatch, q, d

\* The accounts start fresh.
LEMMA InitAccount == Init => AccountInv
<1> SUFFICES ASSUME Init PROVE AccountInv
  OBVIOUS
<1>1. acc = [side \in Sides |-> Fresh] /\ tr = [side \in Sides |-> <<>>]
  BY DEF Init, DeepInit
<1>2. step = "batch" => deep \in BatchRequests
  BY DEF Init, DeepInit
<1>3. step # "batch_ok"
  BY DEF Init, DeepInit
<1>4. acc["prover"] = Fresh
  BY <1>1 DEF Sides
<1>5. \A side \in Sides : acc[side] = Fresh
  BY <1>1
<1>6. acc \in [Sides -> Account] /\ tr \in [Sides -> Seq(Int)]
  BY <1>1, FreshIsAccount
<1>7. BudgetIsKept
  BY <1>5, FreshIsAccount DEF BudgetIsKept
<1>8. \A side \in Sides : ~(acc[side].round > 0)
  BY <1>5, FreshIsAccount
<1> QED  BY <1>2, <1>3, <1>4, <1>6, <1>7, <1>8 DEF AccountInv

\* What a consume does to the side's account and to all budgets.
LEMMA ConsumeKeeps ==
  ASSUME AccountInv, NEW side \in Sides, NEW bits \in Nat, NEW then,
         ConsumeAndBind(side, bits, then)
  PROVE  /\ acc' \in [Sides -> Account]
         /\ BudgetIsKept'
         /\ acc'[side] = Consumed(acc[side], bits)
         /\ \A other \in Sides \ {side} : acc'[other] = acc[other]
<1>1. acc \in [Sides -> Account] /\ bits <= acc[side].bits_remaining
  BY DEF AccountInv, ConsumeAndBind
<1>2. acc' = [acc EXCEPT ![side] = Consumed(acc[side], bits)]
  BY DEF ConsumeAndBind
<1> DEFINE c == Consumed(acc[side], bits)
<1>3. /\ c \in Account /\ c.bits_remaining >= 0
      /\ c.bits_consumed + c.bits_remaining = acc[side].bits_consumed + acc[side].bits_remaining
  BY <1>1, ConsumedIsAccount
<1> HIDE DEF c
<1>4. acc' = [acc EXCEPT ![side] = c]
  BY <1>2 DEF c
<1>5. /\ acc' \in [Sides -> Account] /\ acc'[side] = c
      /\ \A other \in Sides \ {side} : acc'[other] = acc[other]
  BY <1>1, <1>3, <1>4
<1>6. BudgetIsKept'
  <2>1. ASSUME NEW s \in Sides
        PROVE  /\ acc'[s].bits_consumed + acc'[s].bits_remaining = Lambda
               /\ acc'[s].bits_remaining >= 0
    <3>1. \A t \in Sides : /\ acc[t].bits_consumed + acc[t].bits_remaining = Lambda
                           /\ acc[t].bits_remaining >= 0
      BY DEF AccountInv, BudgetIsKept
    <3>2. CASE s = side
      BY <3>1, <3>2, <1>3, <1>5
    <3>3. CASE s # side
      BY <3>1, <3>3, <1>5
    <3> QED  BY <3>2, <3>3
  <2> QED  BY <2>1 DEF BudgetIsKept
<1> QED  BY <1>5, <1>6 DEF c

\* The verdicts of a quotient and of a link.
LEMMA StatusIsNone ==
  ASSUME NEW request, NEW ws
  PROVE  QuotientResult(request, ws).status \in {"quotient", "column", "interpolation", "degree"}
<1> DEFINE R(a, b, c) == [status |-> a, value |-> b, seen |-> c]
<1>1. \A a, b, c : R(a, b, c).status = a
  OBVIOUS
<1> QED  BY <1>1 DEF QuotientResult

\* A link check has one of four outcomes.
LEMMA LinkStatus ==
  ASSUME NEW request, NEW link
  PROVE  LinkResult(request, link) \in {"column", "point", "violated", "ok"}
BY DEF LinkResult

\* Every step of FRI, of either side and of the clients keeps the accounts.
LEMMA StepAccount == AccountInv /\ [Next]_vars => AccountInv'
<1> SUFFICES ASSUME AccountInv, [Next]_vars PROVE AccountInv'
  OBVIOUS
<1>0. /\ acc \in [Sides -> Account] /\ BudgetIsKept
      /\ step \in {"batch", "batch_ok"} => deep \in BatchRequests
      /\ step # "accounting" => acc["prover"] = Fresh
      /\ step = "accounting" =>
           /\ tr \in [Sides -> Seq(Int)]
           /\ \A side \in Sides : acc[side].round > 0 => Tells(tr[side], acc[side])
  BY DEF AccountInv
<1>1. CASE UNCHANGED deepVars
  BY <1>0, <1>1 DEF deepVars, AccountInv, BudgetIsKept, Tells
<1>2. CASE /\ UNCHANGED <<deep, acc>> /\ step # "accounting" /\ step' # "accounting"
           /\ step' \in {"batch", "batch_ok"} => step \in {"batch", "batch_ok"}
  BY <1>0, <1>2 DEF AccountInv, BudgetIsKept
<1>3. CASE GateDenies
  BY <1>2, <1>3 DEF GateDenies
<1>4. CASE ComputeDeepQuotient
  <2>1. PICK ws : step' = QuotientResult(deep, ws).status
    BY <1>4 DEF ComputeDeepQuotient
  <2>2. step' \in {"quotient", "column", "interpolation", "degree"}
    BY <2>1, StatusIsNone
  <2>3. UNCHANGED <<deep, acc>> /\ step = "requested"
    BY <1>4 DEF ComputeDeepQuotient
  <2> QED  BY <1>2, <2>2, <2>3
<1>5. CASE QuotientAbsent
  BY <1>2, <1>5 DEF QuotientAbsent
<1>6. CASE WireFri
  BY <1>2, <1>6 DEF WireFri
<1>7. CASE ProveFri
  BY <1>1, <1>7 DEF ProveFri
<1>8. CASE VerifyFri
  <2>1. step = "proving" /\ step' \in {"accepted", "rejected"} /\ UNCHANGED <<deep, acc>>
    BY <1>8 DEF VerifyFri
  <2> QED  BY <1>2, <2>1
<1>9. CASE NextBatch
  BY <1>2, <1>9 DEF NextBatch
<1>10. ASSUME NEW side \in Sides, NEW bits \in Bits, Consume(side, bits)
       PROVE  AccountInv'
  <2>1. /\ step = "accounting" /\ ConsumeAndBind(side, bits, <<>>)
        /\ UNCHANGED <<deep, step>> /\ bits \in Nat
    BY <1>10, DeepAliAssumption DEF Consume
  <2>2. /\ acc' \in [Sides -> Account] /\ BudgetIsKept'
        /\ \A other \in Sides \ {side} : acc'[other] = acc[other]
    BY <2>1, ConsumeKeeps
  <2> DEFINE a == acc'[side]
  <2>3. a \in Account
    BY <2>2
  <2>4. tr' = [tr EXCEPT ![side] =
                 tr[side] \o <<a.round, a.bits_consumed, a.bits_remaining>> \o <<>>]
    BY <2>1 DEF ConsumeAndBind
  <2>5. tr \in [Sides -> Seq(Int)] /\ tr[side] \in Seq(Int)
    BY <1>0, <2>1
  <2> DEFINE u == tr[side] \o <<a.round, a.bits_consumed, a.bits_remaining>> \o <<>>
  <2>6. u \in Seq(Int) /\ Tells(u, a)
    BY <2>3, <2>5, ThreeTell
  <2>7. tr' = [tr EXCEPT ![side] = u]
    BY <2>4
  <2> HIDE DEF u
  <2>8. tr' \in [Sides -> Seq(Int)] /\ tr'[side] = u
        /\ \A other \in Sides \ {side} : tr'[other] = tr[other]
    BY <2>5, <2>6, <2>7
  <2>9. ASSUME NEW s \in Sides, acc'[s].round > 0 PROVE Tells(tr'[s], acc'[s])
    <3>1. CASE s = side
      BY <2>6, <2>8, <3>1
    <3>2. CASE s # side
      <4>1. acc'[s] = acc[s] /\ tr'[s] = tr[s]
        BY <2>2, <2>8, <3>2
      <4>2. Tells(tr[s], acc[s])
        BY <1>0, <2>1, <2>9, <4>1
      <4> QED  BY <4>1, <4>2
    <3> QED  BY <3>1, <3>2
  <2> QED  BY <2>1, <2>2, <2>8, <2>9 DEF AccountInv
<1>11. ASSUME NEW side \in Sides, Reset(side) PROVE AccountInv'
  <2>1. /\ step = "accounting" /\ UNCHANGED <<deep, step, tr>>
        /\ acc' = [acc EXCEPT ![side] = Fresh]
    BY <1>11 DEF Reset
  <2>2. /\ acc' \in [Sides -> Account] /\ acc'[side] = Fresh
        /\ \A other \in Sides \ {side} : acc'[other] = acc[other]
    BY <1>0, <2>1, FreshIsAccount
  <2>3. BudgetIsKept'
    <3>1. ASSUME NEW s \in Sides
          PROVE  /\ acc'[s].bits_consumed + acc'[s].bits_remaining = Lambda
                 /\ acc'[s].bits_remaining >= 0
      <4>1. CASE s = side
        BY <4>1, <2>2, FreshIsAccount
      <4>2. CASE s # side
        BY <4>2, <2>2, <1>0 DEF BudgetIsKept
      <4> QED  BY <4>1, <4>2
    <3> QED  BY <3>1 DEF BudgetIsKept
  <2>4. ASSUME NEW s \in Sides, acc'[s].round > 0 PROVE Tells(tr'[s], acc'[s])
    <3>1. s # side
      BY <2>2, <2>4, FreshIsAccount
    <3>2. acc'[s] = acc[s] /\ tr'[s] = tr[s]
      BY <2>1, <2>2, <3>1
    <3>3. Tells(tr[s], acc[s])
      BY <1>0, <2>1, <2>4, <3>2
    <3> QED  BY <3>2, <3>3
  <2> QED  BY <1>0, <2>1, <2>2, <2>3, <2>4 DEF AccountInv
<1>12. ASSUME NEW open \in BOOLEAN, VerifyDeepBatch(open) PROVE AccountInv'
  <2> DEFINE bits == BitsPerBatch(Len(deep.queries))
  <2>1. step = "batch" /\ UNCHANGED deep
    BY <1>12 DEF VerifyDeepBatch
  <2>2. deep.queries \in Seq([point : Elements, column : Nat, value : Elements])
    BY <1>0, <2>1, FriClientsAssumption
  <2>3. bits \in Nat
    BY <2>2, BitsPerBatchIsNat
  <2>4. CASE UNCHANGED acc /\ step' = "depleted"
    BY <1>2, <2>1, <2>4
  <2>5. CASE bits <= acc["verifier"].bits_remaining /\ ConsumeAndBind("verifier", bits, Responses(deep))
             /\ step' # "accounting"
    <3>1. "verifier" \in Sides /\ "prover" \in Sides \ {"verifier"}
      BY DEF Sides
    <3>2. /\ acc' \in [Sides -> Account] /\ BudgetIsKept'
          /\ \A other \in Sides \ {"verifier"} : acc'[other] = acc[other]
      BY <2>3, <2>5, <3>1, ConsumeKeeps
    <3>3. acc'["prover"] = Fresh
      BY <1>0, <2>1, <3>1, <3>2
    <3> QED  BY <1>0, <2>1, <2>5, <3>2, <3>3 DEF AccountInv
  <2>6. \/ UNCHANGED acc /\ step' = "depleted"
        \/ /\ bits <= acc["verifier"].bits_remaining
           /\ ConsumeAndBind("verifier", bits, Responses(deep)) /\ step' # "accounting"
    <3>1. CASE bits > acc["verifier"].bits_remaining
      BY <1>12, <3>1 DEF VerifyDeepBatch
    <3>2. CASE ~(bits > acc["verifier"].bits_remaining)
      <4>1. ConsumeAndBind("verifier", bits, Responses(deep))
        BY <1>12, <3>2 DEF VerifyDeepBatch
      <4>2. step' # "accounting"
        <5> DEFINE bad == {l \in DOMAIN deep.links : LinkResult(deep, deep.links[l]) # "ok"}
                   first == CHOOSE l \in bad : \A m \in bad : l <= m
        <5>1. step' \in {"column", "batch_ok", "owsl_halt", LinkResult(deep, deep.links[first])}
          BY <1>12, <3>2 DEF VerifyDeepBatch
        <5> HIDE DEF bad, first
        <5>2. LinkResult(deep, deep.links[first]) \in {"column", "point", "violated", "ok"}
          BY LinkStatus
        <5> QED  BY <5>1, <5>2
      <4>3. bits <= acc["verifier"].bits_remaining
        BY <4>1 DEF ConsumeAndBind
      <4> QED  BY <4>1, <4>2, <4>3
    <3> QED  BY <3>1, <3>2
  <2> QED  BY <2>4, <2>5, <2>6
<1>13. CASE DeepNext
  BY <1>13, <1>3, <1>4, <1>5, <1>6, <1>7, <1>8, <1>9, <1>10, <1>11, <1>12 DEF DeepNext
<1> QED  BY <1>1, <1>13 DEF Next, PlainFri, vars

\* The invariant gives the checked property.
LEMMA AccountIsTold == AccountInv => AccountIsKept
<1> SUFFICES ASSUME AccountInv, \A side \in Sides : acc[side].round > 0, tr["prover"] = tr["verifier"]
             PROVE  acc["prover"] = acc["verifier"]
  BY DEF AccountInv, AccountIsKept, AccumulatorBinds
<1>1. "prover" \in Sides /\ "verifier" \in Sides
  BY DEF Sides
<1>2. acc["prover"] \in Account /\ acc["verifier"] \in Account
  BY <1>1 DEF AccountInv
<1>3. acc["prover"].round > 0
  BY <1>1
<1>4. step = "accounting"
  BY <1>3, FreshIsAccount DEF AccountInv
<1>5. Tells(tr["prover"], acc["prover"]) /\ Tells(tr["verifier"], acc["verifier"])
  BY <1>1, <1>4 DEF AccountInv
<1>6. /\ acc["prover"].round = acc["verifier"].round
      /\ acc["prover"].bits_consumed = acc["verifier"].bits_consumed
      /\ acc["prover"].bits_remaining = acc["verifier"].bits_remaining
  BY <1>5 DEF Tells
<1> QED  BY <1>2, <1>6 DEF Account

\* The soundness budget is kept on both sides: consumed and remaining bits add up
\* to lambda, and what the transcript was told is what the account holds
\* (deep_ali.rs, SoundnessAccounting), for any batches and any lambda.
THEOREM AccountsAreKept == Spec => []AccountIsKept
<1>1. Spec => []AccountInv
  BY InitAccount, StepAccount, PTL DEF Spec
<1> QED  BY <1>1, AccountIsTold, PTL
-----------------------------------------------------------------------------
Git == [head : Nat, loose : Nat, packed : Nat]

ProvenanceInv ==
  /\ git \in Git
  /\ stage \in {"head", "loose"} => git.head = 0 /\ (git.loose # 0 => git.loose \in tips)
  /\ stage = "head" => Tip \in tips
  /\ stage = "loose" => git.packed \in tips
  /\ stage = "ready" => read \in tips
  /\ artifact.status # "none" => stage = "emitted" /\ artifact.repo_commit \in tips

\* What an artifact is stamped with is what was read of HEAD.
LEMMA ArtifactHasCommit == EmitArtifact => artifact'.repo_commit = read
<1> SUFFICES ASSUME EmitArtifact PROVE artifact'.repo_commit = read
  OBVIOUS
<1> DEFINE all == Measured(Merge(timer, vtimer))
<1>1. all.repo_commit = read
  BY DEF Measured
<1>2. artifact' = IF verdict THEN all
                  ELSE [all EXCEPT !.status = "fail", !.rounds = 1, !.proving = 0,
                                   !.verification = 0, !.total = 0, !.transcript = 0,
                                   !.sumcheck = 0, !.fri = -1]
  BY DEF EmitArtifact
<1> HIDE DEF all
<1> QED  BY <1>1, <1>2

\* The only commit in the beginning is the tip.
LEMMA InitProvenance == Init => ProvenanceInv
<1> SUFFICES ASSUME Init PROVE ProvenanceInv
  OBVIOUS
<1>1. NoGit \in Git
  BY DEF NoGit, Git
<1>2. \A j \in Jobs : j.repositories \subseteq Git
  <2>1. Repositories \subseteq Git
    BY TelemetryAssumption DEF Repositories, Git
  <2> QED  BY <2>1, FriClientsAssumption
<1>3. git \in Git
  BY <1>1, <1>2 DEF Init, TelemetryInit
<1>4. stage \in {"plain", "idle", "requested"} /\ artifact = NoArtifact
  BY DEF Init, TelemetryInit
<1> QED  BY <1>3, <1>4 DEF ProvenanceInv, NoArtifact

\* Whatever is read of a moving repository was a tip.
LEMMA StepProvenance == ProvenanceInv /\ [Next]_vars => ProvenanceInv'
<1> SUFFICES ASSUME ProvenanceInv, [Next]_vars PROVE ProvenanceInv'
  OBVIOUS
<1>0. git \in Git /\ git.head \in Nat /\ git.loose \in Nat /\ git.packed \in Nat
  BY DEF ProvenanceInv, Git
<1>t. /\ git.head # 0 => Tip = git.head
      /\ git.head = 0 /\ git.loose # 0 => Tip = git.loose
      /\ git.head = 0 /\ git.loose = 0 => Tip = git.packed
      /\ Tip \in Nat
  BY <1>0 DEF Tip
<1>u. /\ git'.head = 0 /\ git'.loose # 0 => Tip' = git'.loose
      /\ git'.head = 0 /\ git'.loose = 0 => Tip' = git'.packed
  BY DEF Tip
<1>1. CASE UNCHANGED <<stage, git, read, tips, artifact>>
  BY <1>1 DEF ProvenanceInv, Tip
<1>2. CASE /\ UNCHANGED <<git, read, tips, artifact>>
           /\ stage # "emitted"
           /\ stage' \notin {"head", "loose", "ready", "emitted"}
  BY <1>2 DEF ProvenanceInv
<1>3. CASE \/ Refuse \/ BeginProving \/ BeginFri \/ Serialize \/ BeginVerify \/ FinishVerify
           \/ EmitFails \/ Reread
  <2>1. UNCHANGED <<git, read, tips, artifact>>
    BY <1>3 DEF Refuse, BeginProving, BeginFri, Serialize, BeginVerify, FinishVerify, EmitFails,
                Reread
  <2>2. stage # "emitted" /\ stage' \notin {"head", "loose", "ready", "emitted"}
    BY <1>3 DEF Refuse, BeginProving, BeginFri, Serialize, BeginVerify, FinishVerify, EmitFails,
                Reread
  <2> QED  BY <1>2, <2>1, <2>2
<1>4. CASE Tick \/ RunFri
  <2>1. UNCHANGED <<stage, git, read, tips, artifact>>
    BY <1>4 DEF Tick, RunFri, telemetryVars
  <2> QED  BY <1>1, <2>1
<1>5. CASE GitCommit
  <2>1. /\ stage \in {"head", "loose"} /\ UNCHANGED <<stage, read, artifact>>
        /\ tips' = tips \cup {Tip + 1}
    BY <1>5 DEF GitCommit
  <2>2. git.head = 0 /\ Tip + 1 \in Nat
    BY <2>1, <1>t DEF ProvenanceInv
  <2>3. git' = [git EXCEPT !.loose = Tip + 1]
    BY <1>5, <2>2 DEF GitCommit
  <2>4. /\ git' \in Git /\ git'.head = 0 /\ git'.loose = Tip + 1 /\ git'.packed = git.packed
    BY <1>0, <2>2, <2>3 DEF Git
  <2>5. git'.loose # 0 /\ git'.loose \in tips' /\ Tip' \in tips'
    BY <2>1, <2>4, <1>t, <1>u
  <2>6. stage = "loose" => git'.packed \in tips'
    BY <2>1, <2>4 DEF ProvenanceInv
  <2>7. artifact.status = "none"
    BY <2>1 DEF ProvenanceInv
  <2> QED  BY <2>1, <2>4, <2>5, <2>6, <2>7 DEF ProvenanceInv
<1>6. CASE PackRefs
  <2>1. /\ stage \in {"head", "loose"} /\ git.loose # 0
        /\ UNCHANGED <<stage, read, tips, artifact>>
    BY <1>6 DEF PackRefs
  <2>2. git.head = 0 /\ git.loose \in tips /\ artifact.status = "none"
    BY <2>1 DEF ProvenanceInv
  <2>3. \/ git' = [git EXCEPT !.packed = git.loose]
        \/ git.packed = git.loose /\ git' = [git EXCEPT !.loose = 0]
    BY <1>6 DEF PackRefs
  <2>4. /\ git' \in Git /\ git'.head = 0 /\ git'.loose \in {0, git.loose}
        /\ git'.packed = git.loose
    BY <1>0, <2>2, <2>3 DEF Git
  <2>5. Tip' \in tips' /\ git'.packed \in tips' /\ (git'.loose # 0 => git'.loose \in tips')
    BY <2>1, <2>2, <2>4, <1>u
  <2> QED  BY <2>1, <2>2, <2>4, <2>5 DEF ProvenanceInv
<1>7. CASE ReadHead
  <2>1. /\ stage = "verified" /\ UNCHANGED <<git, artifact>>
        /\ stage' = IF git.head # 0 THEN "ready" ELSE "head"
        /\ read' = git.head /\ tips' = {Tip}
    BY <1>7 DEF ReadHead
  <2>2. artifact.status = "none" /\ Tip' = Tip
    BY <2>1 DEF ProvenanceInv, Tip
  <2>3. CASE git.head # 0
    BY <1>0, <1>t, <2>1, <2>2, <2>3 DEF ProvenanceInv
  <2>4. CASE git.head = 0
    BY <1>0, <1>t, <2>1, <2>2, <2>4 DEF ProvenanceInv
  <2> QED  BY <2>3, <2>4
<1>8. CASE ReadRef
  <2>1. /\ stage = "head" /\ UNCHANGED <<git, tips, artifact>>
        /\ stage' = IF git.loose # 0 THEN "ready" ELSE "loose"
        /\ read' = git.loose
    BY <1>8 DEF ReadRef
  <2>2. artifact.status = "none" /\ git.head = 0 /\ Tip \in tips
    BY <2>1 DEF ProvenanceInv
  <2>3. CASE git.loose # 0
    BY <1>0, <1>t, <2>1, <2>2, <2>3 DEF ProvenanceInv
  <2>4. CASE git.loose = 0
    BY <1>0, <1>t, <2>1, <2>2, <2>4 DEF ProvenanceInv
  <2> QED  BY <2>3, <2>4
<1>9. CASE ReadPackedRefs
  <2>1. stage = "loose" /\ UNCHANGED <<git, tips, artifact>> /\ stage' = "ready" /\ read' = git.packed
    BY <1>9 DEF ReadPackedRefs
  <2> QED  BY <2>1 DEF ProvenanceInv
<1>10. CASE EmitArtifact
  <2>1. stage = "ready" /\ UNCHANGED <<git, tips>> /\ stage' = "emitted"
    BY <1>10 DEF EmitArtifact
  <2>2. artifact'.repo_commit = read
    BY <1>10, ArtifactHasCommit
  <2> QED  BY <2>1, <2>2 DEF ProvenanceInv
<1>11. CASE Deliver
  <2>1. stage' = "delivered" /\ git' = NoGit /\ artifact' = NoArtifact
    BY <1>11 DEF Deliver
  <2>2. NoGit \in Git /\ NoArtifact.status = "none"
    BY DEF NoGit, Git, NoArtifact
  <2> QED  BY <2>1, <2>2 DEF ProvenanceInv
<1>12. CASE TelemetryNext
  BY <1>12, <1>3, <1>4, <1>5, <1>6, <1>7, <1>8, <1>9, <1>10, <1>11 DEF TelemetryNext
<1> QED  BY <1>1, <1>12 DEF Next, PlainFri, vars, telemetryVars

\* The commit an artifact names was the tip of its repository at some moment of
\* its run, however HEAD moves and is packed meanwhile (emitter.rs, git_head).
THEOREM CommitWasTip == Spec => []RepoCommitWasTip
<1>1. Spec => []ProvenanceInv
  BY InitProvenance, StepProvenance, PTL DEF Spec
<1>2. ProvenanceInv => RepoCommitWasTip
  BY DEF ProvenanceInv, RepoCommitWasTip
<1> QED  BY <1>1, <1>2, PTL

-----------------------------------------------------------------------------
\* The field and induction.

\* Every set of naturals that is not empty has a least member.
LEMMA Least ==
  ASSUME NEW S, S \subseteq Nat, S # {}
  PROVE  \E m \in S : \A n \in S : m <= n
<1> DEFINE R == OpToRel(<, Nat)
<1>0. IsWellFoundedOn(R, Nat)
  BY NatLessThanWellFounded
<1>2. R = {ss \in Nat \X Nat : ss[1] < ss[2]}
  BY DEF OpToRel
<1> HIDE DEF R
<1>1. PICK m \in S : \A n \in S : ~(<<n, m>> \in R)
  BY <1>0, WFMin
<1>3. ASSUME NEW n \in S PROVE m <= n
  <2>1. ~(<<n, m>> \in {ss \in Nat \X Nat : ss[1] < ss[2]})
    BY <1>1, <1>2
  <2>2. m \in Nat /\ n \in Nat
    OBVIOUS
  <2> QED  BY <2>1, <2>2
<1> QED  BY <1>3

\* Induction, over a set.
LEMMA Induct ==
  ASSUME NEW S, 0 \in S, \A n \in Nat : n \in S => n + 1 \in S
  PROVE  \A n \in Nat : n \in S
<1> SUFFICES ASSUME Nat \ S # {} PROVE FALSE
  OBVIOUS
<1>1. PICK m \in Nat \ S : \A n \in Nat \ S : m <= n
  BY Least
<1>2. m # 0 /\ m - 1 \in Nat
  OBVIOUS
<1>3. m - 1 \in S
  BY <1>1, <1>2
<1> QED  BY <1>2, <1>3, <1>1

\* Induction up to a bound, over a set.
LEMMA Up ==
  ASSUME NEW n \in Nat, NEW S, 0 \in S, \A k \in 1 .. n : k - 1 \in S => k \in S
  PROVE  \A k \in 0 .. n : k \in S
<1> DEFINE T == {m \in Nat : m <= n => m \in S}
<1>1. 0 \in T
  OBVIOUS
<1>2. ASSUME NEW m \in Nat, m \in T PROVE m + 1 \in T
  BY <1>2
<1>3. \A m \in Nat : m \in T
  <2> HIDE DEF T
  <2> QED  BY <1>1, <1>2, Induct
<1> QED  BY <1>3

Iterates(n, V, e, F, f) ==
  f \in [0 .. n -> V] /\ f[0] = e /\ \A k \in 1 .. n : f[k] = F[k][f[k - 1]]

\* Iterated functions exist.
LEMMA Recursion ==
  ASSUME NEW n \in Nat, NEW V, NEW e \in V, NEW F \in [1 .. n -> [V -> V]]
  PROVE  \E f : Iterates(n, V, e, F, f)
<1> DEFINE Good(m, f) == f[0] = e /\ \A k \in 1 .. m : f[k] = F[k][f[k - 1]]
           S == {m \in Nat : m <= n => \E f \in [0 .. m -> V] : Good(m, f)}
<1>1. 0 \in S
  <2>1. [k \in 0 .. 0 |-> e] \in [0 .. 0 -> V] /\ Good(0, [k \in 0 .. 0 |-> e])
    OBVIOUS
  <2> QED  BY <2>1
<1>2. ASSUME NEW m \in Nat, m \in S PROVE m + 1 \in S
  <2> SUFFICES ASSUME m + 1 <= n PROVE \E f \in [0 .. m + 1 -> V] : Good(m + 1, f)
    OBVIOUS
  <2>1. PICK f \in [0 .. m -> V] : Good(m, f)
    BY <1>2
  <2> DEFINE g == [k \in 0 .. m + 1 |-> IF k <= m THEN f[k] ELSE F[m + 1][f[m]]]
  <2>2. m + 1 \in 1 .. n /\ f[m] \in V
    OBVIOUS
  <2>3. g \in [0 .. m + 1 -> V]
    BY <2>2
  <2>4. Good(m + 1, g)
    <3>1. g[0] = e
      BY <2>1
    <3>2. ASSUME NEW k \in 1 .. m + 1 PROVE g[k] = F[k][g[k - 1]]
      <4>1. k - 1 \in 0 .. m /\ k \in 0 .. m + 1
        OBVIOUS
      <4>2. g[k - 1] = f[k - 1]
        BY <4>1
      <4>3. CASE k = m + 1
        <5>1. k - 1 = m /\ ~(k <= m)
          BY <4>3
        <5>2. g[k] = F[m + 1][f[m]]
          BY <4>1, <5>1
        <5> QED  BY <4>2, <4>3, <5>1, <5>2
      <4>4. CASE k <= m
        BY <4>2, <4>4, <2>1
      <4> QED  BY <4>3, <4>4
    <3> QED  BY <3>1, <3>2
  <2> QED  BY <2>3, <2>4
<1> HIDE DEF S
<1>3. \A m \in Nat : m \in S
  BY <1>1, <1>2, Induct
<1> QED  BY <1>3 DEF S, Iterates

\* Remainders by the modulus.
LEMMA DivMod ==
  ASSUME NEW a \in Int
  PROVE  /\ a % P \in Elements
         /\ a = P * (a \div P) + (a % P)
         /\ a \div P \in Int
BY FieldAssumption DEF Elements

\* A quotient and a remainder are the only ones.
LEMMA ModUnique ==
  ASSUME NEW a \in Int, NEW q \in Int, NEW r \in Elements, a = q * P + r
  PROVE  a % P = r
BY FieldAssumption DEF Elements

\* Multiples of the modulus do not count.
LEMMA SameMod ==
  ASSUME NEW a \in Int, NEW b \in Int, NEW q \in Int, a = b + q * P
  PROVE  a % P = b % P
<1>1. a = (q + (b \div P)) * P + (b % P)
  BY DivMod, FieldAssumption
<1> QED  BY <1>1, DivMod, ModUnique

\* Elements are numbers.
LEMMA ElementsAreNat == Elements \subseteq Nat /\ Elements \subseteq Int /\ P \in Nat /\ P \in Int
BY FieldAssumption DEF Elements

\* Remainders add.
LEMMA ModAdd == \A a, b \in Int : ((a % P) + b) % P = (a + b) % P
<1> TAKE a, b \in Int
<1> DEFINE q == a \div P
           r == a % P
<1>1. q \in Int /\ r \in Int /\ a = P * q + r
  BY DivMod, ElementsAreNat
<1> HIDE DEF q, r
<1>2. r + b = (a + b) + (-q) * P /\ r + b \in Int /\ a + b \in Int /\ -q \in Int
  BY <1>1, ElementsAreNat
<1>3. (r + b) % P = (a + b) % P
  BY <1>1, <1>2, SameMod
<1> QED  BY <1>3 DEF r

\* Distributivity, in the form the next lemma needs.
LEMMA MulShift == \A a, p, q, r \in Int : a * r = a * (p * q + r) + (-(a * q)) * p
OBVIOUS

\* Remainders multiply.
LEMMA ModMul == \A a, b \in Int : (a * (b % P)) % P = (a * b) % P
<1> TAKE a, b \in Int
<1> DEFINE q == b \div P
           r == b % P
<1>1. q \in Int /\ r \in Int /\ b = P * q + r
  BY DivMod, ElementsAreNat
<1> HIDE DEF q, r
<1>2. a * r \in Int /\ a * b \in Int /\ -(a * q) \in Int
  BY <1>1
<1>3. a * r = a * b + (-(a * q)) * P
  BY <1>1, MulShift, ElementsAreNat
<1>4. (a * r) % P = (a * b) % P
  BY <1>2, <1>3, SameMod
<1> QED  BY <1>4 DEF r

\* The field is closed under its operations.
LEMMA Typed ==
  ASSUME NEW a \in Elements, NEW b \in Elements
  PROVE  Plus(a, b) \in Elements /\ Minus(a, b) \in Elements /\ Times(a, b) \in Elements
BY DivMod, FieldAssumption DEF Plus, Minus, Times, Elements

\* Zero, one and two are elements, and the first is none of the others.
LEMMA ZeroOne == 0 \in Elements /\ 1 \in Elements /\ 2 \in Elements /\ 0 # 1 /\ 0 # 2
BY FieldAssumption DEF Elements

\* Multiples of the modulus are closed under combinations.
LEMMA Multiples ==
  ASSUME NEW a \in Int, NEW b \in Int, a % P = 0, b % P = 0, NEW c \in Int
  PROVE  (a - b) % P = 0 /\ (c * b) % P = 0 /\ (a - c * b) % P = 0
<1> DEFINE p == a \div P
           q == b \div P
<1>1. p \in Int /\ q \in Int /\ a = P * p + 0 /\ b = P * q + 0 /\ 0 \in Elements /\ P \in Int
  BY DivMod, ElementsAreNat, ZeroOne
<1> HIDE DEF p, q
<1>2. \A PP, pp, qq, cc \in Int :
        /\ (PP * pp + 0) - (PP * qq + 0) = (pp - qq) * PP + 0
        /\ cc * (PP * qq + 0) = (cc * qq) * PP + 0
        /\ (PP * pp + 0) - cc * (PP * qq + 0) = (pp - cc * qq) * PP + 0
  OBVIOUS
<1>3. /\ a - b = (p - q) * P + 0 /\ c * b = (c * q) * P + 0
      /\ a - c * b = (p - c * q) * P + 0
  BY <1>1, <1>2
<1>4. /\ a - b \in Int /\ c * b \in Int /\ a - c * b \in Int
      /\ p - q \in Int /\ c * q \in Int /\ p - c * q \in Int
  BY <1>1
<1>5. \A y, k \in Int : y = k * P + 0 => y % P = 0
  BY <1>1, ModUnique
<1> QED  BY <1>3, <1>4, <1>5, Zenon

\* A prime that divides a product divides a factor.
LEMMA PrimeDivides ==
  ASSUME NEW v \in Int, NEW z \in Int, (z * v) % P = 0, v % P # 0
  PROVE  z % P = 0
<1> DEFINE S == {d \in Nat : d > 0 /\ (d * v) % P = 0}
<1>1. P \in S
  <2>1. P % P = 0
    BY FieldAssumption
  <2>2. (v * P) % P = 0
    BY <2>1, Multiples, ElementsAreNat
  <2>3. v * P = P * v
    BY ElementsAreNat
  <2> QED  BY <2>2, <2>3, FieldAssumption
<1>2. PICK d \in S : \A n \in S : d <= n
  BY <1>1, Least
<1>3. d \in Nat /\ d > 0 /\ (d * v) % P = 0 /\ d <= P
  BY <1>1, <1>2
<1>4. \A r \in Nat : r < d /\ (r * v) % P = 0 => r = 0
  <2> TAKE r \in Nat
  <2> HAVE r < d /\ (r * v) % P = 0
  <2>1. r \notin S
    BY <1>2, <1>3
  <2> QED  BY <2>1
<1>5. d # 1
  <2>1. 1 * v = v
    OBVIOUS
  <2> QED  BY <1>3, <2>1
<1> HIDE DEF S
\* What is left of a multiple when d is divided out of a number.
<1>6. \A y \in Int : (y * v) % P = 0 => y % d = 0
  <2> TAKE y \in Int
  <2> HAVE (y * v) % P = 0
  <2> DEFINE q == y \div d
             r == y % d
  <2>1. q \in Int /\ r \in Nat /\ r < d /\ y = d * q + r
    BY <1>3
  <2> HIDE DEF q, r
  <2>2. \A dd, qq, rr, vv \in Int : rr * vv = (dd * qq + rr) * vv - qq * (dd * vv)
    OBVIOUS
  <2>3. r * v = y * v - q * (d * v)
    BY <1>3, <2>1, <2>2
  <2>4. d * v \in Int /\ y * v \in Int
    BY <1>3
  <2>5. (y * v - q * (d * v)) % P = 0
    <3> DEFINE a == y * v
               b == d * v
    <3>1. a \in Int /\ b \in Int /\ q \in Int /\ a % P = 0 /\ b % P = 0
      BY <1>3, <2>1, <2>4
    <3> HIDE DEF a, b
    <3>2. (a - q * b) % P = 0
      BY <3>1, Multiples
    <3> QED  BY <3>2 DEF a, b
  <2>6. r = 0
    BY <1>4, <2>1, <2>3, <2>5
  <2> QED  BY <2>6 DEF r
<1>7. P % d = 0
  BY <1>1, <1>6, ElementsAreNat DEF S
<1>8. d = P
  <2>1. d \notin 2 .. P - 1
    BY <1>7, FieldAssumption
  <2> QED  BY <1>3, <1>5, <2>1, ElementsAreNat
<1> QED  BY <1>6, <1>8

\* The field has no zero divisor.
LEMMA NoZeroDivisor ==
  ASSUME NEW a \in Elements \ {0}, NEW b \in Elements \ {0}
  PROVE  Times(a, b) \in Elements \ {0}
<1>1. a \in Int /\ b \in Int /\ a % P = a /\ b % P = b
  BY FieldAssumption DEF Elements
<1>2. (a * b) % P # 0
  BY <1>1, PrimeDivides
<1> QED  BY <1>2, Typed DEF Times

\* The inverse a CHOOSE names is one.
LEMMA InverseIs ==
  ASSUME NEW a \in Elements \ {0}
  PROVE  Inv(a) \in Elements /\ Times(a, Inv(a)) = 1
<1> DEFINE S == {d \in Nat : d > 0 /\ \E x \in Int : d = (a * x) % P}
<1>0. a \in Int /\ a \in Nat /\ a > 0 /\ a % P = a /\ P \in Nat /\ P \in Int /\ P > 2
  BY FieldAssumption DEF Elements
<1>1. a \in S
  <2>1. a * 1 = a
    BY <1>0
  <2>2. a = (a * 1) % P /\ 1 \in Int
    BY <1>0, <2>1
  <2>3. \E x \in Int : a = (a * x) % P
    BY <2>2, Zenon
  <2> QED  BY <1>0, <2>3
<1>2. PICK d \in S : \A n \in S : d <= n
  BY <1>1, Least
<1>3. PICK x \in Int : d = (a * x) % P
  BY <1>2
<1>4. d \in Nat /\ d > 0 /\ d < P
  <2>1. a * x \in Int
    BY <1>0
  <2>2. d \in Elements
    BY <1>3, <2>1, DivMod, Zenon
  <2>3. d \in Nat /\ d > 0
    BY <1>2
  <2> QED  BY <1>0, <2>2, <2>3 DEF Elements
<1>5. CASE d # 1
  <2> DEFINE q == P \div d
             r == P % d
             k == (a * x) \div P
  <2>1. d \in 2 .. P - 1
    BY <1>0, <1>4, <1>5
  <2>2. r # 0
    BY <2>1, FieldAssumption
  <2>3. q \in Int /\ r \in Nat /\ r < d /\ P = d * q + r
    BY <1>0, <1>4
  <2>4. k \in Int /\ a * x = P * k + d
    <3>1. a * x \in Int
      BY <1>0
    <3> QED  BY <1>3, <3>1, DivMod
  <2> HIDE DEF q, r, k
  <2>5. a * (-(x * q)) = (-(1 + k * q)) * P + r
    <3>1. \A aa, xx, qq : aa \in Int /\ xx \in Int /\ qq \in Int => aa * (-(xx * qq)) = -((aa * xx) * qq)
      OBVIOUS
    <3>2. \A pp, kk, dd, qq, rr \in Int : pp = dd * qq + rr =>
             -((pp * kk + dd) * qq) = (-(1 + kk * qq)) * pp + rr
      OBVIOUS
    <3>3. d \in Int /\ r \in Int
      BY <1>4, <2>3
    <3>4. -((P * k + d) * q) = (-(1 + k * q)) * P + r
      BY <1>0, <2>3, <2>4, <3>2, <3>3
    <3> QED  BY <1>0, <2>3, <2>4, <3>1, <3>4
  <2>6. (a * (-(x * q))) % P = r
    <3>1. r \in Elements
      BY <1>0, <1>4, <2>3 DEF Elements
    <3>2. a * (-(x * q)) \in Int /\ -(1 + k * q) \in Int
      BY <1>0, <2>3, <2>4
    <3> QED  BY <2>5, <3>1, <3>2, ModUnique
  <2>7. -(x * q) \in Int
    BY <2>3
  <2>8. r \in S
    BY <2>2, <2>3, <2>6, <2>7
  <2> HIDE DEF S
  <2>9. d <= r
    BY <1>2, <2>8
  <2> QED  BY <1>4, <2>3, <2>9
<1>6. CASE d = 1
  <2>1. x % P \in Elements /\ (a * (x % P)) % P = (a * x) % P
    BY <1>0, DivMod, ModMul
  <2>2. Times(a, x % P) = 1
    BY <1>3, <1>6, <2>1 DEF Times
  <2>3. \E b \in Elements : Times(a, b) = 1
    BY <2>1, <2>2
  <2> QED  BY <2>3 DEF Inv
<1>7. d = 1 \/ d # 1
  OBVIOUS
<1> QED  BY <1>5, <1>6, <1>7

\* A vector is a sequence of its length.
LEMMA VectorIsSeq ==
  ASSUME NEW n \in Nat, NEW V, NEW f \in [1 .. n -> V]
  PROVE  f \in Seq(V) /\ Len(f) = n
OBVIOUS

\* The powers of two, by a name the provers do not look into.
Two(k) == 2^k

\* The powers of two up to the bound of Log2.
LEMMA PowersOfTwo ==
  \A r \in 0 .. 30 : Two(r) \in Nat /\ Two(r) > 0 /\ (r = 0 => Two(r) = 1) /\ (r > 0 => Two(r) = 2 * Two(r - 1))
<1> TAKE r \in 0 .. 30
<1>1. CASE r = 0  BY <1>1 DEF Two
<1>2. CASE r = 1  BY <1>2 DEF Two
<1>3. CASE r = 2  BY <1>3 DEF Two
<1>4. CASE r = 3  BY <1>4 DEF Two
<1>5. CASE r = 4  BY <1>5 DEF Two
<1>6. CASE r = 5  BY <1>6 DEF Two
<1>7. CASE r = 6  BY <1>7 DEF Two
<1>8. CASE r = 7  BY <1>8 DEF Two
<1>9. CASE r = 8  BY <1>9 DEF Two
<1>10. CASE r = 9  BY <1>10 DEF Two
<1>11. CASE r = 10 BY <1>11 DEF Two
<1>12. CASE r = 11 BY <1>12 DEF Two
<1>13. CASE r = 12 BY <1>13 DEF Two
<1>14. CASE r = 13 BY <1>14 DEF Two
<1>15. CASE r = 14 BY <1>15 DEF Two
<1>16. CASE r = 15 BY <1>16 DEF Two
<1>17. CASE r = 16 BY <1>17 DEF Two
<1>18. CASE r = 17 BY <1>18 DEF Two
<1>19. CASE r = 18 BY <1>19 DEF Two
<1>20. CASE r = 19 BY <1>20 DEF Two
<1>21. CASE r = 20 BY <1>21 DEF Two
<1>22. CASE r = 21 BY <1>22 DEF Two
<1>23. CASE r = 22 BY <1>23 DEF Two
<1>24. CASE r = 23 BY <1>24 DEF Two
<1>25. CASE r = 24 BY <1>25 DEF Two
<1>26. CASE r = 25 BY <1>26 DEF Two
<1>27. CASE r = 26 BY <1>27 DEF Two
<1>28. CASE r = 27 BY <1>28 DEF Two
<1>29. CASE r = 28 BY <1>29 DEF Two
<1>30. CASE r = 29 BY <1>30 DEF Two
<1>31. CASE r = 30 BY <1>31 DEF Two
<1> QED  BY <1>1, <1>2, <1>3, <1>4, <1>5, <1>6, <1>7, <1>8, <1>9, <1>10, <1>11, <1>12,
         <1>13, <1>14, <1>15, <1>16, <1>17, <1>18, <1>19, <1>20, <1>21, <1>22, <1>23, <1>24,
         <1>25, <1>26, <1>27, <1>28, <1>29, <1>30, <1>31

\* Log2 names the exponent of a power of two.
LEMMA LogIs ==
  ASSUME NEW n, IsPowerOfTwo(n)
  PROVE  Log2(n) \in 0 .. 30 /\ n = Two(Log2(n))
BY DEF IsPowerOfTwo, Log2, Two

-----------------------------------------------------------------------------
\* Digests.

\* What a step keeps holds all along.
LEMMA Stays ==
  ASSUME NEW n \in Nat, NEW V, NEW g, g[0] \in V,
         \A k \in 1 .. n : g[k - 1] \in V => g[k] \in V
  PROVE  \A k \in 0 .. n : g[k] \in V
<1> DEFINE S == {m \in Nat : m <= n => g[m] \in V}
<1>1. 0 \in S
  OBVIOUS
<1>2. ASSUME NEW m \in Nat, m \in S PROVE m + 1 \in S
  BY <1>2
<1>3. \A m \in Nat : m \in S
  <2> HIDE DEF S
  <2> QED  BY <1>1, <1>2, Induct
<1> QED  BY <1>3

Spells(leaves, n, d) ==
  /\ d \in [0 .. n -> Nat]
  /\ d[0] = 1
  /\ \A k \in 1 .. n : d[k] = P * d[k - 1] + leaves[k]
  /\ Digest(leaves) = d[n]

\* The digest's recursion defines what it says.
LEMMA DigestIs ==
  ASSUME NEW n \in Nat, NEW leaves \in [1 .. n -> Elements]
  PROVE  \E d : Spells(leaves, n, d)
<1> DEFINE F == [k \in 1 .. n |-> [y \in Nat |-> P * y + leaves[k]]]
<1>0. Len(leaves) = n /\ P \in Nat /\ \A k \in 1 .. n : leaves[k] \in Nat
  BY VectorIsSeq, ElementsAreNat
<1>1. F \in [1 .. n -> [Nat -> Nat]]
  <2>1. \A k \in 1 .. n, y \in Nat : P * y + leaves[k] \in Nat
    BY <1>0
  <2> QED  BY <2>1
<1>2. \A k \in 1 .. n, y \in Nat : F[k][y] = P * y + leaves[k]
  OBVIOUS
<1> HIDE DEF F
<1>3. PICK t : Iterates(n, Nat, 1, F, t)
  BY <1>1, Recursion
<1>4. t = [k \in 0 .. n |-> IF k = 0 THEN 1 ELSE P * t[k - 1] + leaves[k]]
  <2>1. t \in [0 .. n -> Nat] /\ t[0] = 1 /\ \A k \in 1 .. n : t[k] = F[k][t[k - 1]]
    BY <1>3 DEF Iterates
  <2>2. \A k \in 1 .. n : t[k] = P * t[k - 1] + leaves[k]
    <3> TAKE k \in 1 .. n
    <3>1. t[k - 1] \in Nat
      BY <2>1
    <3> QED  BY <2>1, <3>1, <1>2
  <2>3. \A k \in 0 .. n : t[k] = IF k = 0 THEN 1 ELSE P * t[k - 1] + leaves[k]
    BY <2>1, <2>2
  <2> QED  BY <2>1, <2>3
<1>5. \E g : g = [k \in 0 .. Len(leaves) |-> IF k = 0 THEN 1 ELSE P * g[k - 1] + leaves[k]]
             /\ Digest(leaves) = g[Len(leaves)]
  BY <1>0, <1>4 DEF Digest
<1>6. PICK g : g = [k \in 0 .. n |-> IF k = 0 THEN 1 ELSE P * g[k - 1] + leaves[k]]
               /\ Digest(leaves) = g[n]
  BY <1>0, <1>5
<1>7. g[0] = 1 /\ \A k \in 1 .. n : g[k] = P * g[k - 1] + leaves[k]
  <2>1. g[0] = 1
    BY <1>6
  <2>2. ASSUME NEW k \in 1 .. n PROVE g[k] = P * g[k - 1] + leaves[k]
    BY <1>6
  <2> QED  BY <2>1, <2>2
<1>8. \A k \in 1 .. n : g[k - 1] \in Nat => g[k] \in Nat
  <2> TAKE k \in 1 .. n
  <2> HAVE g[k - 1] \in Nat
  <2>0. \A p, x, y \in Nat : p * x + y \in Nat
    OBVIOUS
  <2>1. P * g[k - 1] + leaves[k] \in Nat
    BY <1>0, <2>0
  <2>2. g[k] = P * g[k - 1] + leaves[k]
    BY <1>7
  <2> QED  BY <2>1, <2>2
<1>9. \A k \in 0 .. n : g[k] \in Nat
  <2>1. g[0] \in Nat
    BY <1>7
  <2> QED  BY <1>8, <2>1, Stays
<1>10. g \in [0 .. n -> Nat]
  <2>1. g = [k \in 0 .. n |-> g[k]]
    BY <1>6
  <2> QED  BY <1>9, <2>1
<1> QED  BY <1>6, <1>7, <1>10 DEF Spells

Zeros(n) == [i \in 1 .. n |-> 0]

\* Two halves spell what the first spells, moved up, and the second.
LEMMA JoinArith ==
  \A p, x, w, y, b \in Int : p * (x * w + (y - w)) + b = x * (p * w) + ((p * y + b) - p * w)
OBVIOUS

\* The arithmetic of the digest's range.
LEMMA RangeArith ==
  \A p, w, y, b \in Int :
     p > 0 /\ 0 <= b /\ b < p /\ w <= y /\ y <= 2 * w - 1
       => p * w <= p * y + b /\ p * y + b <= 2 * (p * w) - 1
<1> TAKE p, w, y, b \in Int
<1> HAVE p > 0 /\ 0 <= b /\ b < p /\ w <= y /\ y <= 2 * w - 1
<1>1. p * w <= p * y
  OBVIOUS
<1>2. p * y <= p * (2 * w - 1)
  OBVIOUS
<1>3. p * (2 * w - 1) = 2 * (p * w) - p
  OBVIOUS
<1> QED  BY <1>1, <1>2, <1>3

\* The digest of two blocks, from the digest of each; digests of n leaves lie
\* between that of zeros and its double.
LEMMA DigestJoin ==
  ASSUME NEW n \in Nat, NEW m \in Nat,
         NEW A \in [1 .. n -> Elements], NEW B \in [1 .. m -> Elements],
         NEW C \in [1 .. (n + m) -> Elements],
         \A i \in 1 .. n : C[i] = A[i], \A i \in 1 .. m : C[n + i] = B[i]
  PROVE  /\ Digest(A) \in Nat /\ Digest(B) \in Nat /\ Digest(Zeros(m)) \in Nat
         /\ Digest(C) = Digest(A) * Digest(Zeros(m)) + (Digest(B) - Digest(Zeros(m)))
         /\ Digest(Zeros(m)) <= Digest(B) /\ Digest(B) <= 2 * Digest(Zeros(m)) - 1
<1>0. n + m \in Nat /\ Zeros(m) \in [1 .. m -> Elements] /\ \A i \in 1 .. m : Zeros(m)[i] = 0
  BY ZeroOne DEF Zeros
<1>1. PICK a : Spells(A, n, a)
  BY DigestIs
<1>2. PICK b : Spells(B, m, b)
  BY DigestIs
<1>3. PICK c : Spells(C, n + m, c)
  BY <1>0, DigestIs
<1>4. PICK z : Spells(Zeros(m), m, z)
  BY <1>0, DigestIs
<1>5. /\ \A k \in Nat : k <= n => a[k] \in Nat
      /\ \A k \in Nat : k <= m => b[k] \in Nat /\ z[k] \in Nat
      /\ a[0] = 1 /\ b[0] = 1 /\ c[0] = 1 /\ z[0] = 1
      /\ Digest(A) = a[n] /\ Digest(B) = b[m] /\ Digest(C) = c[n + m] /\ Digest(Zeros(m)) = z[m]
  BY <1>1, <1>2, <1>3, <1>4 DEF Spells
<1>6. \A k \in Nat : k + 1 <= n => a[k + 1] = P * a[k] + A[k + 1]
  <2> TAKE k \in Nat
  <2> HAVE k + 1 <= n
  <2>1. k + 1 \in 1 .. n /\ (k + 1) - 1 = k
    OBVIOUS
  <2> QED  BY <1>1, <2>1 DEF Spells
<1>7. \A k \in Nat : k + 1 <= m => /\ b[k + 1] = P * b[k] + B[k + 1]
                                   /\ z[k + 1] = P * z[k] + 0
                                   /\ B[k + 1] \in Elements
  <2> TAKE k \in Nat
  <2> HAVE k + 1 <= m
  <2>1. k + 1 \in 1 .. m /\ (k + 1) - 1 = k
    OBVIOUS
  <2>2. b[k + 1] = P * b[k] + B[k + 1]
    BY <1>2, <2>1 DEF Spells
  <2>3. z[k + 1] = P * z[k] + Zeros(m)[k + 1]
    BY <1>4, <2>1 DEF Spells
  <2> QED  BY <1>0, <2>1, <2>2, <2>3
<1>8. \A k \in Nat : k + 1 <= n + m => c[k + 1] = P * c[k] + C[k + 1]
  <2> TAKE k \in Nat
  <2> HAVE k + 1 <= n + m
  <2>1. k + 1 \in 1 .. (n + m) /\ (k + 1) - 1 = k
    OBVIOUS
  <2> QED  BY <1>3, <2>1 DEF Spells
<1>9. c[n] = a[n]
  <2> DEFINE S == {k \in Nat : k <= n => c[k] = a[k]}
  <2>1. 0 \in S
    BY <1>5
  <2>2. ASSUME NEW k \in Nat, k \in S PROVE k + 1 \in S
    <3> SUFFICES ASSUME k + 1 <= n PROVE c[k + 1] = a[k + 1]
      OBVIOUS
    <3>1. k + 1 \in 1 .. n /\ k + 1 <= n + m /\ c[k] = a[k]
      BY <2>2
    <3>2. C[k + 1] = A[k + 1]
      BY <3>1
    <3> QED  BY <1>6, <1>8, <3>1, <3>2
  <2> HIDE DEF S
  <2>3. n \in S
    BY <2>1, <2>2, Induct
  <2> QED  BY <2>3 DEF S
<1> DEFINE T == {k \in Nat : k <= m => /\ c[n + k] = a[n] * z[k] + (b[k] - z[k])
                                       /\ z[k] <= b[k] /\ b[k] <= 2 * z[k] - 1}
<1>10. 0 \in T
  <2>1. a[n] * z[0] + (b[0] - z[0]) = a[n] /\ n + 0 = n
    BY <1>5
  <2> QED  BY <1>5, <1>9, <2>1
<1>11. ASSUME NEW k \in Nat, k \in T PROVE k + 1 \in T
  <2> SUFFICES ASSUME k + 1 <= m
               PROVE  /\ c[n + (k + 1)] = a[n] * z[k + 1] + (b[k + 1] - z[k + 1])
                      /\ z[k + 1] <= b[k + 1] /\ b[k + 1] <= 2 * z[k + 1] - 1
    OBVIOUS
  <2>1. /\ c[n + k] = a[n] * z[k] + (b[k] - z[k]) /\ z[k] <= b[k] /\ b[k] <= 2 * z[k] - 1
        /\ a[n] \in Int /\ z[k] \in Int /\ b[k] \in Int
    BY <1>5, <1>11
  <2>2. n + k \in Nat /\ (n + k) + 1 <= n + m /\ (n + k) + 1 = n + (k + 1) /\ k + 1 \in 1 .. m
    OBVIOUS
  <2>3. C[(n + k) + 1] = B[k + 1]
    BY <2>2
  <2>4. c[n + (k + 1)] = P * (a[n] * z[k] + (b[k] - z[k])) + B[k + 1]
    BY <1>8, <2>1, <2>2, <2>3
  <2>5. /\ b[k + 1] = P * b[k] + B[k + 1] /\ z[k + 1] = P * z[k]
        /\ B[k + 1] \in Int /\ 0 <= B[k + 1] /\ B[k + 1] < P /\ P \in Int /\ P > 0
    <3>1. /\ b[k + 1] = P * b[k] + B[k + 1] /\ z[k + 1] = P * z[k] + 0
          /\ B[k + 1] \in Elements
      BY <1>7
    <3>2. P * z[k] + 0 = P * z[k]
      BY <2>1, ElementsAreNat
    <3>3. /\ B[k + 1] \in Int /\ 0 <= B[k + 1] /\ B[k + 1] < P /\ P \in Int /\ P > 0
      BY <3>1, FieldAssumption DEF Elements
    <3> QED  BY <3>1, <3>2, <3>3
  <2> HIDE DEF T
  <2>6. P * (a[n] * z[k] + (b[k] - z[k])) + B[k + 1]
          = a[n] * (P * z[k]) + ((P * b[k] + B[k + 1]) - P * z[k])
    <3> DEFINE x == a[n]
               w == z[k]
               y == b[k]
               e == B[k + 1]
    <3>1. x \in Int /\ w \in Int /\ y \in Int /\ e \in Int /\ P \in Int
      BY <2>1, <2>5
    <3> HIDE DEF x, w, y, e
    <3>2. P * (x * w + (y - w)) + e = x * (P * w) + ((P * y + e) - P * w)
      BY <3>1, JoinArith
    <3> QED  BY <3>2 DEF x, w, y, e
  <2>7. P * z[k] <= P * b[k] + B[k + 1] /\ P * b[k] + B[k + 1] <= 2 * (P * z[k]) - 1
    BY <2>1, <2>5, RangeArith, Zenon
  <2> QED  BY <2>4, <2>5, <2>6, <2>7, Zenon
<1> HIDE DEF T
<1>12. m \in T
  BY <1>10, <1>11, Induct
<1> QED  BY <1>5, <1>12 DEF T

\* The digest of two subtrees of as many leaves.
LEMMA CompressIs ==
  ASSUME NEW h \in 0 .. 30,
         NEW A \in [1 .. Two(h) -> Elements], NEW B \in [1 .. Two(h) -> Elements],
         NEW C \in [1 .. (Two(h) + Two(h)) -> Elements],
         \A i \in 1 .. Two(h) : C[i] = A[i] /\ C[Two(h) + i] = B[i]
  PROVE  Compress(Digest(A), Digest(B), h) = Digest(C)
<1> DEFINE n == Two(h)
<1>1. n \in Nat
  BY PowersOfTwo
<1>2. /\ A \in [1 .. n -> Elements] /\ B \in [1 .. n -> Elements]
      /\ C \in [1 .. (n + n) -> Elements]
      /\ \A i \in 1 .. n : C[i] = A[i] /\ C[n + i] = B[i]
  OBVIOUS
<1>3. \A l, r : Compress(l, r, h) =
                  IF l \in Digest(Zeros(n)) .. (2 * Digest(Zeros(n)) - 1)
                     /\ r \in Digest(Zeros(n)) .. (2 * Digest(Zeros(n)) - 1)
                  THEN l * Digest(Zeros(n)) + (r - Digest(Zeros(n))) ELSE 0
  BY DEF Compress, Zeros, Two
<1> HIDE DEF n
<1>8. /\ Digest(A) \in Nat /\ Digest(B) \in Nat /\ Digest(Zeros(n)) \in Nat
      /\ Digest(C) = Digest(A) * Digest(Zeros(n)) + (Digest(B) - Digest(Zeros(n)))
      /\ Digest(Zeros(n)) <= Digest(B) /\ Digest(B) <= 2 * Digest(Zeros(n)) - 1
  <2>1. (\A i \in 1 .. n : C[i] = A[i]) /\ (\A i \in 1 .. n : C[n + i] = B[i])
    BY <1>2
  <2> QED  BY <1>1, <1>2, <2>1, DigestJoin, ZenonT(60)
<1> DEFINE w == Digest(Zeros(n))
           a == Digest(A)
           b == Digest(B)
           c == Digest(C)
<1>4. /\ a \in Nat /\ b \in Nat /\ w \in Nat /\ c = a * w + (b - w)
      /\ w <= b /\ b <= 2 * w - 1
  BY <1>8
<1>5. w <= a /\ a <= 2 * w - 1
  <2> DEFINE D == [i \in 1 .. (n + n) |-> IF i <= n THEN A[i] ELSE A[i - n]]
  <2>1. D \in [1 .. (n + n) -> Elements]
    <3>1. \A i \in 1 .. (n + n) : (IF i <= n THEN A[i] ELSE A[i - n]) \in Elements
      <4> TAKE i \in 1 .. (n + n)
      <4>1. IF i <= n THEN i \in 1 .. n ELSE i - n \in 1 .. n
        BY <1>1
      <4> QED  BY <1>2, <4>1
    <3> QED  BY <3>1
  <2>2. \A i \in 1 .. n : D[i] = A[i] /\ D[n + i] = A[i]
    BY <1>1
  <2> HIDE DEF D
  <2>3. (\A i \in 1 .. n : D[i] = A[i]) /\ (\A i \in 1 .. n : D[n + i] = A[i])
    BY <2>2
  <2>4. /\ Digest(A) \in Nat /\ Digest(A) \in Nat /\ Digest(Zeros(n)) \in Nat
        /\ Digest(D) = Digest(A) * Digest(Zeros(n)) + (Digest(A) - Digest(Zeros(n)))
        /\ Digest(Zeros(n)) <= Digest(A) /\ Digest(A) <= 2 * Digest(Zeros(n)) - 1
    <3> HIDE DEF w, a, b, c
    <3>1. A \in [1 .. n -> Elements]
      BY <1>2
    <3> QED  BY <1>1, <2>1, <2>3, <3>1, DigestJoin, ZenonT(60)
  <2> QED  BY <2>4
<1>6. Compress(a, b, h) = IF a \in w .. (2 * w - 1) /\ b \in w .. (2 * w - 1)
                          THEN a * w + (b - w) ELSE 0
  BY <1>3
<1> HIDE DEF w, a, b, c
<1>7. Compress(a, b, h) = c
  BY <1>4, <1>5, <1>6
<1> QED  BY <1>7 DEF a, b, c

\* Equal digests of as many leaves are of equal leaves.
LEMMA DigestInjective ==
  ASSUME NEW n \in Nat, NEW A \in [1 .. n -> Elements], NEW B \in [1 .. n -> Elements],
         Digest(A) = Digest(B)
  PROVE  A = B
<1>1. PICK a : Spells(A, n, a)
  BY DigestIs
<1>2. PICK b : Spells(B, n, b)
  BY DigestIs
<1>3. \A k \in Nat : k < n => /\ a[k + 1] = P * a[k] + A[k + 1] /\ b[k + 1] = P * b[k] + B[k + 1]
                              /\ a[k] \in Int /\ b[k] \in Int
                              /\ A[k + 1] \in Elements /\ B[k + 1] \in Elements
  <2> TAKE k \in Nat
  <2> HAVE k < n
  <2>1. k + 1 \in 1 .. n /\ (k + 1) - 1 = k /\ k \in 0 .. n
    OBVIOUS
  <2> QED  BY <1>1, <1>2, <2>1 DEF Spells
<1>4. ASSUME NEW k \in Nat, k < n, a[k + 1] = b[k + 1] PROVE a[k] = b[k] /\ A[k + 1] = B[k + 1]
  <2> DEFINE x == A[k + 1]
             y == B[k + 1]
             u == a[k]
             v == b[k]
  <2>1. P * u + x = P * v + y /\ u \in Int /\ v \in Int /\ x \in Elements /\ y \in Elements
    BY <1>3, <1>4
  <2> HIDE DEF x, y, u, v
  <2>2. P * u + x = u * P + x /\ P * v + y = v * P + y /\ P * u + x \in Int
    BY <2>1, ElementsAreNat
  <2>3. (P * u + x) % P = x /\ (P * u + x) % P = y
    BY <2>1, <2>2, ModUnique
  <2>4. P * u = P * v
    BY <2>1, <2>3, ElementsAreNat
  <2>5. u = v
    BY <2>1, <2>4, FieldAssumption
  <2> QED  BY <2>3, <2>5 DEF x, y, u, v
<1> DEFINE S == {k \in Nat : k <= n => a[n - k] = b[n - k]}
<1>5. 0 \in S
  <2>1. n - 0 = n
    OBVIOUS
  <2> QED  BY <1>1, <1>2, <2>1 DEF Spells
<1>6. ASSUME NEW k \in Nat, k \in S PROVE k + 1 \in S
  <2> SUFFICES ASSUME k + 1 <= n PROVE a[n - (k + 1)] = b[n - (k + 1)]
    OBVIOUS
  <2>1. n - (k + 1) \in Nat /\ n - (k + 1) < n /\ (n - (k + 1)) + 1 = n - k
    OBVIOUS
  <2>2. a[n - k] = b[n - k]
    BY <1>6
  <2> QED  BY <1>4, <2>1, <2>2
<1> HIDE DEF S
<1>7. \A k \in Nat : k \in S
  BY <1>5, <1>6, Induct
<1>8. ASSUME NEW i \in 1 .. n PROVE A[i] = B[i]
  <2>1. n - i \in Nat /\ n - i <= n /\ n - (n - i) = i /\ i - 1 \in Nat /\ i - 1 < n /\ (i - 1) + 1 = i
    OBVIOUS
  <2>2. a[i] = b[i]
    BY <1>7, <2>1 DEF S
  <2> QED  BY <1>4, <2>1, <2>2
<1> QED  BY <1>8

-----------------------------------------------------------------------------
\* Division, logarithms and blocks.

\* Division by a block's width.
LEMMA DivIs ==
  ASSUME NEW w \in Nat, w > 0, NEW i \in Int
  PROVE  /\ i = w * (i \div w) + (i % w) /\ i \div w \in Int
         /\ i % w \in Nat /\ i % w < w
OBVIOUS

\* A place has one block and one offset in it.
LEMMA DivUnique ==
  ASSUME NEW w \in Nat, w > 0, NEW q \in Int, NEW r \in Nat, r < w, NEW i, i = w * q + r
  PROVE  i \div w = q /\ i % w = r
<1> DEFINE p == i \div w
           s == i % w
<1>1. i \in Int
  OBVIOUS
<1>2. w * p + s = w * q + r /\ p \in Int /\ s \in Nat /\ s < w
  BY <1>1, DivIs
<1> HIDE DEF p, s
<1>3. ~(p < q)
  <2> SUFFICES ASSUME p + 1 <= q PROVE FALSE
    BY <1>2
  <2>1. w * (p + 1) <= w * q /\ w * (p + 1) = w * p + w
    BY <1>2
  <2> QED  BY <1>2, <2>1
<1>4. ~(q < p)
  <2> SUFFICES ASSUME q + 1 <= p PROVE FALSE
    BY <1>2
  <2>1. w * (q + 1) <= w * p /\ w * (q + 1) = w * q + w
    BY <1>2
  <2> QED  BY <1>2, <2>1
<1>5. p = q
  BY <1>2, <1>3, <1>4
<1> QED  BY <1>2, <1>5 DEF p, s

\* Powers of two.
LEMMA TwoIncreases == \A j, i \in 0 .. 30 : i < j => Two(i) < Two(j)
<1> DEFINE S == {j \in Nat : j <= 30 => \A i \in 0 .. 30 : i < j => Two(i) < Two(j)}
<1>1. 0 \in S
  OBVIOUS
<1>2. ASSUME NEW j \in Nat, j \in S PROVE j + 1 \in S
  <2> SUFFICES ASSUME j + 1 <= 30, NEW i \in 0 .. 30, i < j + 1 PROVE Two(i) < Two(j + 1)
    OBVIOUS
  <2>1. j \in 0 .. 30 /\ j + 1 \in 0 .. 30 /\ j + 1 > 0 /\ (j + 1) - 1 = j
    OBVIOUS
  <2>2. Two(j + 1) = 2 * Two((j + 1) - 1) /\ Two(j) \in Nat /\ Two(j) > 0 /\ Two(i) \in Nat
    BY <2>1, PowersOfTwo
  <2>3. Two(j + 1) = 2 * Two(j)
    BY <2>1, <2>2
  <2>4. i = j \/ Two(i) < Two(j)
    BY <1>2, <2>1
  <2> QED  BY <2>2, <2>3, <2>4
<1> HIDE DEF S
<1>3. \A j \in Nat : j \in S
  BY <1>1, <1>2, Induct
<1> QED  BY <1>3 DEF S

\* Log2 inverts the powers of two.
LEMMA LogOfPower ==
  ASSUME NEW h \in 0 .. 30
  PROVE  Log2(Two(h)) = h /\ IsPowerOfTwo(Two(h))
<1>1. IsPowerOfTwo(Two(h))
  BY DEF IsPowerOfTwo, Two
<1>2. Log2(Two(h)) \in 0 .. 30 /\ Two(h) = Two(Log2(Two(h)))
  BY <1>1, LogIs
<1> DEFINE k == Log2(Two(h))
<1>3. k \in 0 .. 30 /\ Two(h) = Two(k)
  BY <1>2
<1> HIDE DEF k
<1>4. ~(k < h) /\ ~(h < k)
  <2>1. k < h => Two(k) < Two(h)
    BY <1>3, TwoIncreases
  <2>2. h < k => Two(h) < Two(k)
    BY <1>3, TwoIncreases
  <2>3. Two(h) \in Nat
    BY PowersOfTwo
  <2> DEFINE t == Two(h)
  <2>4. ~(t < t) /\ t = Two(k)
    BY <1>3, <2>3
  <2> HIDE DEF t
  <2> QED  BY <2>1, <2>2, <2>4 DEF t
<1>5. k = h
  BY <1>3, <1>4
<1> QED  BY <1>1, <1>5 DEF k

\* The b-th run of w leaves.
Block(leaves, b, w) == [i \in 1 .. w |-> leaves[b * w + i]]

\* A block of leaves is what SubSeq cuts out.
LEMMA BlockIs ==
  ASSUME NEW n \in Nat, NEW leaves \in [1 .. n -> Elements], NEW b \in Nat, NEW w \in Nat,
         (b + 1) * w <= n
  PROVE  /\ Block(leaves, b, w) \in [1 .. w -> Elements]
         /\ SubSeq(leaves, b * w + 1, (b + 1) * w) = Block(leaves, b, w)
<1> DEFINE m == b * w
<1>1. m \in Nat /\ (b + 1) * w = m + w
  OBVIOUS
<1> HIDE DEF m
<1>2. \A i \in 1 .. w : m + i \in 1 .. n
  BY <1>1
<1>3. [i \in 1 .. w |-> leaves[m + i]] \in [1 .. w -> Elements]
  BY <1>2
<1>4. SubSeq(leaves, m + 1, m + w) = [i \in 1 .. w |-> leaves[m + i]]
  <2>1. SubSeq(leaves, m + 1, m + w) = [i \in 1 .. (1 + (m + w) - (m + 1)) |-> leaves[i + (m + 1) - 1]]
    BY <1>1
  <2>2. 1 + (m + w) - (m + 1) = w /\ \A i \in 1 .. w : i + (m + 1) - 1 = m + i
    BY <1>1
  <2> QED  BY <2>1, <2>2
<1> QED  BY <1>1, <1>3, <1>4 DEF Block, m

BlockCut(leaves, b, w) == SubSeq(leaves, b * w + 1, (b + 1) * w) = Block(leaves, b, w)

\* The second half of it, by name.
LEMMA BlockIsCut ==
  ASSUME NEW n \in Nat, NEW leaves \in [1 .. n -> Elements], NEW b \in Nat, NEW w \in Nat,
         (b + 1) * w <= n
  PROVE  BlockCut(leaves, b, w)
BY BlockIs, Zenon DEF BlockCut

\* Where an index lies among the blocks of w leaves and those of twice as many.
LEMMA HalfBlock ==
  ASSUME NEW w \in Nat, w > 0, NEW m \in Nat, NEW n \in Nat, n = m * (w + w),
         NEW index \in 0 .. (n - 1)
  PROVE  LET b == index \div w
             c == index \div (w + w)
         IN /\ b \in Nat /\ c \in Nat /\ (b + 1) * w <= n /\ (c + 1) * (w + w) <= n
            /\ \/ b % 2 = 0 /\ b = c + c
               \/ b % 2 # 0 /\ b % 2 = 1 /\ b = c + c + 1
<1> DEFINE b == index \div w
           r == index % w
           p == b \div 2
           s == b % 2
<1>1. index = w * b + r /\ b \in Int /\ r \in Nat /\ r < w
  BY DivIs
<1> HIDE DEF b, r
<1>2. b = 2 * p + s /\ p \in Int /\ (s = 0 \/ s = 1)
  BY <1>1
<1> HIDE DEF p, s
<1>3. \A ww, pp \in Int : /\ ww * (2 * pp + 0) = (ww + ww) * pp + 0
                          /\ ww * (2 * pp + 1) = (ww + ww) * pp + ww
                          /\ (pp + 1) * ww = ww * pp + ww
  OBVIOUS
<1>4. PICK t \in Nat : t < w + w /\ index = (w + w) * p + t /\ (s = 0 => t = r) /\ (s = 1 => t = w + r)
  <2>1. CASE s = 0
    <3>1. index = (w + w) * p + r
      BY <1>1, <1>2, <1>3, <2>1
    <3> QED  BY <1>1, <2>1, <3>1
  <2>2. CASE s = 1
    <3>1. index = (w + w) * p + (w + r)
      BY <1>1, <1>2, <1>3, <2>2
    <3> QED  BY <1>1, <2>2, <3>1
  <2> QED  BY <1>2, <2>1, <2>2
<1> DEFINE v == w + w
<1>v. v \in Nat /\ v > 0 /\ t < v /\ index = v * p + t /\ n = v * m /\ w + w = v
  BY <1>4
<1> HIDE DEF v
<1>5. index \div (w + w) = p
  <2>1. index \div v = p
    BY <1>2, <1>v, DivUnique
  <2> QED  BY <2>1, <1>v
<1>s. \A x \in Int : v * (x + 1) = v * x + v
  BY <1>v
<1>6. p >= 0
  <2> SUFFICES ASSUME p + 1 <= 0 PROVE FALSE
    BY <1>2
  <2>1. v * (p + 1) <= 0
    BY <1>2, <1>v
  <2>2. v * (p + 1) = v * p + v /\ v * p \in Int
    BY <1>2, <1>s, <1>v
  <2> QED  BY <1>v, <2>1, <2>2
<1>7. p + 1 <= m
  <2> SUFFICES ASSUME m <= p PROVE FALSE
    BY <1>2
  <2>1. v * m <= v * p /\ v * p \in Int /\ v * m \in Int
    BY <1>2, <1>v
  <2> QED  BY <1>v, <2>1
<1>8. (p + 1) * (w + w) <= n
  <2>1. v * (p + 1) <= v * m
    BY <1>2, <1>7, <1>v
  <2>2. (p + 1) * v = v * (p + 1)
    BY <1>2, <1>v
  <2> QED  BY <1>v, <2>1, <2>2
<1>9. (b + 1) * w <= n
  <2>1. (b + 1) * w = w * b + w /\ (p + 1) * (w + w) = (w + w) * p + (w + w)
    BY <1>1, <1>2
  <2>2. w * b = (w + w) * p \/ w * b = (w + w) * p + w
    BY <1>2, <1>3
  <2> QED  BY <1>8, <2>1, <2>2, <1>1, <1>2
<1>10. b \in Nat /\ p \in Nat
  BY <1>1, <1>2, <1>6
<1>11. \/ s = 0 /\ b = p + p
       \/ s # 0 /\ s = 1 /\ b = p + p + 1
  BY <1>2
<1> QED  BY <1>5, <1>8, <1>9, <1>10, <1>11 DEF b, s

\* Two neighbouring blocks and the one they make.
LEMMA JoinBlocks ==
  ASSUME NEW n \in Nat, NEW leaves \in [1 .. n -> Elements], NEW c \in Nat, NEW w \in Nat,
         (c + 1) * (w + w) <= n
  PROVE  /\ Block(leaves, c + c, w) \in [1 .. w -> Elements]
         /\ Block(leaves, c + c + 1, w) \in [1 .. w -> Elements]
         /\ Block(leaves, c, w + w) \in [1 .. (w + w) -> Elements]
         /\ \A i \in 1 .. w : /\ Block(leaves, c, w + w)[i] = Block(leaves, c + c, w)[i]
                              /\ Block(leaves, c, w + w)[w + i] = Block(leaves, c + c + 1, w)[i]
         /\ (c + c + 1) * w <= n /\ ((c + c + 1) + 1) * w <= n
<1> DEFINE d == c + c
<1>1. /\ c * (w + w) = (c + c) * w /\ (c + 1) * (w + w) = ((c + c) + 1 + 1) * w
      /\ ((c + c) + 1) * w = (c + c) * w + w /\ ((c + c) + 1) * w <= ((c + c) + 1 + 1) * w
      /\ (c + c) * w \in Nat /\ ((c + c) + 1) * w \in Nat
  OBVIOUS
<1>2. (d + 1) * w <= n /\ ((d + 1) + 1) * w <= n /\ d \in Nat /\ d + 1 \in Nat
  BY <1>1
<1>3. Block(leaves, d, w) \in [1 .. w -> Elements] /\ Block(leaves, d + 1, w) \in [1 .. w -> Elements]
  BY <1>2, BlockIs
<1>4. Block(leaves, c, w + w) \in [1 .. (w + w) -> Elements]
  <2>1. w + w \in Nat
    OBVIOUS
  <2> QED  BY <2>1, BlockIs
<1>5. ASSUME NEW i \in 1 .. w
      PROVE  /\ Block(leaves, c, w + w)[i] = Block(leaves, d, w)[i]
             /\ Block(leaves, c, w + w)[w + i] = Block(leaves, d + 1, w)[i]
  <2>1. i \in 1 .. (w + w) /\ w + i \in 1 .. (w + w)
    OBVIOUS
  <2>2. Block(leaves, c, w + w)[i] = leaves[c * (w + w) + i]
    BY <2>1 DEF Block
  <2>3. Block(leaves, c, w + w)[w + i] = leaves[c * (w + w) + (w + i)]
    BY <2>1 DEF Block
  <2>4. Block(leaves, d, w)[i] = leaves[d * w + i] /\ Block(leaves, d + 1, w)[i] = leaves[(d + 1) * w + i]
    BY DEF Block
  <2>5. c * (w + w) + i = d * w + i /\ c * (w + w) + (w + i) = (d + 1) * w + i
    BY <1>1
  <2> QED  BY <2>2, <2>3, <2>4, <2>5
<1> QED  BY <1>2, <1>3, <1>4, <1>5

\* The leaves from a block of Two(h) up to all of them.
LEMMA PowersDivide ==
  ASSUME NEW H \in 0 .. 30, NEW h \in 0 .. H
  PROVE  \E m \in Nat : Two(H) = m * Two(h) /\ m > 0
<1> DEFINE S == {k \in Nat : k <= H => \E m \in Nat : Two(H) = m * Two(H - k) /\ m > 0}
<1>1. 0 \in S
  <2>1. Two(H) = 1 * Two(H - 0)
    BY PowersOfTwo
  <2> QED  BY <2>1
<1>2. ASSUME NEW k \in Nat, k \in S PROVE k + 1 \in S
  <2> SUFFICES ASSUME k + 1 <= H PROVE \E m \in Nat : Two(H) = m * Two(H - (k + 1)) /\ m > 0
    OBVIOUS
  <2>1. PICK m \in Nat : Two(H) = m * Two(H - k) /\ m > 0
    BY <1>2
  <2>2. H - k \in 0 .. 30 /\ H - k > 0 /\ (H - k) - 1 = H - (k + 1) /\ H - (k + 1) \in 0 .. 30
    OBVIOUS
  <2>3. Two(H - k) = 2 * Two(H - (k + 1)) /\ Two(H - (k + 1)) \in Nat
    BY <2>2, PowersOfTwo
  <2> DEFINE v == Two(H - (k + 1))
  <2>4. Two(H) = m * (2 * v) /\ v \in Nat
    BY <2>1, <2>3
  <2> HIDE DEF v
  <2>5. m * (2 * v) = (2 * m) * v /\ 2 * m \in Nat /\ 2 * m > 0
    BY <2>1, <2>4
  <2>6. \E y \in Nat : Two(H) = y * v /\ y > 0
    BY <2>4, <2>5
  <2> QED  BY <2>6 DEF v
<1> HIDE DEF S
<1>3. \A k \in Nat : k \in S
  BY <1>1, <1>2, Induct
<1>4. H - h \in Nat /\ H - h <= H /\ H - (H - h) = h
  OBVIOUS
<1> QED  BY <1>3, <1>4 DEF S

-----------------------------------------------------------------------------
\* Openings.

\* The digests on the way up from a leaf.
Way(leaves, index, H) == [h \in 0 .. H |-> Digest(Block(leaves, index \div Two(h), Two(h)))]

\* The block beside the one that holds an index, and the one both make.
LEMMA SiblingIs ==
  ASSUME NEW H \in 0 .. 30, NEW leaves \in [1 .. Two(H) -> Elements],
         NEW index \in 0 .. (Two(H) - 1), NEW h \in 1 .. H
  PROVE  LET b == index \div Two(h - 1)
             mine == Digest(Block(leaves, b, Two(h - 1)))
             other == Digest(Sibling(leaves, index, h - 1))
         IN /\ Digest(Block(leaves, index \div Two(h), Two(h)))
                 = IF b % 2 = 0 THEN Compress(mine, other, h - 1) ELSE Compress(other, mine, h - 1)
            /\ other \in Nat
            /\ Block(leaves, b, Two(h - 1)) \in [1 .. Two(h - 1) -> Elements]
            /\ Sibling(leaves, index, h - 1) \in [1 .. Two(h - 1) -> Elements]
<1> DEFINE w == Two(h - 1)
           n == Two(H)
           b == index \div w
           c == index \div (w + w)
           Sib == Sibling(leaves, index, h - 1)
<1>1. h - 1 \in 0 .. 30 /\ h \in 0 .. 30 /\ h > 0 /\ h \in 0 .. H
  OBVIOUS
<1>2. w \in Nat /\ w > 0 /\ n \in Nat
  BY <1>1, PowersOfTwo
<1>3. Two(h) = w + w
  <2>1. Two(h) = 2 * Two(h - 1)
    BY <1>1, PowersOfTwo
  <2> QED  BY <2>1, <1>2
<1>4. PICK m \in Nat : n = m * Two(h)
  BY <1>1, PowersDivide
<1>5. n = m * (w + w)
  BY <1>3, <1>4
<1>6. leaves \in [1 .. n -> Elements] /\ index \in 0 .. (n - 1)
  OBVIOUS
<1>7. Sib = LET other == IF b % 2 = 0 THEN b + 1 ELSE b - 1
            IN SubSeq(leaves, other * w + 1, (other + 1) * w)
  BY DEF Sibling, Two
<1>8. \A A \in [1 .. w -> Elements], B \in [1 .. w -> Elements], C \in [1 .. (w + w) -> Elements] :
         (\A i \in 1 .. w : C[i] = A[i] /\ C[w + i] = B[i])
           => Compress(Digest(A), Digest(B), h - 1) = Digest(C)
  BY <1>1, CompressIs
<1> HIDE DEF w, n
<1>9. /\ b \in Nat /\ c \in Nat /\ (b + 1) * w <= n /\ (c + 1) * (w + w) <= n
      /\ \/ b % 2 = 0 /\ b = c + c
         \/ b % 2 # 0 /\ b % 2 = 1 /\ b = c + c + 1
  BY <1>2, <1>5, <1>6, HalfBlock
<1> HIDE DEF b, c, Sib
<1>10. /\ Block(leaves, c + c, w) \in [1 .. w -> Elements]
       /\ Block(leaves, c + c + 1, w) \in [1 .. w -> Elements]
       /\ Block(leaves, c, w + w) \in [1 .. (w + w) -> Elements]
       /\ \A i \in 1 .. w : /\ Block(leaves, c, w + w)[i] = Block(leaves, c + c, w)[i]
                            /\ Block(leaves, c, w + w)[w + i] = Block(leaves, c + c + 1, w)[i]
       /\ (c + c + 1) * w <= n /\ ((c + c + 1) + 1) * w <= n
  <2>1. c \in Nat /\ (c + 1) * (w + w) <= n /\ n \in Nat /\ w \in Nat
    BY <1>2, <1>9
  <2>2. leaves \in [1 .. n -> Elements]
    BY <1>6
  <2> QED  BY <2>1, <2>2, JoinBlocks
<1>11. Compress(Digest(Block(leaves, c + c, w)), Digest(Block(leaves, c + c + 1, w)), h - 1)
         = Digest(Block(leaves, c, w + w))
  BY <1>8, <1>10
<1>12. Sib = Block(leaves, IF b % 2 = 0 THEN b + 1 ELSE b - 1, w)
  <2> DEFINE o == IF b % 2 = 0 THEN b + 1 ELSE b - 1
  <2>1. o \in Nat /\ (o + 1) * w <= n
    <3>1. CASE b % 2 = 0 /\ b = c + c
      <4>1. o = c + c + 1
        BY <3>1
      <4> QED  BY <1>9, <1>10, <4>1
    <3>2. CASE b % 2 # 0 /\ b % 2 = 1 /\ b = c + c + 1
      <4>1. o = c + c /\ o + 1 = c + c + 1
        BY <1>9, <3>2
      <4> QED  BY <1>9, <1>10, <4>1
    <3> QED  BY <1>9, <3>1, <3>2
  <2>2. Sib = SubSeq(leaves, o * w + 1, (o + 1) * w)
    BY <1>7
  <2> HIDE DEF o
  <2>3. Sib = Block(leaves, o, w)
    <3>1. n \in Nat /\ leaves \in [1 .. n -> Elements] /\ w \in Nat
      BY <1>2, <1>6
    <3>2. BlockCut(leaves, o, w)
      BY <2>1, <3>1, BlockIsCut
    <3> QED  BY <2>2, <3>2, Zenon DEF BlockCut
  <2> QED  BY <2>3 DEF o
<1>13. Digest(Block(leaves, c, w + w)) =
         IF b % 2 = 0 THEN Compress(Digest(Block(leaves, b, w)), Digest(Sib), h - 1)
         ELSE Compress(Digest(Sib), Digest(Block(leaves, b, w)), h - 1)
  <2>1. CASE b % 2 = 0 /\ b = c + c
    BY <1>11, <1>12, <2>1
  <2>2. CASE b % 2 # 0 /\ b = c + c + 1
    <3>1. b - 1 = c + c
      BY <1>9, <2>2
    <3>2. Sib = Block(leaves, c + c, w)
      BY <1>12, <2>2, <3>1
    <3> QED  BY <1>11, <2>2, <3>2
  <2> QED  BY <1>9, <2>1, <2>2
<1>14. Sib \in [1 .. w -> Elements] /\ Block(leaves, b, w) \in [1 .. w -> Elements]
  <2>1. CASE b % 2 = 0 /\ b = c + c
    <3>1. Sib = Block(leaves, c + c + 1, w)
      BY <1>12, <2>1
    <3> QED  BY <1>10, <2>1, <3>1
  <2>2. CASE b % 2 # 0 /\ b = c + c + 1
    <3>1. b - 1 = c + c
      BY <1>9, <2>2
    <3>2. Sib = Block(leaves, c + c, w)
      BY <1>12, <2>2, <3>1
    <3> QED  BY <1>10, <2>2, <3>2
  <2> QED  BY <1>9, <2>1, <2>2
<1>15. Digest(Sib) \in Nat
  <2>1. PICK d : Spells(Sib, w, d)
    BY <1>2, <1>14, DigestIs
  <2> QED  BY <1>2, <2>1 DEF Spells
<1> QED  BY <1>3, <1>13, <1>14, <1>15 DEF w, b, c, Sib

\* Where it begins and ends.
LEMMA WayEnds ==
  ASSUME NEW H \in 0 .. 30, NEW leaves \in [1 .. Two(H) -> Elements],
         NEW index \in 0 .. (Two(H) - 1)
  PROVE  /\ Way(leaves, index, H)[0] = Digest(<<leaves[index + 1]>>)
         /\ Way(leaves, index, H)[H] = Digest(leaves)
<1> DEFINE size == Two(H)
           t == Way(leaves, index, H)
<1>1. size \in Nat /\ size > 0
  BY PowersOfTwo
<1>3. index \in 0 .. (size - 1) /\ leaves \in [1 .. size -> Elements]
  OBVIOUS
<1> HIDE DEF size
<1>5. t[0] = Digest(<<leaves[index + 1]>>)
  <2>1. Two(0) = 1 /\ 0 \in 0 .. H
    BY PowersOfTwo
  <2>2. index \div 1 = index /\ index * 1 + 1 = index + 1
    BY <1>1, <1>3
  <2>3. Block(leaves, index, 1) = <<leaves[index + 1]>>
    BY <2>2 DEF Block
  <2> QED  BY <2>1, <2>2, <2>3 DEF Way
<1>7. t[H] = Digest(leaves)
  <2>1. index \div size = 0
    <3>1. index = size * 0 + index /\ 0 \in Int /\ index \in Nat /\ index < size
      BY <1>1, <1>3
    <3> QED  BY <1>1, <3>1, DivUnique
  <2>2. Block(leaves, 0, size) = leaves
    <3>1. \A i \in 1 .. size : 0 * size + i = i
      BY <1>1
    <3>2. [i \in 1 .. size |-> leaves[0 * size + i]] = [i \in 1 .. size |-> leaves[i]]
      BY <3>1
    <3>3. leaves = [i \in 1 .. size |-> leaves[i]]
      BY <1>3
    <3> QED  BY <3>2, <3>3, Zenon DEF Block
  <2>3. H \in 0 .. H
    OBVIOUS
  <2>4. t[H] = Digest(Block(leaves, index \div size, size))
    BY <2>3 DEF Way, size
  <2> QED  BY <2>1, <2>2, <2>4
<1> QED  BY <1>5, <1>7

\* An opening of a committed vector is accepted.
LEMMA OpeningVerifies ==
  ASSUME NEW H \in 0 .. 30, NEW leaves \in [1 .. Two(H) -> Elements],
         NEW index \in 0 .. (Two(H) - 1)
  PROVE  VerifyOpening(RootOf(leaves), Two(H), Opening(leaves, index))
<1> DEFINE size == Two(H)
           o == Opening(leaves, index)
           t == Way(leaves, index, H)
<1>1. size \in Nat /\ size > 0 /\ Log2(size) = H /\ Len(leaves) = size
  <2>1. size \in Nat /\ size > 0 /\ Log2(size) = H
    BY PowersOfTwo, LogOfPower
  <2>2. leaves \in [1 .. size -> Elements]
    OBVIOUS
  <2> HIDE DEF size
  <2> QED  BY <2>1, <2>2, VectorIsSeq
<1>2. /\ o.leaf_index = index /\ o.leaf_value = leaves[index + 1]
      /\ o.proof = [h \in 1 .. H |-> Digest(Sibling(leaves, index, h - 1))]
  BY <1>1 DEF Opening
<1>3. index \in 0 .. (size - 1) /\ leaves \in [1 .. size -> Elements]
  OBVIOUS
<1> HIDE DEF size
<1>4. Len(o.proof) = H /\ \A h \in 1 .. H : o.proof[h] = Digest(Sibling(leaves, index, h - 1))
  <2>1. H \in Nat
    OBVIOUS
  <2> QED  BY <1>2, <2>1
<1>5. t[0] = Digest(<<o.leaf_value>>)
  <2>1. Way(leaves, index, H)[0] = Digest(<<leaves[index + 1]>>)
    BY WayEnds DEF size
  <2> QED  BY <1>2, <2>1
<1>6. \A h \in 1 .. H : t[h] = IF (o.leaf_index \div 2^(h - 1)) % 2 = 0
                               THEN Compress(t[h - 1], o.proof[h], h - 1)
                               ELSE Compress(o.proof[h], t[h - 1], h - 1)
  <2> TAKE h \in 1 .. H
  <2>1. h \in 0 .. H /\ h - 1 \in 0 .. H
    OBVIOUS
  <2>2. /\ t[h] = Digest(Block(leaves, index \div Two(h), Two(h)))
        /\ t[h - 1] = Digest(Block(leaves, index \div Two(h - 1), Two(h - 1)))
    BY <2>1 DEF Way
  <2>3. Digest(Block(leaves, index \div Two(h), Two(h)))
          = IF (index \div Two(h - 1)) % 2 = 0
            THEN Compress(Digest(Block(leaves, index \div Two(h - 1), Two(h - 1))),
                          Digest(Sibling(leaves, index, h - 1)), h - 1)
            ELSE Compress(Digest(Sibling(leaves, index, h - 1)),
                          Digest(Block(leaves, index \div Two(h - 1), Two(h - 1))), h - 1)
    BY SiblingIs
  <2>4. Two(h - 1) = 2^(h - 1)
    BY DEF Two
  <2> QED  BY <1>2, <1>4, <2>2, <2>3, <2>4, Zenon
<1>7. t[H] = Digest(leaves)
  BY WayEnds DEF size
<1>8. t = [h \in 0 .. H |-> IF h = 0 THEN Digest(<<o.leaf_value>>)
                            ELSE IF (o.leaf_index \div 2^(h - 1)) % 2 = 0
                                 THEN Compress(t[h - 1], o.proof[h], h - 1)
                                 ELSE Compress(o.proof[h], t[h - 1], h - 1)]
  <2>1. \A h \in 0 .. H : h = 0 \/ h \in 1 .. H
    OBVIOUS
  <2>2. \A h \in 0 .. H : t[h] = IF h = 0 THEN Digest(<<o.leaf_value>>)
                            ELSE IF (o.leaf_index \div 2^(h - 1)) % 2 = 0
                                 THEN Compress(t[h - 1], o.proof[h], h - 1)
                                 ELSE Compress(o.proof[h], t[h - 1], h - 1)
    <3> TAKE h \in 0 .. H
    <3>1. CASE h = 0
      BY <1>5, <3>1
    <3>2. CASE h # 0
      <4>1. h \in 1 .. H
        BY <3>2
      <4> HIDE DEF t, o
      <4> QED  BY <1>6, <3>2, <4>1, Zenon
    <3> QED  BY <3>1, <3>2
  <2>3. t = [h \in 0 .. H |-> t[h]]
    BY DEF Way
  <2> HIDE DEF t, o
  <2> QED  BY <2>2, <2>3
<1> HIDE DEF o, t
<1>9. PICK u : /\ u = [h \in 0 .. H |-> IF h = 0 THEN Digest(<<o.leaf_value>>)
                            ELSE IF (o.leaf_index \div 2^(h - 1)) % 2 = 0
                                 THEN Compress(u[h - 1], o.proof[h], h - 1)
                                 ELSE Compress(o.proof[h], u[h - 1], h - 1)]
               /\ VerifyOpening(RootOf(leaves), size, o)
                    = (/\ o.leaf_index < size /\ Len(o.proof) = H /\ RootOf(leaves) = <<u[H]>>)
  BY <1>1, <1>8 DEF VerifyOpening
<1>10. u[0] = t[0] /\ \A h \in 1 .. H : u[h - 1] = t[h - 1] => u[h] = t[h]
  <2>1. u[0] = t[0]
    <3>1. 0 \in 0 .. H
      OBVIOUS
    <3>2. u[0] = Digest(<<o.leaf_value>>)
      BY <1>9, <3>1
    <3> QED  BY <1>5, <3>2
  <2>2. ASSUME NEW h \in 1 .. H, u[h - 1] = t[h - 1] PROVE u[h] = t[h]
    <3>1. h \in 0 .. H /\ h # 0
      OBVIOUS
    <3>2. u[h] = IF (o.leaf_index \div 2^(h - 1)) % 2 = 0
                 THEN Compress(u[h - 1], o.proof[h], h - 1)
                 ELSE Compress(o.proof[h], u[h - 1], h - 1)
      BY <1>9, <3>1, Zenon
    <3> QED  BY <1>6, <2>2, <3>2, Zenon
  <2> QED  BY <2>1, <2>2
<1>11. u[H] = t[H]
  <2>1. H \in Nat /\ H \in 0 .. H
    OBVIOUS
  <2>2. u[0] = t[0]
    BY <1>10
  <2>3. \A h \in 1 .. H : u[h - 1] = t[h - 1] => u[h] = t[h]
    BY <1>10
  <2>4. \A k \in 0 .. H : u[k] = t[k]
    <3> DEFINE S == {k \in 0 .. H : u[k] = t[k]}
    <3>1. 0 \in S
      <4>1. 0 \in 0 .. H
        OBVIOUS
      <4> QED  BY <2>2, <4>1
    <3>2. \A k \in 1 .. H : k - 1 \in S => k \in S
      BY <2>3
    <3> HIDE DEF S
    <3>3. \A k \in 0 .. H : k \in S
      BY <2>1, <3>1, <3>2, Up
    <3> QED  BY <3>3 DEF S
  <2> QED  BY <2>1, <2>4
<1>12. o.leaf_index < size
  BY <1>1, <1>2, <1>3
<1> QED  BY <1>4, <1>7, <1>9, <1>11, <1>12 DEF RootOf, size, o

-----------------------------------------------------------------------------
\* Domains and folds.

\* Halves are natural.
LEMMA HalfIs == ASSUME NEW n \in Nat PROVE n \div 2 \in Nat /\ n \div 2 <= n /\ (n + n) \div 2 = n
OBVIOUS

\* Squared points are elements (fri.rs, fold_domain).
LEMMA FoldDomainTyped ==
  ASSUME NEW dom \in Seq(Elements)
  PROVE  FoldDomain(dom) \in Seq(Elements)
<1>1. Len(dom) \div 2 \in Nat /\ Len(dom) \div 2 <= Len(dom)
  BY HalfIs
<1>2. \A i \in 1 .. (Len(dom) \div 2) : Times(dom[i], dom[i]) \in Elements
  <2> TAKE i \in 1 .. (Len(dom) \div 2)
  <2>1. dom[i] \in Elements
    BY <1>1
  <2> QED  BY <2>1, Typed
<1> DEFINE m == Len(dom) \div 2
<1> HIDE DEF m
<1>3. [i \in 1 .. m |-> Times(dom[i], dom[i])] \in [1 .. m -> Elements] /\ m \in Nat
  BY <1>1, <1>2 DEF m
<1> QED  BY <1>3, VectorIsSeq DEF FoldDomain, m

\* The recursion of the domains defines what it says.
LEMMA DomainsAre ==
  ASSUME NEW dom \in Seq(Elements), NEW rounds \in Nat
  PROVE  /\ Domains(dom, rounds) \in [1 .. (rounds + 1) -> Seq(Elements)]
         /\ Domains(dom, rounds)[1] = dom
         /\ \A r \in 1 .. rounds : Domains(dom, rounds)[r + 1] = FoldDomain(Domains(dom, rounds)[r])
<1> DEFINE V == Seq(Elements)
           F == [k \in 1 .. rounds |-> [v \in V |-> FoldDomain(v)]]
<1>1. F \in [1 .. rounds -> [V -> V]]
  BY FoldDomainTyped
<1>2. \A k \in 1 .. rounds, v \in V : F[k][v] = FoldDomain(v)
  OBVIOUS
<1> HIDE DEF F, V
<1>3. PICK t : Iterates(rounds, V, dom, F, t)
  BY <1>1, Recursion DEF V
<1>4. t \in [0 .. rounds -> V] /\ t[0] = dom /\ \A k \in 1 .. rounds : t[k] = FoldDomain(t[k - 1])
  BY <1>2, <1>3 DEF Iterates
<1>5. t = [r \in 0 .. rounds |-> IF r = 0 THEN dom ELSE FoldDomain(t[r - 1])]
  BY <1>4
<1>6. PICK d : /\ d = [r \in 0 .. rounds |-> IF r = 0 THEN dom ELSE FoldDomain(d[r - 1])]
               /\ Domains(dom, rounds) = [r \in 1 .. (rounds + 1) |-> d[r - 1]]
  BY <1>5 DEF Domains
<1>7. d[0] = dom /\ \A k \in 1 .. rounds : d[k] = FoldDomain(d[k - 1])
  <2>1. d[0] = dom
    BY <1>6
  <2>2. ASSUME NEW k \in 1 .. rounds PROVE d[k] = FoldDomain(d[k - 1])
    BY <1>6
  <2> QED  BY <2>1, <2>2
<1>8. \A k \in 0 .. rounds : d[k] \in V
  <2>1. \A k \in 1 .. rounds : d[k - 1] \in V => d[k] \in V
    BY <1>7, FoldDomainTyped DEF V
  <2>2. d[0] \in V
    BY <1>7 DEF V
  <2> QED  BY <2>1, <2>2, Stays
<1> DEFINE D == Domains(dom, rounds)
<1>9. D = [r \in 1 .. (rounds + 1) |-> d[r - 1]]
  BY <1>6
<1>10. \A r \in 1 .. (rounds + 1) : r - 1 \in 0 .. rounds /\ d[r - 1] \in Seq(Elements)
  <2> TAKE r \in 1 .. (rounds + 1)
  <2>1. r - 1 \in 0 .. rounds
    OBVIOUS
  <2> QED  BY <2>1, <1>8 DEF V
<1> HIDE DEF D
<1>11. D \in [1 .. (rounds + 1) -> Seq(Elements)]
  BY <1>9, <1>10
<1>12. D[1] = dom
  BY <1>7, <1>9
<1>13. \A r \in 1 .. rounds : D[r + 1] = FoldDomain(D[r])
  <2> TAKE r \in 1 .. rounds
  <2>1. r \in 1 .. (rounds + 1) /\ r + 1 \in 1 .. (rounds + 1) /\ (r + 1) - 1 = r
    OBVIOUS
  <2>2. D[r] = d[r - 1] /\ D[r + 1] = d[r]
    BY <1>9, <2>1
  <2> QED  BY <1>7, <2>2
<1> QED  BY <1>11, <1>12, <1>13 DEF D

\* The domain of a round does not depend on how many there are.
LEMMA DomainsAgree ==
  ASSUME NEW dom \in Seq(Elements), NEW m \in Nat, NEW n \in Nat, m <= n
  PROVE  \A r \in 1 .. (m + 1) : Domains(dom, m)[r] = Domains(dom, n)[r]
<1> DEFINE S == {k \in 0 .. m : Domains(dom, m)[k + 1] = Domains(dom, n)[k + 1]}
<1>1. 0 \in S
  <2>1. Domains(dom, m)[1] = dom
    BY DomainsAre
  <2>2. Domains(dom, n)[1] = dom
    BY DomainsAre
  <2>3. 0 + 1 = 1 /\ 0 \in 0 .. m
    OBVIOUS
  <2> QED  BY <2>1, <2>2, <2>3
<1>2. \A k \in 1 .. m : k - 1 \in S => k \in S
  <2> TAKE k \in 1 .. m
  <2> HAVE k - 1 \in S
  <2>1. k \in 1 .. n /\ (k - 1) + 1 = k
    OBVIOUS
  <2>2. Domains(dom, m)[k] = Domains(dom, n)[k]
    BY <2>1
  <2> QED  BY <2>1, <2>2, DomainsAre
<1> HIDE DEF S
<1>3. \A k \in 0 .. m : k \in S
  BY <1>1, <1>2, Up
<1>4. \A r \in 1 .. (m + 1) : r - 1 \in 0 .. m /\ (r - 1) + 1 = r
  OBVIOUS
<1> QED  BY <1>3, <1>4 DEF S

\* Every domain has half the points of the one before, none of them zero.
Points(n) == [1 .. n -> Elements \ {0}]

\* Half a power of two is the one before it.
LEMMA HalfPower ==
  ASSUME NEW K \in 0 .. 30, NEW k \in 1 .. K
  PROVE  /\ Two(K - (k - 1)) = Two(K - k) + Two(K - k)
         /\ Two(K - (k - 1)) \div 2 = Two(K - k)
         /\ Two(K - k) \in Nat /\ Two(K - k) > 0
<1>1. K - (k - 1) \in 0 .. 30 /\ K - (k - 1) > 0 /\ (K - (k - 1)) - 1 = K - k /\ K - k \in 0 .. 30
  OBVIOUS
<1>2. Two(K - (k - 1)) = 2 * Two(K - k)
  BY <1>1, PowersOfTwo
<1>3. Two(K - k) \in Nat /\ Two(K - k) > 0
  BY <1>1, PowersOfTwo
<1> DEFINE h == Two(K - k)
<1>4. h \in Nat /\ h > 0 /\ Two(K - (k - 1)) = 2 * h
  BY <1>2, <1>3
<1> HIDE DEF h
<1>5. 2 * h = h + h /\ (h + h) \div 2 = h
  BY <1>4
<1> QED  BY <1>4, <1>5 DEF h

\* Every domain of a run consists of as many invertible points as its layer has
\* values.
LEMMA DomainIs ==
  ASSUME NEW K \in 0 .. 30, NEW dom \in Points(Two(K))
  PROVE  /\ dom \in Seq(Elements)
         /\ \A r \in 1 .. (K + 1) : Domains(dom, K)[r] \in Points(Two(K - (r - 1)))
<1>1. dom \in Seq(Elements)
  <2> DEFINE n == Two(K)
  <2>1. dom \in [1 .. n -> Elements] /\ n \in Nat
    BY PowersOfTwo DEF Points
  <2> HIDE DEF n
  <2> QED  BY <2>1, VectorIsSeq
<1>2. ASSUME NEW k \in 1 .. K, NEW d \in Points(Two(K - (k - 1)))
      PROVE  FoldDomain(d) \in Points(Two(K - k))
  <2> DEFINE n == Two(K - (k - 1))
             h == Two(K - k)
  <2>1. h \in Nat /\ n = h + h /\ n \div 2 = h
    BY HalfPower
  <2>2. d \in [1 .. n -> Elements \ {0}]
    BY DEF Points
  <2> HIDE DEF n, h
  <2>3. Len(d) = n
    BY <2>1, <2>2
  <2>4. \A i \in 1 .. h : Times(d[i], d[i]) \in Elements \ {0}
    <3> TAKE i \in 1 .. h
    <3>1. d[i] \in Elements \ {0}
      BY <2>1, <2>2
    <3> QED  BY <3>1, Typed, NoZeroDivisor
  <2>5. FoldDomain(d) = [i \in 1 .. h |-> Times(d[i], d[i])]
    BY <2>1, <2>3 DEF FoldDomain
  <2> QED  BY <2>4, <2>5 DEF Points, h
<1> DEFINE S == {k \in 0 .. K : Domains(dom, K)[k + 1] \in Points(Two(K - k))}
<1>3. 0 \in S
  <2>1. K - 0 = K /\ 0 + 1 = 1 /\ 0 \in 0 .. K /\ K \in Nat
    OBVIOUS
  <2>2. Domains(dom, K)[1] = dom
    BY <1>1, <2>1, DomainsAre
  <2> QED  BY <2>1, <2>2
<1>4. \A k \in 1 .. K : k - 1 \in S => k \in S
  <2> TAKE k \in 1 .. K
  <2> HAVE k - 1 \in S
  <2>1. (k - 1) + 1 = k
    OBVIOUS
  <2>2. Domains(dom, K)[k] \in Points(Two(K - (k - 1)))
    BY <2>1
  <2>3. Domains(dom, K)[k + 1] = FoldDomain(Domains(dom, K)[k])
    <3>1. K \in Nat
      OBVIOUS
    <3> QED  BY <1>1, <3>1, DomainsAre
  <2> QED  BY <1>2, <2>2, <2>3
<1> HIDE DEF S
<1>5. \A k \in 0 .. K : k \in S
  BY <1>3, <1>4, Up
<1>6. \A r \in 1 .. (K + 1) : r - 1 \in 0 .. K /\ (r - 1) + 1 = r
  OBVIOUS
<1> QED  BY <1>1, <1>5, <1>6 DEF S

\* A fold has half the values of the layer it is of.
LEMMA FoldStepTyped ==
  ASSUME NEW h \in Nat, NEW evals \in [1 .. (h + h) -> Elements], NEW d \in Points(h + h),
         NEW beta \in Elements
  PROVE  /\ FoldStep(evals, d, beta) \in [1 .. h -> Elements]
         /\ \A i \in 1 .. h :
              FoldStep(evals, d, beta)[i] =
                Plus(Times(Plus(evals[i], evals[i + h]), Inv(2)),
                     Times(beta, Times(Times(Minus(evals[i], evals[i + h]), Inv(2)), Inv(d[i]))))
<1>1. Len(evals) = h + h /\ (h + h) \div 2 = h
  BY VectorIsSeq, HalfIs
<1>2. Inv(2) \in Elements
  BY InverseIs, ZeroOne
<1>3. \A i \in 1 .. h : Plus(Times(Plus(evals[i], evals[i + h]), Inv(2)),
                     Times(beta, Times(Times(Minus(evals[i], evals[i + h]), Inv(2)), Inv(d[i])))) \in Elements
  <2> TAKE i \in 1 .. h
  <2> DEFINE a == evals[i]
             b == evals[i + h]
             v == Inv(d[i])
             two == Inv(2)
  <2>1. a \in Elements /\ b \in Elements
    <3>1. i \in 1 .. (h + h) /\ i + h \in 1 .. (h + h)
      OBVIOUS
    <3> QED  BY <3>1
  <2>2. v \in Elements
    <3>1. i \in 1 .. (h + h)
      OBVIOUS
    <3>2. d[i] \in Elements \ {0}
      BY <3>1 DEF Points
    <3> QED  BY <3>2, InverseIs
  <2>3. two \in Elements
    BY <1>2
  <2> HIDE DEF a, b, v, two
  <2>4. Plus(a, b) \in Elements /\ Minus(a, b) \in Elements
    BY <2>1, Typed
  <2>5. Times(Plus(a, b), two) \in Elements /\ Times(Minus(a, b), two) \in Elements
    BY <2>3, <2>4, Typed
  <2>6. Times(Times(Minus(a, b), two), v) \in Elements
    BY <2>2, <2>5, Typed
  <2>7. Times(beta, Times(Times(Minus(a, b), two), v)) \in Elements
    BY <2>6, Typed
  <2>8. Plus(Times(Plus(a, b), two), Times(beta, Times(Times(Minus(a, b), two), v))) \in Elements
    BY <2>5, <2>7, Typed
  <2> QED  BY <2>8 DEF a, b, v, two
<1>4. FoldStep(evals, d, beta) = [i \in 1 .. h |->
         Plus(Times(Plus(evals[i], evals[i + h]), Inv(2)),
              Times(beta, Times(Times(Minus(evals[i], evals[i + h]), Inv(2)), Inv(d[i]))))]
  BY <1>1 DEF FoldStep
<1> QED  BY <1>3, <1>4

-----------------------------------------------------------------------------
\* Layers and transcripts.

\* A layer of round r over a domain of Two(K) points.
Layer(K, r) == Vectors(Two(K - (r - 1)))

\* The fold of round r.
Folded(K, dom, v, beta, r) == FoldStep(v, Domains(dom, K)[r], beta)

\* A fold of a layer is a layer of the next size.
LEMMA FoldedTyped ==
  ASSUME NEW K \in 0 .. 30, NEW dom \in Points(Two(K)), NEW r \in 1 .. K,
         NEW v \in Layer(K, r), NEW beta \in Elements
  PROVE  Folded(K, dom, v, beta, r) \in Layer(K, r + 1)
<1> DEFINE h == Two(K - r)
<1>1. h \in Nat /\ Two(K - (r - 1)) = h + h /\ r \in 1 .. (K + 1) /\ (r + 1) - 1 = r
  <2>1. Two(K - r) \in Nat /\ Two(K - (r - 1)) = Two(K - r) + Two(K - r)
    BY HalfPower
  <2>2. r \in 1 .. (K + 1) /\ (r + 1) - 1 = r
    OBVIOUS
  <2> QED  BY <2>1, <2>2
<1>2. Domains(dom, K)[r] \in Points(h + h)
  BY <1>1, DomainIs
<1>3. v \in [1 .. (h + h) -> Elements]
  BY <1>1 DEF Layer, Vectors
<1> DEFINE d == Domains(dom, K)[r]
<1>4. d \in Points(h + h)
  BY <1>2
<1>5. Folded(K, dom, v, beta, r) = FoldStep(v, d, beta)
  BY DEF Folded
<1> HIDE DEF d, h
<1>6. FoldStep(v, d, beta) \in [1 .. h -> Elements]
  BY <1>1, <1>3, <1>4, FoldStepTyped
<1> QED  BY <1>1, <1>5, <1>6 DEF Layer, Vectors, h

\* The layers a commit phase makes under given challenges.
LEMMA LayersAre ==
  ASSUME NEW K \in 0 .. 30, NEW dom \in Points(Two(K)), NEW evals \in Layer(K, 1),
         NEW challenges \in Seq(Elements), Len(challenges) <= K
  PROVE  LET L == CommitLayers(evals, dom, challenges)
             n == Len(challenges)
         IN /\ DOMAIN L = 1 .. (n + 1)
            /\ L[1] = evals
            /\ \A r \in 1 .. n : L[r + 1] = Folded(K, dom, L[r], challenges[r], r)
            /\ \A r \in 1 .. (n + 1) : L[r] \in Layer(K, r)
<1> DEFINE n == Len(challenges)
           D == Domains(dom, n)
           V == UNION {Layer(K, r) : r \in 1 .. (n + 1)}
           F == [k \in 1 .. n |-> [v \in V |->
                  IF v \in Layer(K, k) THEN Folded(K, dom, v, challenges[k], k) ELSE v]]
           L == CommitLayers(evals, dom, challenges)
<1>1. n \in Nat /\ n <= K /\ K \in Nat /\ \A k \in 1 .. n : k \in 1 .. K /\ challenges[k] \in Elements
  OBVIOUS
<1>2. \A r \in 1 .. n : D[r] = Domains(dom, K)[r]
  <2>1. dom \in Seq(Elements)
    BY DomainIs
  <2>2. \A r \in 1 .. (n + 1) : D[r] = Domains(dom, K)[r]
    BY <1>1, <2>1, DomainsAgree
  <2> QED  BY <1>1, <2>2
<1>3. L = LET l[r \in 0 .. n] == IF r = 0 THEN evals
                                 ELSE FoldStep(l[r - 1], D[r], challenges[r])
          IN [r \in 1 .. (n + 1) |-> l[r - 1]]
  BY DEF CommitLayers
<1> HIDE DEF n, D, L
<1>4. \A k \in 1 .. n : \A v \in Layer(K, k) : Folded(K, dom, v, challenges[k], k) \in Layer(K, k + 1)
  BY <1>1, FoldedTyped
<1>5. evals \in V
  <2>1. 1 \in 1 .. (n + 1)
    BY <1>1
  <2> QED  BY <2>1
<1>6. F \in [1 .. n -> [V -> V]]
  <2>1. \A k \in 1 .. n : k + 1 \in 1 .. (n + 1)
    BY <1>1
  <2>2. \A k \in 1 .. n, v \in V :
           (IF v \in Layer(K, k) THEN Folded(K, dom, v, challenges[k], k) ELSE v) \in V
    BY <1>4, <2>1
  <2> HIDE DEF V
  <2> QED  BY <2>2
<1>7. \A k \in 1 .. n : \A v \in V : v \in Layer(K, k) => F[k][v] = Folded(K, dom, v, challenges[k], k)
  <2> HIDE DEF V
  <2> QED  OBVIOUS
<1> HIDE DEF F
<1>8. PICK t : Iterates(n, V, evals, F, t)
  <2> HIDE DEF V
  <2> QED  BY <1>1, <1>5, <1>6, Recursion
<1>9. t \in [0 .. n -> V] /\ t[0] = evals /\ \A k \in 1 .. n : t[k] = F[k][t[k - 1]]
  BY <1>8 DEF Iterates
<1> HIDE DEF V
<1>10. \A k \in 0 .. n : t[k] \in Layer(K, k + 1)
  <2> DEFINE S == {k \in 0 .. n : t[k] \in Layer(K, k + 1)}
  <2>1. 0 \in S
    <3>1. 0 + 1 = 1 /\ 0 \in 0 .. n
      BY <1>1
    <3> QED  BY <1>9, <3>1
  <2>2. \A k \in 1 .. n : k - 1 \in S => k \in S
    <3> TAKE k \in 1 .. n
    <3> HAVE k - 1 \in S
    <3>1. (k - 1) + 1 = k /\ k - 1 \in 0 .. n /\ k \in 0 .. n
      BY <1>1
    <3>2. t[k - 1] \in Layer(K, k) /\ t[k - 1] \in V
      BY <1>9, <3>1
    <3>3. t[k] = Folded(K, dom, t[k - 1], challenges[k], k)
      BY <1>7, <1>9, <3>2
    <3> QED  BY <1>4, <3>1, <3>2, <3>3
  <2> HIDE DEF S
  <2>3. \A k \in 0 .. n : k \in S
    BY <1>1, <2>1, <2>2, Up
  <2> QED  BY <2>3 DEF S
<1>11. \A k \in 1 .. n : t[k] = FoldStep(t[k - 1], D[k], challenges[k])
  <2> TAKE k \in 1 .. n
  <2>1. (k - 1) + 1 = k /\ k - 1 \in 0 .. n
    BY <1>1
  <2>2. t[k - 1] \in Layer(K, k) /\ t[k - 1] \in V
    BY <1>9, <1>10, <2>1
  <2> QED  BY <1>2, <1>7, <1>9, <2>2 DEF Folded
<1>12. t = [r \in 0 .. n |-> IF r = 0 THEN evals ELSE FoldStep(t[r - 1], D[r], challenges[r])]
  <2>1. \A r \in 0 .. n : t[r] = IF r = 0 THEN evals ELSE FoldStep(t[r - 1], D[r], challenges[r])
    <3> TAKE r \in 0 .. n
    <3>1. r = 0 \/ r \in 1 .. n
      BY <1>1
    <3> QED  BY <1>9, <1>11, <3>1
  <2>2. t = [r \in 0 .. n |-> t[r]]
    BY <1>9
  <2> QED  BY <2>1, <2>2
<1>13. PICK l : /\ l = [r \in 0 .. n |-> IF r = 0 THEN evals ELSE FoldStep(l[r - 1], D[r], challenges[r])]
                /\ L = [r \in 1 .. (n + 1) |-> l[r - 1]]
  BY <1>3, <1>12
<1>14. l[0] = evals /\ \A k \in 1 .. n : l[k] = FoldStep(l[k - 1], D[k], challenges[k])
  <2>1. 0 \in 0 .. n
    BY <1>1
  <2>2. l[0] = evals
    BY <1>13, <2>1
  <2>3. ASSUME NEW k \in 1 .. n PROVE l[k] = FoldStep(l[k - 1], D[k], challenges[k])
    <3>1. k \in 0 .. n /\ k # 0
      BY <1>1
    <3> QED  BY <1>13, <3>1
  <2> QED  BY <2>2, <2>3
<1>15. \A k \in 0 .. n : l[k] \in Layer(K, k + 1)
  <2> DEFINE S == {k \in 0 .. n : l[k] \in Layer(K, k + 1)}
  <2>1. 0 \in S
    <3>1. 0 + 1 = 1 /\ 0 \in 0 .. n
      BY <1>1
    <3> QED  BY <1>14, <3>1
  <2>2. \A k \in 1 .. n : k - 1 \in S => k \in S
    <3> TAKE k \in 1 .. n
    <3> HAVE k - 1 \in S
    <3>1. (k - 1) + 1 = k /\ k \in 0 .. n
      BY <1>1
    <3>2. l[k - 1] \in Layer(K, k)
      BY <3>1
    <3>3. l[k] = Folded(K, dom, l[k - 1], challenges[k], k)
      BY <1>2, <1>14 DEF Folded
    <3> QED  BY <1>4, <3>1, <3>2, <3>3
  <2> HIDE DEF S
  <2>3. \A k \in 0 .. n : k \in S
    BY <1>1, <2>1, <2>2, Up
  <2> QED  BY <2>3 DEF S
<1>16. \A r \in 1 .. (n + 1) : L[r] = l[r - 1] /\ r - 1 \in 0 .. n /\ (r - 1) + 1 = r
  BY <1>1, <1>13
<1>17. L = [r \in 1 .. (n + 1) |-> L[r]]
  BY <1>13
<1>18. L[1] = evals
  <2>1. 1 \in 1 .. (n + 1) /\ 1 - 1 = 0
    BY <1>1
  <2> QED  BY <1>14, <1>16, <2>1
<1>19. \A r \in 1 .. n : L[r + 1] = Folded(K, dom, L[r], challenges[r], r)
  <2> TAKE r \in 1 .. n
  <2>1. r \in 1 .. (n + 1) /\ r + 1 \in 1 .. (n + 1) /\ (r + 1) - 1 = r
    BY <1>1
  <2>2. L[r] = l[r - 1] /\ L[r + 1] = l[r]
    BY <1>16, <2>1
  <2> QED  BY <1>2, <1>14, <2>2 DEF Folded
<1>20. \A r \in 1 .. (n + 1) : L[r] \in Layer(K, r)
  BY <1>15, <1>16
<1> QED  BY <1>17, <1>18, <1>19, <1>20 DEF n, L
-----------------------------------------------------------------------------
\* The roots of typed layers.
Roots == Seq(Seq(Int))

LayersTell(K, dom, evals, challenges, L) ==
  /\ DOMAIN L = 1 .. (Len(challenges) + 1)
  /\ L[1] = evals
  /\ \A r \in 1 .. Len(challenges) : L[r + 1] = Folded(K, dom, L[r], challenges[r], r)
  /\ \A r \in 1 .. (Len(challenges) + 1) : L[r] \in Layer(K, r)

\* The same, by name.
LEMMA LayersTold ==
  ASSUME NEW K \in 0 .. 30, NEW dom \in Points(Two(K)), NEW evals \in Layer(K, 1),
         NEW challenges \in Seq(Elements), Len(challenges) <= K
  PROVE  LayersTell(K, dom, evals, challenges, CommitLayers(evals, dom, challenges))
BY LayersAre, Zenon DEF LayersTell

\* The transcripts a verifier replays, one after another.
LEMMA TranscriptsAre ==
  ASSUME NEW roots \in Roots, Len(roots) >= 1, NEW queries \in Nat
  PROVE  LET T == Transcripts(roots, queries)
             n == (Len(roots) - 1) + queries
         IN /\ T \in [1 .. n -> Seq(Int)]
            /\ n >= 1 => T[1] = roots[1]
            /\ \A k \in 1 .. (n - 1) :
                 T[k + 1] = IF k + 1 <= Len(roots) THEN Sampled(T[k]) \o roots[k + 1] ELSE Sampled(T[k])
<1> DEFINE m == Len(roots) - 1
           n == m + queries
           V == Seq(Int)
           T == Transcripts(roots, queries)
           F == [k \in 1 .. n |-> [v \in V |->
                   IF k + 1 <= Len(roots) THEN Sampled(v) \o roots[k + 1] ELSE Sampled(v)]]
<1>1. m \in Nat /\ n \in Nat /\ Len(roots) = m + 1
  OBVIOUS
<1>2. \A k \in Nat : 1 <= k /\ k <= Len(roots) => roots[k] \in V
  <2>1. roots \in Seq(V)
    BY DEF Roots
  <2> HIDE DEF V
  <2> QED  BY <2>1
<1>3. T = LET t[k \in 1 .. n] ==
                IF k = 1 THEN roots[1]
                ELSE IF k <= Len(roots) THEN Sampled(t[k - 1]) \o roots[k]
                     ELSE Sampled(t[k - 1])
          IN t
  <2>1. m + 1 = Len(roots)
    BY <1>1
  <2> QED  BY <2>1, Zenon DEF Transcripts
<1>4. \A v \in V : Sampled(v) \in V /\ \A u \in V : Sampled(v) \o u \in V
  BY DEF Sampled
<1>5. roots[1] \in V
  BY <1>2
<1> HIDE DEF m, n, T
<1>6. F \in [1 .. n -> [V -> V]]
  <2>1. \A k \in 1 .. n, v \in V :
          (IF k + 1 <= Len(roots) THEN Sampled(v) \o roots[k + 1] ELSE Sampled(v)) \in V
    BY <1>1, <1>2, <1>4
  <2> HIDE DEF V
  <2> QED  BY <2>1
<1>7. \A k \in 1 .. n, v \in V :
        F[k][v] = IF k + 1 <= Len(roots) THEN Sampled(v) \o roots[k + 1] ELSE Sampled(v)
  <2> HIDE DEF V
  <2> QED  OBVIOUS
<1> HIDE DEF F, V
<1>8. PICK f : Iterates(n, V, roots[1], F, f)
  BY <1>1, <1>5, <1>6, Recursion
<1>9. /\ f \in [0 .. n -> V] /\ f[0] = roots[1]
      /\ \A k \in 1 .. n : f[k] = F[k][f[k - 1]]
  BY <1>8 DEF Iterates
<1>10. \A k \in 1 .. n : f[k] = IF k + 1 <= Len(roots) THEN Sampled(f[k - 1]) \o roots[k + 1]
                                ELSE Sampled(f[k - 1])
  BY <1>1, <1>7, <1>9
<1> DEFINE s == [k \in 1 .. n |-> f[k - 1]]
<1>11. \A k \in 1 .. n : s[k] = IF k = 1 THEN roots[1]
                               ELSE IF k <= Len(roots) THEN Sampled(s[k - 1]) \o roots[k]
                               ELSE Sampled(s[k - 1])
  <2> TAKE k \in 1 .. n
  <2>1. CASE k = 1
    BY <1>9, <2>1
  <2>2. CASE k # 1
    <3>1. k - 1 \in 1 .. n /\ (k - 1) + 1 = k
      BY <1>1, <2>2
    <3>2. s[k] = f[k - 1] /\ s[k - 1] = f[(k - 1) - 1]
      BY <3>1
    <3>3. f[k - 1] = IF (k - 1) + 1 <= Len(roots) THEN Sampled(f[(k - 1) - 1]) \o roots[(k - 1) + 1]
                     ELSE Sampled(f[(k - 1) - 1])
      BY <1>10, <3>1
    <3> QED  BY <2>2, <3>1, <3>2, <3>3
  <2> QED  BY <2>1, <2>2
<1>12. s = [k \in 1 .. n |-> s[k]]
  OBVIOUS
<1> HIDE DEF s
<1>13. s = [k \in 1 .. n |-> IF k = 1 THEN roots[1]
                             ELSE IF k <= Len(roots) THEN Sampled(s[k - 1]) \o roots[k]
                             ELSE Sampled(s[k - 1])]
  BY <1>11, <1>12
<1>14. T = [k \in 1 .. n |-> IF k = 1 THEN roots[1]
                             ELSE IF k <= Len(roots) THEN Sampled(T[k - 1]) \o roots[k]
                             ELSE Sampled(T[k - 1])]
  BY <1>3, <1>13, Zenon
<1>15. n >= 1 => T[1] = roots[1]
  BY <1>1, <1>14
<1>16. \A k \in 1 .. (n - 1) :
         T[k + 1] = IF k + 1 <= Len(roots) THEN Sampled(T[k]) \o roots[k + 1] ELSE Sampled(T[k])
  <2> TAKE k \in 1 .. (n - 1)
  <2>1. k + 1 \in 1 .. n /\ k + 1 # 1 /\ (k + 1) - 1 = k
    BY <1>1
  <2> QED  BY <1>14, <2>1
<1>17. \A k \in 1 .. n : T[k] \in V
  <2> DEFINE S == {k \in 0 .. n : k + 1 \in 1 .. n => T[k + 1] \in V}
  <2>1. 0 \in S
    BY <1>1, <1>5, <1>15
  <2>2. \A k \in 1 .. n : k - 1 \in S => k \in S
    <3> TAKE k \in 1 .. n
    <3> HAVE k - 1 \in S
    <3> SUFFICES ASSUME k + 1 \in 1 .. n PROVE T[k + 1] \in V
      BY <1>1
    <3>1. k \in 1 .. (n - 1) /\ (k - 1) + 1 = k /\ k \in 1 .. n
      BY <1>1
    <3>2. T[k] \in V
      BY <3>1
    <3>3. k + 1 <= Len(roots) => roots[k + 1] \in V
      BY <1>1, <1>2
    <3> QED  BY <1>4, <1>16, <3>1, <3>2, <3>3
  <2> HIDE DEF S
  <2>3. \A k \in 0 .. n : k \in S
    BY <1>1, <2>1, <2>2, Up
  <2>4. ASSUME NEW k \in 1 .. n PROVE T[k] \in V
    <3>1. k - 1 \in 0 .. n /\ (k - 1) + 1 = k
      BY <1>1
    <3> QED  BY <2>3, <3>1 DEF S
  <2> QED  BY <2>4
<1>18. T \in [1 .. n -> Seq(Int)]
  <2>1. T = [k \in 1 .. n |-> T[k]]
    BY <1>14
  <2> QED  BY <1>17, <2>1 DEF V
<1> QED  BY <1>15, <1>16, <1>18 DEF n, m, T

-----------------------------------------------------------------------------
\* The invariant of a FRI run.

\* A challenge drawn once stays what it was.
LEMMA LearnKeeps ==
  ASSUME fs \in [DOMAIN fs -> Elements], NEW b \in Samples(fs, challenger, Elements),
         fs' = Learn(fs, challenger, b)
  PROVE  /\ fs' \in [DOMAIN fs' -> Elements] /\ b \in Elements
         /\ challenger \in DOMAIN fs' /\ fs'[challenger] = b
         /\ \A u \in DOMAIN fs : u \in DOMAIN fs' /\ fs'[u] = fs[u]
<1>1. b \in Elements /\ (challenger \in DOMAIN fs => b = fs[challenger])
  BY DEF Samples
<1>2. fs' = [u \in DOMAIN fs \cup {challenger} |-> IF u = challenger THEN b ELSE fs[u]]
  BY DEF Learn
<1> QED  BY <1>1, <1>2

\* A layer's root is a transcript word.
LEMMA RootIsTyped ==
  ASSUME NEW K \in 0 .. 30, NEW r \in 1 .. (K + 1), NEW v \in Layer(K, r)
  PROVE  RootOf(v) \in Seq(Int)
<1> DEFINE n == Two(K - (r - 1))
<1>1. K - (r - 1) \in 0 .. 30
  OBVIOUS
<1>2. n \in Nat
  BY <1>1, PowersOfTwo
<1>3. v \in [1 .. n -> Elements]
  BY DEF Layer, Vectors
<1> HIDE DEF n
<1>4. PICK d : Spells(v, n, d)
  BY <1>2, <1>3, DigestIs
<1>5. Digest(v) \in Nat
  BY <1>2, <1>4 DEF Spells
<1> QED  BY <1>5 DEF RootOf

\* A layer is a sequence of its size, and only the last has one value.
LEMMA LayerIsSeq ==
  ASSUME NEW K \in 0 .. 30, NEW r \in 1 .. (K + 1), NEW v \in Layer(K, r)
  PROVE  /\ v \in Seq(Elements) /\ Len(v) = Two(K - (r - 1)) /\ Len(v) \in Nat /\ Len(v) > 0
         /\ Len(v) = 1 <=> r = K + 1
<1> DEFINE n == Two(K - (r - 1))
<1>1. K - (r - 1) \in 0 .. 30 /\ 0 \in 0 .. 30 /\ (r = K + 1 <=> K - (r - 1) = 0)
  OBVIOUS
<1>2. n \in Nat /\ n > 0
  BY <1>1, PowersOfTwo
<1>3. v \in [1 .. n -> Elements]
  BY DEF Layer, Vectors
<1>4. n = 1 <=> r = K + 1
  <2>1. CASE K - (r - 1) = 0
    BY <1>1, <2>1, PowersOfTwo
  <2>2. CASE K - (r - 1) > 0
    <3>1. Two(0) < Two(K - (r - 1)) /\ Two(0) = 1
      <4>1. Two(0) < Two(K - (r - 1))
        BY <1>1, <2>2, TwoIncreases
      <4>2. Two(0) = 1
        BY <1>1, PowersOfTwo
      <4> QED  BY <4>1, <4>2
    <3> QED  BY <1>1, <1>2, <2>2, <3>1
  <2> QED  BY <1>1, <2>1, <2>2
<1> HIDE DEF n
<1>5. v \in Seq(Elements) /\ Len(v) = n
  BY <1>2, <1>3, VectorIsSeq
<1> QED  BY <1>2, <1>4, <1>5 DEF n
-----------------------------------------------------------------------------
\* What is committed to over a domain of Two(K) points.
FriTyped(K) ==
  /\ domain \in Points(Two(K))
  /\ layers \in Seq(Seq(Elements)) /\ Len(layers) \in 1 .. (K + 1)
  /\ \A r \in 1 .. Len(layers) : layers[r] \in Layer(K, r)
  /\ betas \in Seq(Elements) /\ Len(betas) = Len(layers) - 1
  /\ nqueries \in Nat
  /\ indices \in Seq(0 .. (Two(K) - 1)) /\ Len(indices) <= nqueries
  /\ indices # <<>> \/ phase = "proved" => Len(layers) = K + 1
  /\ phase = "proved" => Len(indices) = nqueries

\* An honest prover folds every layer as it should.
FriHonest(K) ==
  ~faulty =>
    /\ \A r \in 1 .. Len(betas) : layers[r + 1] = Folded(K, domain, layers[r], betas[r], r)
    /\ phase = "proved" => proof.final_value = Current[1]

\* The samples so far were drawn at the transcripts of a log.
FriLog(K, t, raw) ==
  LET n == Len(betas) + Len(indices)
  IN /\ t[1] = RootOf(layers[1])
     /\ \A k \in 1 .. n : t[k + 1] = IF k <= Len(betas) THEN Sampled(t[k]) \o RootOf(layers[k + 1])
                                     ELSE Sampled(t[k])
     /\ challenger = t[n + 1]
     /\ \A k \in 1 .. n : t[k] \in DOMAIN fs /\ fs[t[k]] = raw[k]
     /\ \A r \in 1 .. Len(betas) : betas[r] = raw[r]
     /\ \A q \in 1 .. Len(indices) : indices[q] = raw[Len(betas) + q] % Two(K)

FriProof ==
  /\ proof.roots = [r \in DOMAIN layers |-> RootOf(layers[r])]
  /\ proof.query_indices = indices
  /\ proof.query_proofs =
       [q \in DOMAIN indices |->
          [r \in DOMAIN betas |-> QueryRound(layers[r], layers[r + 1], indices[q])]]
  /\ proof.final_value \in Elements

Idle ==
  /\ domain = <<>> /\ layers = <<>> /\ betas = <<>> /\ indices = <<>>

FriInv ==
  /\ phase \in {"idle", "committing", "proved"}
  /\ fs \in [DOMAIN fs -> Elements]
  /\ phase = "idle" => Idle
  /\ phase # "idle" =>
       \E K \in 0 .. 30 :
         /\ FriTyped(K) /\ FriHonest(K)
         /\ \E t \in [Nat -> Seq(Int)], raw \in [Nat -> Elements] : FriLog(K, t, raw)
  /\ phase = "proved" => FriProof

\* The invariant holds before any run.
LEMMA FriInitially == FriInit => FriInv
<1> SUFFICES ASSUME FriInit PROVE FriInv
  OBVIOUS
<1>1. /\ phase = "idle" /\ domain = <<>> /\ layers = <<>> /\ betas = <<>> /\ indices = <<>>
      /\ fs = <<>>
  BY DEF FriInit
<1>2. <<>> \in [DOMAIN <<>> -> Elements]
  OBVIOUS
<1> QED  BY <1>1, <1>2 DEF FriInv, Idle

\* What leaves FRI alone keeps its invariant.
LEMMA FriStutters == FriInv /\ UNCHANGED friVars => FriInv'
<1> SUFFICES ASSUME FriInv, UNCHANGED friVars PROVE FriInv'
  OBVIOUS
<1>1. UNCHANGED <<phase, faulty, domain, layers, betas, nqueries, indices, challenger, fs, proof>>
  BY DEF friVars
<1>2. CASE phase = "idle"
  BY <1>1, <1>2 DEF FriInv, Idle
<1>3. CASE phase # "idle"
  <2>1. PICK K \in 0 .. 30, t \in [Nat -> Seq(Int)], raw \in [Nat -> Elements] :
          FriTyped(K) /\ FriHonest(K) /\ FriLog(K, t, raw)
    BY <1>3 DEF FriInv
  <2>2. FriTyped(K)'
    BY <1>1, <2>1 DEF FriTyped
  <2>3. FriHonest(K)'
    BY <1>1, <2>1 DEF FriHonest, Current
  <2>4. FriLog(K, t, raw)'
    BY <1>1, <2>1 DEF FriLog
  <2>5. (phase = "proved" => FriProof)'
    BY <1>1 DEF FriInv, FriProof
  <2> QED  BY <1>1, <1>3, <2>2, <2>3, <2>4, <2>5 DEF FriInv
<1> QED  BY <1>2, <1>3

\* Starting a run on a typed vector and domain establishes the invariant
\* (fri_protocol.rs, commit).
LEMMA CommitKeeps ==
  ASSUME FriInv, NEW K \in 0 .. 30, NEW evals \in Layer(K, 1), NEW dom \in Points(Two(K)),
         NEW queries \in Nat, NEW f \in BOOLEAN, FriCommit(evals, dom, queries, f)
  PROVE  FriInv'
<1>1. /\ phase = "idle" /\ phase' = "committing" /\ domain' = dom /\ layers' = <<evals>>
      /\ nqueries' = queries /\ challenger' = RootOf(evals) /\ UNCHANGED <<betas, indices, fs>>
  BY DEF FriCommit
<1>2. betas' = <<>> /\ indices' = <<>>
  BY <1>1 DEF FriInv, Idle
<1>3. evals \in Seq(Elements) /\ 1 \in 1 .. (K + 1) /\ RootOf(evals) \in Seq(Int)
  <2>1. 1 \in 1 .. (K + 1)
    OBVIOUS
  <2>2. evals \in Seq(Elements)
    BY <2>1, LayerIsSeq
  <2>3. RootOf(evals) \in Seq(Int)
    BY <2>1, RootIsTyped
  <2> QED  BY <2>1, <2>2, <2>3
<1>4. layers' \in Seq(Seq(Elements)) /\ Len(layers') = 1 /\ layers'[1] = evals
  BY <1>1, <1>3
<1>5. FriTyped(K)'
  <2>1. \A r \in 1 .. Len(layers') : layers'[r] \in Layer(K, r)
    BY <1>4
  <2>2. betas' \in Seq(Elements) /\ Len(betas') = Len(layers') - 1
        /\ indices' \in Seq(0 .. (Two(K) - 1)) /\ Len(indices') <= nqueries'
    BY <1>1, <1>2, <1>4
  <2> QED  BY <1>1, <1>2, <1>3, <1>4, <2>1, <2>2 DEF FriTyped
<1>6. FriHonest(K)'
  BY <1>1, <1>2 DEF FriHonest
<1> DEFINE t == [k \in Nat |-> RootOf(evals)]
           raw == [k \in Nat |-> 0]
<1>7. t \in [Nat -> Seq(Int)] /\ raw \in [Nat -> Elements]
  BY <1>3, ZeroOne
<1>8. FriLog(K, t, raw)'
  <2>1. Len(betas') = 0 /\ Len(indices') = 0 /\ t[1] = RootOf(evals) /\ t[0 + 0 + 1] = RootOf(evals)
    BY <1>2
  <2> HIDE DEF t, raw
  <2> QED  BY <1>1, <1>4, <2>1 DEF FriLog
<1> HIDE DEF t, raw
<1>9. fs' \in [DOMAIN fs' -> Elements]
  BY <1>1 DEF FriInv
<1> QED  BY <1>1, <1>5, <1>6, <1>7, <1>8, <1>9 DEF FriInv

\* A layer with one wrong value is a layer.
LEMMA OneOffIs ==
  ASSUME NEW V, NEW n \in Nat, V = [1 .. n -> Elements], NEW v \in V, NEW u \in OneOff(v)
  PROVE  u \in V
BY DEF OneOff

\* A committed layer is folded, as it should be or not.
LEMMA FoldKeeps == FriInv /\ FriFold => FriInv'
<1> SUFFICES ASSUME FriInv, FriFold PROVE FriInv'
  OBVIOUS
<1>1. /\ phase = "committing" /\ Len(Current) > 1
      /\ UNCHANGED <<phase, faulty, domain, nqueries, indices, proof>>
  BY DEF FriFold
<1>2. PICK K \in 0 .. 30, t \in [Nat -> Seq(Int)], raw \in [Nat -> Elements] :
          FriTyped(K) /\ FriHonest(K) /\ FriLog(K, t, raw)
  BY <1>1 DEF FriInv
<1> DEFINE cur == Current
<1>n. PICK n \in 1 .. (K + 1) : n = Len(layers)
  BY <1>2 DEF FriTyped
<1>3. cur = layers[n] /\ cur \in Layer(K, n) /\ Len(betas) = n - 1
  BY <1>2, <1>n DEF FriTyped, Current
<1>4. Len(cur) > 1 /\ (Len(cur) = 1 <=> n = K + 1) /\ Len(cur) \in Nat
  BY <1>1, <1>3, LayerIsSeq
<1>5. n \in 1 .. K /\ n \in Nat
  <2> DEFINE l == Len(cur)
  <2>1. l > 1 /\ (l = 1 <=> n = K + 1) /\ l \in Nat
    BY <1>4
  <2> HIDE DEF l
  <2>2. n # K + 1
    BY <2>1
  <2> QED  BY <2>2
<1>6. indices = <<>> /\ Len(indices) = 0
  BY <1>1, <1>2, <1>5, <1>n DEF FriTyped
<1>7. PICK beta \in Samples(fs, challenger, Elements) :
        \E next \in LET doms == Domains(domain, Len(betas))
                        true == FoldStep(Current, doms[Len(doms)], beta)
                    IN IF faulty THEN OneOff(true) ELSE {true} :
         /\ layers' = Append(layers, next)
         /\ betas' = Append(betas, beta)
         /\ fs' = Learn(fs, challenger, beta)
         /\ challenger' = Sampled(challenger) \o RootOf(next)
  BY DEF FriFold
<1> DEFINE good == Folded(K, domain, cur, beta, n)
<1>8. LET doms == Domains(domain, Len(betas)) IN FoldStep(Current, doms[Len(doms)], beta) = good
  <2> DEFINE doms == Domains(domain, n - 1)
  <2>1. n - 1 \in Nat /\ K \in Nat /\ n - 1 <= K /\ (n - 1) + 1 = n /\ n \in 1 .. ((n - 1) + 1)
    BY <1>5
  <2>2. domain \in Points(Two(K))
    BY <1>2 DEF FriTyped
  <2>3. domain \in Seq(Elements)
    BY <2>2, DomainIs
  <2>4. doms[n] = Domains(domain, K)[n]
    BY <2>1, <2>3, DomainsAgree
  <2>5. doms \in [1 .. ((n - 1) + 1) -> Seq(Elements)]
    BY <2>1, <2>3, DomainsAre
  <2> HIDE DEF doms
  <2>6. Len(doms) = n
    BY <2>1, <2>5
  <2>7. FoldStep(cur, doms[Len(doms)], beta) = good
    BY <2>4, <2>6 DEF Folded
  <2> QED  BY <1>3, <2>7 DEF doms
<1>9. PICK next \in IF faulty THEN OneOff(good) ELSE {good} :
         /\ layers' = Append(layers, next)
         /\ betas' = Append(betas, beta)
         /\ fs' = Learn(fs, challenger, beta)
         /\ challenger' = Sampled(challenger) \o RootOf(next)
  BY <1>7, <1>8
<1>10. /\ fs' \in [DOMAIN fs' -> Elements] /\ beta \in Elements
       /\ challenger \in DOMAIN fs' /\ fs'[challenger] = beta
       /\ \A u \in DOMAIN fs : u \in DOMAIN fs' /\ fs'[u] = fs[u]
  <2>1. fs \in [DOMAIN fs -> Elements]
    BY DEF FriInv
  <2>2. fs' = Learn(fs, challenger, beta)
    BY <1>9
  <2> QED  BY <2>1, <2>2, LearnKeeps
<1>12. good \in Layer(K, n + 1)
  <2>1. domain \in Points(Two(K))
    BY <1>2 DEF FriTyped
  <2> QED  BY <1>3, <1>5, <1>10, <2>1, FoldedTyped
<1> HIDE DEF good
<1>13. n + 1 \in 1 .. (K + 1) /\ (n + 1) - 1 = n
  BY <1>5
<1>14. next \in Layer(K, n + 1) /\ (~faulty => next = good)
  <2>1. CASE faulty
    <3> DEFINE m == Two(K - ((n + 1) - 1))
    <3>1. K - ((n + 1) - 1) \in 0 .. 30
      <4>1. (n + 1) - 1 = n /\ K - n \in 0 .. 30
        BY <1>5
      <4> QED  BY <4>1
    <3>2. m \in Nat
      BY <3>1, PowersOfTwo
    <3>3. Layer(K, n + 1) = [1 .. m -> Elements]
      BY DEF Layer, Vectors
    <3> HIDE DEF m
    <3>4. next \in OneOff(good)
      BY <1>9, <2>1
    <3> QED  BY <1>12, <2>1, <3>2, <3>3, <3>4, OneOffIs
  <2>2. CASE ~faulty
    BY <1>9, <1>12, <2>2
  <2> QED  BY <2>1, <2>2
<1>15. next \in Seq(Elements) /\ RootOf(next) \in Seq(Int)
  BY <1>13, <1>14, LayerIsSeq, RootIsTyped
<1>16. /\ layers' \in Seq(Seq(Elements)) /\ Len(layers') = n + 1 /\ layers'[n + 1] = next
       /\ \A r \in 1 .. n : layers'[r] = layers[r]
  BY <1>2, <1>9, <1>15, <1>n DEF FriTyped
<1>17. /\ betas' \in Seq(Elements) /\ Len(betas') = n /\ betas'[n] = beta
       /\ \A r \in 1 .. (n - 1) : betas'[r] = betas[r]
  <2>1. betas \in Seq(Elements) /\ Len(betas) + 1 = n /\ betas' = Append(betas, beta)
    BY <1>2, <1>3, <1>9 DEF FriTyped
  <2>2. Len(betas') = Len(betas) + 1 /\ betas'[Len(betas) + 1] = beta
        /\ \A r \in 1 .. Len(betas) : betas'[r] = betas[r]
    BY <2>1
  <2> QED  BY <1>3, <1>10, <2>1, <2>2
<1>18. FriTyped(K)'
  <2>1. \A r \in 1 .. Len(layers') : layers'[r] \in Layer(K, r)
    <3> TAKE r \in 1 .. Len(layers')
    <3>1. r \in 1 .. n \/ r = n + 1
      BY <1>5, <1>16
    <3>2. CASE r \in 1 .. n
      BY <1>2, <1>16, <1>n, <3>2 DEF FriTyped
    <3>3. CASE r = n + 1
      BY <1>14, <1>16, <3>3
    <3> QED  BY <3>1, <3>2, <3>3
  <2>2. Len(layers') \in 1 .. (K + 1) /\ Len(betas') = Len(layers') - 1
    BY <1>13, <1>16, <1>17
  <2> QED  BY <1>1, <1>2, <1>6, <1>16, <1>17, <2>1, <2>2 DEF FriTyped
<1> HIDE DEF cur
<1>19. FriHonest(K)'
  <2> SUFFICES ASSUME ~faulty, NEW r \in 1 .. Len(betas')
               PROVE  layers'[r + 1] = Folded(K, domain, layers'[r], betas'[r], r)
    BY <1>1 DEF FriHonest
  <2>1. r \in 1 .. (n - 1) \/ r = n
    BY <1>5, <1>17
  <2>2. CASE r \in 1 .. (n - 1)
    <3>1. r \in 1 .. n /\ r + 1 \in 1 .. n /\ r \in 1 .. Len(betas)
      BY <1>3, <1>5, <2>2
    <3>2. layers[r + 1] = Folded(K, domain, layers[r], betas[r], r)
      BY <1>2, <3>1 DEF FriHonest
    <3> QED  BY <1>16, <1>17, <2>2, <3>1, <3>2
  <2>3. CASE r = n
    <3>1. n \in 1 .. n
      BY <1>5
    <3> QED  BY <1>3, <1>14, <1>16, <1>17, <2>3, <3>1 DEF good
  <2> QED  BY <2>1, <2>2, <2>3
<1> DEFINE m == n - 1
<1>c. PICK c : c = challenger'
  OBVIOUS
<1>20. m \in Nat /\ m + 1 = n /\ m + 2 = n + 1 /\ Len(betas) + Len(indices) = m
  BY <1>3, <1>5, <1>6
<1>21. challenger = t[n] /\ challenger \in Seq(Int)
  BY <1>2, <1>20 DEF FriLog
<1>22. c \in Seq(Int) /\ c = Sampled(t[n]) \o RootOf(next)
  <2>1. c = Sampled(t[n]) \o RootOf(next)
    BY <1>9, <1>21, <1>c
  <2>2. t[n] \in Seq(Int)
    BY <1>5
  <2>3. Sampled(t[n]) \in Seq(Int)
    BY <2>2 DEF Sampled
  <2>4. Sampled(t[n]) \o RootOf(next) \in Seq(Int)
    BY <2>3, <1>15
  <2> QED  BY <2>1, <2>4
<1>23. PICK u \in [Nat -> Seq(Int)], s \in [Nat -> Elements] :
       /\ u[n + 1] = c /\ s[n] = beta
       /\ \A k \in 1 .. n : u[k] = t[k]
       /\ \A k \in 1 .. m : s[k] = raw[k]
  <2> HIDE DEF m
  <2>1. m \in Nat /\ c \in Seq(Int) /\ beta \in Elements
    BY <1>10, <1>20, <1>22
  <2> DEFINE u == [t EXCEPT ![m + 2] = c]
             s == [raw EXCEPT ![m + 1] = beta]
  <2>2. u \in [Nat -> Seq(Int)] /\ u[m + 2] = c /\ \A k \in 1 .. (m + 1) : u[k] = t[k]
    BY <2>1
  <2>3. s \in [Nat -> Elements] /\ s[m + 1] = beta /\ \A k \in 1 .. m : s[k] = raw[k]
    BY <2>1
  <2> HIDE DEF u, s
  <2> QED  BY <1>20, <2>2, <2>3
<1> HIDE DEF m
<1>24. FriLog(K, u, s)'
  <2>1. Len(betas') = n /\ Len(indices') = 0 /\ n + 0 = n
    BY <1>1, <1>5, <1>6, <1>17
  <2>2. u[1] = RootOf(layers'[1])
    <3>1. 1 \in 1 .. n
      BY <1>5
    <3>2. t[1] = RootOf(layers[1])
      BY <1>2 DEF FriLog
    <3> QED  BY <1>16, <1>23, <3>1, <3>2
  <2>3. \A k \in 1 .. n : /\ u[k + 1] = Sampled(u[k]) \o RootOf(layers'[k + 1])
                          /\ u[k] \in DOMAIN fs' /\ fs'[u[k]] = s[k] /\ betas'[k] = s[k]
    <3> TAKE k \in 1 .. n
    <3>1. k \in 1 .. m \/ k = n
      BY <1>5, <1>20
    <3>2. CASE k \in 1 .. m
      <4>1. k + 1 \in 1 .. n /\ k \in 1 .. (Len(betas) + Len(indices)) /\ k <= Len(betas)
            /\ k \in 1 .. Len(betas) /\ k \in 1 .. (n - 1)
        BY <1>3, <1>5, <1>6, <1>20, <3>2
      <4>2. t[k + 1] = Sampled(t[k]) \o RootOf(layers[k + 1])
        BY <1>2, <4>1 DEF FriLog
      <4>3. t[k] \in DOMAIN fs /\ fs[t[k]] = raw[k] /\ betas[k] = raw[k]
        BY <1>2, <4>1 DEF FriLog
      <4>4. u[k + 1] = t[k + 1] /\ u[k] = t[k] /\ s[k] = raw[k] /\ layers'[k + 1] = layers[k + 1]
            /\ betas'[k] = betas[k]
        BY <1>16, <1>17, <1>23, <3>2, <4>1
      <4> QED  BY <1>10, <4>2, <4>3, <4>4
    <3>3. CASE k = n
      BY <1>10, <1>16, <1>17, <1>21, <1>22, <1>23, <3>3
    <3> QED  BY <3>1, <3>2, <3>3
  <2>4. challenger' = u[n + 1]
    BY <1>23, <1>c
  <2>5. \A k \in 1 .. n : k <= Len(betas')
    BY <2>1
  <2>7. \A q \in 1 .. Len(indices') : FALSE
    BY <2>1
  <2>8. Len(betas') + Len(indices') = n
    BY <2>1
  <2> QED  BY <2>1, <2>2, <2>3, <2>4, <2>5, <2>7, <2>8, Zenon DEF FriLog
<1> QED  BY <1>1, <1>10, <1>18, <1>19, <1>23, <1>24 DEF FriInv

-----------------------------------------------------------------------------
\* Queries and draws.

\* A sequence is a vector of its length.
LEMMA SeqIsVector == ASSUME NEW V, NEW f \in Seq(V) PROVE f \in [1 .. Len(f) -> V] /\ Len(f) \in Nat
OBVIOUS

\* A log is extended by one entry.
LEMMA Extended ==
  ASSUME NEW V, NEW f \in [Nat -> V], NEW n \in Nat, NEW v \in V
  PROVE  /\ [f EXCEPT ![n + 1] = v] \in [Nat -> V] /\ [f EXCEPT ![n + 1] = v][n + 1] = v
         /\ \A k \in 1 .. n : [f EXCEPT ![n + 1] = v][k] = f[k]
<1>1. n + 1 \in Nat /\ \A k \in 1 .. n : k \in Nat /\ k # n + 1
  OBVIOUS
<1> QED  BY <1>1

\* A place is sampled.
LEMMA QueryKeeps == FriInv /\ FriQuery => FriInv'
<1> SUFFICES ASSUME FriInv, FriQuery PROVE FriInv'
  OBVIOUS
<1>1. /\ phase = "committing" /\ Len(Current) = 1 /\ Len(indices) < nqueries
      /\ challenger' = Sampled(challenger)
      /\ UNCHANGED <<phase, faulty, domain, layers, betas, nqueries, proof>>
  BY DEF FriQuery
<1>2. PICK K \in 0 .. 30, t \in [Nat -> Seq(Int)], raw \in [Nat -> Elements] :
          FriTyped(K) /\ FriHonest(K) /\ FriLog(K, t, raw)
  BY <1>1 DEF FriInv
<1>3. PICK b \in Samples(fs, challenger, Elements) :
        /\ indices' = Append(indices, b % Len(layers[1])) /\ fs' = Learn(fs, challenger, b)
  BY DEF FriQuery
<1>4. /\ fs' \in [DOMAIN fs' -> Elements] /\ b \in Elements
      /\ challenger \in DOMAIN fs' /\ fs'[challenger] = b
      /\ \A u \in DOMAIN fs : u \in DOMAIN fs' /\ fs'[u] = fs[u]
  <2>1. fs \in [DOMAIN fs -> Elements]
    BY DEF FriInv
  <2> QED  BY <1>3, <2>1, LearnKeeps
<1>5. Len(layers[1]) = Two(K) /\ Two(K) \in Nat /\ Two(K) > 0
  <2>1. 1 \in 1 .. (K + 1) /\ 1 \in 1 .. Len(layers) /\ K - (1 - 1) = K
    BY <1>2 DEF FriTyped
  <2>2. layers[1] \in Layer(K, 1)
    BY <1>2, <2>1 DEF FriTyped
  <2>3. Len(layers[1]) = Two(K - (1 - 1))
    BY <2>1, <2>2, LayerIsSeq
  <2>4. Two(K) \in Nat /\ Two(K) > 0
    BY PowersOfTwo
  <2> QED  BY <2>1, <2>3, <2>4
<1>6. b % Two(K) \in 0 .. (Two(K) - 1) /\ b \in Nat
  <2> DEFINE w == Two(K)
  <2>1. w \in Nat /\ w > 0 /\ b \in Nat
    BY <1>4, <1>5, ElementsAreNat
  <2> HIDE DEF w
  <2>2. b % w \in 0 .. (w - 1)
    BY <2>1
  <2> QED  BY <2>1, <2>2 DEF w
<1>7. Len(layers) = K + 1
  <2> DEFINE n == Len(layers)
  <2>1. n \in 1 .. (K + 1) /\ layers[n] \in Layer(K, n)
    BY <1>2 DEF FriTyped
  <2>2. Len(layers[n]) = 1
    BY <1>1 DEF Current
  <2> HIDE DEF n
  <2>3. n = K + 1
    BY <2>1, <2>2, LayerIsSeq
  <2> QED  BY <2>3 DEF n
<1> DEFINE m == Len(indices)
<1>i. PICK e \in 0 .. (Two(K) - 1) : e = b % Two(K)
  BY <1>6
<1>8. /\ indices' \in Seq(0 .. (Two(K) - 1)) /\ Len(indices') = m + 1 /\ m \in Nat
      /\ indices'[m + 1] = e /\ \A q \in 1 .. m : indices'[q] = indices[q]
  <2>1. indices \in Seq(0 .. (Two(K) - 1)) /\ indices' = Append(indices, e)
    BY <1>2, <1>3, <1>5, <1>i DEF FriTyped
  <2> DEFINE S == 0 .. (Two(K) - 1)
  <2> HIDE DEF S
  <2>2. indices \in Seq(S) /\ e \in S /\ indices' = Append(indices, e)
    BY <2>1 DEF S
  <2>3. /\ indices' \in Seq(S) /\ Len(indices') = m + 1 /\ m \in Nat
        /\ indices'[m + 1] = e /\ \A q \in 1 .. m : indices'[q] = indices[q]
    <3>1. Len(indices) \in Nat
      BY <2>2
    <3>2. indices' \in Seq(S) /\ Len(indices') = Len(indices) + 1
      BY <2>2
    <3>3. indices'[Len(indices) + 1] = e
      BY <2>2
    <3>4. \A q \in 1 .. Len(indices) : indices'[q] = indices[q]
      BY <2>2
    <3> QED  BY <3>1, <3>2, <3>3, <3>4
  <2> QED  BY <2>3 DEF S
<1>9. FriTyped(K)'
  <2>1. Len(indices') <= nqueries'
    BY <1>1, <1>2, <1>8 DEF FriTyped
  <2> QED  BY <1>1, <1>2, <1>7, <1>8, <2>1 DEF FriTyped
<1>10. FriHonest(K)'
  BY <1>1, <1>2 DEF FriHonest
<1>n. PICK n \in Nat, l \in Nat : n = Len(betas) + Len(indices) /\ l = Len(betas) /\ n = l + m
  <2>1. Len(betas) \in Nat /\ Len(indices) \in Nat
    BY <1>2, <1>8 DEF FriTyped
  <2>2. Len(betas) + Len(indices) \in Nat
    BY <2>1
  <2> QED  BY <2>1, <2>2
<1>c. PICK c : c = challenger'
  OBVIOUS
<1>11. challenger = t[n + 1] /\ t[n + 1] \in Seq(Int)
  BY <1>2, <1>n DEF FriLog
<1>12. c \in Seq(Int) /\ c = Sampled(t[n + 1])
  <2>1. c = Sampled(t[n + 1])
    BY <1>1, <1>11, <1>c
  <2> QED  BY <1>11, <2>1 DEF Sampled
<1>13. PICK u \in [Nat -> Seq(Int)], s \in [Nat -> Elements] :
         /\ u[n + 2] = c /\ s[n + 1] = b
         /\ \A k \in 1 .. (n + 1) : u[k] = t[k]
         /\ \A k \in 1 .. n : s[k] = raw[k]
  <2> DEFINE u == [t EXCEPT ![n + 2] = c]
             s == [raw EXCEPT ![n + 1] = b]
  <2>1. u \in [Nat -> Seq(Int)] /\ u[n + 2] = c /\ \A k \in 1 .. (n + 1) : u[k] = t[k]
    <3>1. c \in Seq(Int) /\ n \in Nat /\ n + 2 \in Nat /\ \A k \in 1 .. (n + 1) : k \in Nat /\ k # n + 2
      BY <1>12
    <3> QED  BY <3>1
  <2>2. s \in [Nat -> Elements] /\ s[n + 1] = b /\ \A k \in 1 .. n : s[k] = raw[k]
    <3>1. b \in Elements
      BY <1>4
    <3> QED  BY <3>1, Extended
  <2> HIDE DEF u, s
  <2> QED  BY <2>1, <2>2
<1>14. FriLog(K, u, s)'
  <2>1. Len(betas') = l /\ Len(indices') = m + 1 /\ Len(betas') + Len(indices') = n + 1
    BY <1>1, <1>8, <1>n
  <2>2. u[1] = RootOf(layers'[1])
    BY <1>1, <1>2, <1>13 DEF FriLog
  <2>3. challenger' = u[(n + 1) + 1]
    <3>1. (n + 1) + 1 = n + 2
      OBVIOUS
    <3> QED  BY <1>13, <1>c, <3>1
  <2>4. \A k \in 1 .. (n + 1) :
          /\ u[k + 1] = IF k <= l THEN Sampled(u[k]) \o RootOf(layers'[k + 1]) ELSE Sampled(u[k])
          /\ u[k] \in DOMAIN fs' /\ fs'[u[k]] = s[k]
    <3> TAKE k \in 1 .. (n + 1)
    <3>1. CASE k \in 1 .. n
      <4>1. k + 1 \in 1 .. (n + 1) /\ k \in 1 .. (n + 1)
        BY <3>1
      <4>2. u[k] = t[k] /\ u[k + 1] = t[k + 1] /\ s[k] = raw[k]
        BY <1>13, <3>1, <4>1
      <4>3. /\ t[k + 1] = IF k <= l THEN Sampled(t[k]) \o RootOf(layers[k + 1]) ELSE Sampled(t[k])
            /\ t[k] \in DOMAIN fs /\ fs[t[k]] = raw[k]
        BY <1>2, <1>n, <3>1, Zenon DEF FriLog
      <4> QED  BY <1>1, <1>4, <4>2, <4>3
    <3>2. CASE k = n + 1
      <4>1. ~(k <= l) /\ k + 1 = n + 2 /\ n + 1 \in 1 .. (n + 1)
        BY <1>8, <1>n, <3>2
      <4>2. u[n + 1] = t[n + 1]
        BY <1>13, <4>1
      <4> QED  BY <1>4, <1>11, <1>12, <1>13, <3>2, <4>1, <4>2
    <3> QED  BY <3>1, <3>2
  <2>5. \A r \in 1 .. l : betas'[r] = s[r]
    <3> TAKE r \in 1 .. l
    <3>1. r \in 1 .. n
      BY <1>8, <1>n
    <3> QED  BY <1>1, <1>2, <1>13, <1>n, <3>1 DEF FriLog
  <2>6. \A q \in 1 .. (m + 1) : indices'[q] = s[l + q] % Two(K)
    <3> TAKE q \in 1 .. (m + 1)
    <3>1. CASE q \in 1 .. m
      <4>1. l + q \in 1 .. n
        BY <1>8, <1>n, <3>1
      <4>2. indices[q] = raw[l + q] % Two(K)
        BY <1>2, <1>n, <3>1 DEF FriLog
      <4> QED  BY <1>8, <1>13, <3>1, <4>1, <4>2
    <3>2. CASE q = m + 1
      <4>1. l + q = n + 1
        BY <1>8, <1>n, <3>2
      <4> QED  BY <1>8, <1>13, <1>i, <3>2, <4>1
    <3> QED  BY <1>8, <3>1, <3>2
  <2> HIDE DEF m
  <2> QED  BY <2>1, <2>2, <2>3, <2>4, <2>5, <2>6, Zenon DEF FriLog
<1> QED  BY <1>1, <1>4, <1>9, <1>10, <1>13, <1>14 DEF FriInv

\* The proof is put together.
LEMMA FinishKeeps == FriInv /\ FriFinish => FriInv'
<1> SUFFICES ASSUME FriInv, FriFinish PROVE FriInv'
  OBVIOUS
<1>1. /\ phase = "committing" /\ Len(Current) = 1 /\ Len(indices) = nqueries
      /\ phase' = "proved"
      /\ UNCHANGED <<faulty, domain, layers, betas, nqueries, indices, challenger, fs>>
  BY DEF FriFinish
<1>2. PICK K \in 0 .. 30, t \in [Nat -> Seq(Int)], raw \in [Nat -> Elements] :
          FriTyped(K) /\ FriHonest(K) /\ FriLog(K, t, raw)
  BY <1>1 DEF FriInv
<1>3. Len(layers) = K + 1 /\ Current \in Layer(K, K + 1)
  <2> DEFINE n == Len(layers)
  <2>1. n \in 1 .. (K + 1) /\ layers[n] \in Layer(K, n)
    BY <1>2 DEF FriTyped
  <2>2. Len(layers[n]) = 1
    BY <1>1 DEF Current
  <2>c. Current = layers[n]
    BY DEF Current
  <2> HIDE DEF n
  <2>3. n = K + 1
    BY <2>1, <2>2, LayerIsSeq
  <2>4. Current \in Layer(K, K + 1)
    BY <2>1, <2>3, <2>c
  <2> QED  BY <2>3, <2>4 DEF n
<1>4. Current[1] \in Elements
  <2>1. K + 1 \in 1 .. (K + 1)
    OBVIOUS
  <2>2. Current \in Seq(Elements) /\ Len(Current) = 1
    BY <1>1, <1>3, <2>1, LayerIsSeq
  <2> DEFINE v == Current
  <2> HIDE DEF v
  <2>3. v \in Seq(Elements) /\ Len(v) = 1
    BY <2>2 DEF v
  <2>4. v[1] \in Elements
    <3>1. 1 \in 1 .. Len(v)
      BY <2>3
    <3>2. v \in [1 .. Len(v) -> Elements]
      BY <2>3, SeqIsVector
    <3> QED  BY <3>1, <3>2
  <2> QED  BY <2>4 DEF v
<1>5. PICK final \in IF faulty THEN Elements ELSE {Current[1]} :
        proof' = [roots |-> [r \in DOMAIN layers |-> RootOf(layers[r])],
                  final_value |-> final,
                  query_indices |-> indices,
                  query_proofs |->
                    [q \in DOMAIN indices |->
                       [r \in DOMAIN betas |-> QueryRound(layers[r], layers[r + 1], indices[q])]]]
  BY DEF FriFinish
<1>6. final \in Elements /\ (~faulty => final = Current[1])
  BY <1>4
<1>7. /\ proof'.roots = [r \in DOMAIN layers |-> RootOf(layers[r])]
      /\ proof'.final_value = final /\ proof'.query_indices = indices
      /\ proof'.query_proofs =
           [q \in DOMAIN indices |->
              [r \in DOMAIN betas |-> QueryRound(layers[r], layers[r + 1], indices[q])]]
  BY <1>5
<1>8. FriTyped(K)'
  BY <1>1, <1>2, <1>3 DEF FriTyped
<1>9. FriHonest(K)'
  BY <1>1, <1>2, <1>6, <1>7 DEF FriHonest, Current
<1>10. FriLog(K, t, raw)'
  BY <1>1, <1>2 DEF FriLog
<1>11. FriProof'
  BY <1>1, <1>6, <1>7 DEF FriProof
<1>12. fs' \in [DOMAIN fs' -> Elements]
  BY <1>1 DEF FriInv
<1> QED  BY <1>1, <1>8, <1>9, <1>10, <1>11, <1>12 DEF FriInv

\* Every step of FRI keeps the invariant.
LEMMA FriKeeps == FriInv /\ FriNext => FriInv'
BY FoldKeeps, QueryKeeps, FinishKeeps DEF FriNext
-----------------------------------------------------------------------------
Drawn(raw, n) == [k \in 1 .. n |-> raw[k]]

\* What a verifier may draw at the roots of a proof is what was drawn.
LEMMA DrawsAre ==
  ASSUME FriInv, phase = "proved", NEW K \in 0 .. 30, FriTyped(K),
         NEW t \in [Nat -> Seq(Int)], NEW raw \in [Nat -> Elements], FriLog(K, t, raw),
         NEW queries \in Nat, queries <= nqueries
  PROVE  Draws(proof.roots, queries) = {Drawn(raw, Len(betas) + queries)}
<1> DEFINE roots == proof.roots
           n == Len(betas) + queries
           T == Transcripts(roots, queries)
<1>1. roots = [r \in 1 .. (K + 1) |-> RootOf(layers[r])] /\ Len(layers) = K + 1 /\ Len(betas) = K
  <2>1. layers \in Seq(Seq(Elements)) /\ Len(layers) = K + 1 /\ Len(betas) = K
    BY DEF FriTyped
  <2> QED  BY <2>1 DEF FriInv, FriProof
<1>2. \A r \in 1 .. (K + 1) : RootOf(layers[r]) \in Seq(Int)
  BY <1>1, RootIsTyped DEF FriTyped
<1>3. roots \in Roots /\ Len(roots) = K + 1 /\ \A r \in 1 .. (K + 1) : roots[r] = RootOf(layers[r])
  <2>1. roots \in [1 .. (K + 1) -> Seq(Int)] /\ K + 1 \in Nat
    BY <1>1, <1>2
  <2> HIDE DEF roots
  <2>2. roots \in Seq(Seq(Int)) /\ Len(roots) = K + 1
    BY <2>1, VectorIsSeq
  <2> QED  BY <1>1, <2>2 DEF Roots
<1>4. n \in Nat /\ (Len(roots) - 1) + queries = n /\ Len(roots) >= 1
      /\ n <= Len(betas) + Len(indices) /\ n = K + queries
  BY <1>1, <1>3 DEF FriTyped
<1> HIDE DEF roots
<1>5. /\ T \in [1 .. n -> Seq(Int)]
      /\ n >= 1 => T[1] = roots[1]
      /\ \A k \in 1 .. (n - 1) :
           T[k + 1] = IF k + 1 <= Len(roots) THEN Sampled(T[k]) \o roots[k + 1] ELSE Sampled(T[k])
  BY <1>3, <1>4, TranscriptsAre
<1>6. Draws(roots, queries) =
        {d \in [DOMAIN T -> UNION {Samples(fs, T[k], Elements) : k \in DOMAIN T}] :
           \A k \in DOMAIN T : d[k] \in Samples(fs, T[k], Elements)}
  BY DEF Draws
<1>7. DOMAIN T = 1 .. n
  BY <1>5
<1> HIDE DEF T
<1>8. \A k \in 1 .. n : T[k] = t[k]
  <2> DEFINE S == {k \in 0 .. n : k + 1 \in 1 .. n => T[k + 1] = t[k + 1]}
  <2> HIDE DEF n
  <2>1. 0 \in S
    <3>1. 1 \in 1 .. (K + 1) /\ t[1] = RootOf(layers[1])
      BY DEF FriLog
    <3>2. 0 \in 0 .. n /\ 0 + 1 = 1 /\ (1 \in 1 .. n => n >= 1)
      BY <1>4
    <3> QED  BY <1>3, <1>5, <3>1, <3>2
  <2>2. \A k \in 1 .. n : k - 1 \in S => k \in S
    <3> TAKE k \in 1 .. n
    <3> HAVE k - 1 \in S
    <3> SUFFICES ASSUME k + 1 \in 1 .. n PROVE T[k + 1] = t[k + 1]
      BY <1>4
    <3>1. k \in 1 .. (n - 1) /\ (k - 1) + 1 = k /\ k \in 1 .. n /\ k \in 1 .. (Len(betas) + Len(indices))
      BY <1>4
    <3>2. T[k] = t[k]
      BY <3>1
    <3>3. T[k + 1] = IF k + 1 <= Len(roots) THEN Sampled(t[k]) \o roots[k + 1] ELSE Sampled(t[k])
      BY <1>5, <3>1, <3>2
    <3>4. t[k + 1] = IF k <= Len(betas) THEN Sampled(t[k]) \o RootOf(layers[k + 1]) ELSE Sampled(t[k])
      BY <3>1, Zenon DEF FriLog
    <3>5. (k + 1 <= Len(roots) <=> k <= Len(betas)) /\ (k <= Len(betas) => k + 1 \in 1 .. (K + 1))
      BY <1>1, <1>3, <1>4
    <3>6. k <= Len(betas) => roots[k + 1] = RootOf(layers[k + 1])
      BY <1>3, <3>5
    <3> QED  BY <3>3, <3>4, <3>5, <3>6
  <2> HIDE DEF S
  <2>3. \A k \in 0 .. n : k \in S
    BY <1>4, <2>1, <2>2, Up
  <2>4. ASSUME NEW k \in 1 .. n PROVE T[k] = t[k]
    <3>1. k - 1 \in 0 .. n /\ (k - 1) + 1 = k
      BY <1>4
    <3> QED  BY <2>3, <3>1 DEF S
  <2> QED  BY <2>4
<1>9. \A k \in 1 .. n : Samples(fs, T[k], Elements) = {raw[k]}
  <2> TAKE k \in 1 .. n
  <2>1. k \in 1 .. (Len(betas) + Len(indices))
    BY <1>4
  <2>2. t[k] \in DOMAIN fs /\ fs[t[k]] = raw[k]
    BY <2>1, Zenon DEF FriLog
  <2> QED  BY <1>8, <2>2 DEF Samples
<1> HIDE DEF n
<1>10. Draws(roots, queries) = {[k \in 1 .. n |-> raw[k]]}
  <2> DEFINE U == UNION {Samples(fs, T[k], Elements) : k \in 1 .. n}
             e == [k \in 1 .. n |-> raw[k]]
  <2>1. Draws(roots, queries) =
          {d \in [1 .. n -> U] : \A k \in 1 .. n : d[k] \in Samples(fs, T[k], Elements)}
    BY <1>6, <1>7
  <2>2. \A k \in 1 .. n : raw[k] \in U
    BY <1>9
  <2> HIDE DEF U
  <2>3. e \in Draws(roots, queries)
    BY <1>9, <2>1, <2>2
  <2>4. ASSUME NEW d \in Draws(roots, queries) PROVE d = e
    <3>1. d \in [1 .. n -> U] /\ \A k \in 1 .. n : d[k] = raw[k]
      BY <1>9, <2>1
    <3> QED  BY <3>1
  <2> HIDE DEF e
  <2> QED  BY <2>3, <2>4 DEF e
<1> QED  BY <1>10 DEF n, roots, Drawn

-----------------------------------------------------------------------------
\* What the queries tell.

\* What the queried path of a committed proof comes to.
Folds(K, index) ==
  \A r \in 1 .. K :
    layers[r + 1][(index % Two(K - r)) + 1]
      = Folded(K, domain, layers[r], betas[r], r)[(index % Two(K - r)) + 1]

\* What the model calls a held path is that every fold on it is right.
LEMMA PathIs ==
  ASSUME NEW K \in 0 .. 30, FriTyped(K), Len(layers) = K + 1, NEW index
  PROVE  PathHolds(index) <=> Folds(K, index)
<1>1. betas \in Seq(Elements) /\ Len(betas) = K
  BY DEF FriTyped
<1>2. DOMAIN betas = 1 .. K
  BY <1>1
<1>3. ASSUME NEW r \in 1 .. K
      PROVE  /\ Len(layers[r]) \div 2 = Two(K - r)
             /\ Domains(domain, r)[r] = Domains(domain, K)[r]
  <2>1. r \in 1 .. (K + 1) /\ r \in 1 .. (r + 1) /\ r \in Nat /\ K \in Nat /\ r <= K
    OBVIOUS
  <2>2. layers[r] \in Layer(K, r)
    BY <2>1 DEF FriTyped
  <2>3. Len(layers[r]) = Two(K - (r - 1))
    BY <2>1, <2>2, LayerIsSeq
  <2>4. Two(K - (r - 1)) \div 2 = Two(K - r)
    BY HalfPower
  <2>5. domain \in Points(Two(K))
    BY DEF FriTyped
  <2>6. domain \in Seq(Elements)
    BY <2>5, DomainIs
  <2>7. Domains(domain, r)[r] = Domains(domain, K)[r]
    BY <2>1, <2>6, DomainsAgree
  <2> QED  BY <2>3, <2>4, <2>7
<1>4. PathHolds(index) <=>
        \A r \in 1 .. K :
          layers[r + 1][(index % (Len(layers[r]) \div 2)) + 1] =
            FoldStep(layers[r], Domains(domain, r)[r], betas[r])[(index % (Len(layers[r]) \div 2)) + 1]
  BY <1>2 DEF PathHolds
<1> QED  BY <1>3, <1>4 DEF Folds, Folded

\* A queried round of a committed proof.
LEMMA RoundIs ==
  ASSUME NEW K \in 0 .. 30, NEW r \in 1 .. K, NEW cur \in Layer(K, r), NEW next \in Layer(K, r + 1),
         NEW d \in Points(Two(K - (r - 1))), NEW beta \in Elements, NEW index \in Nat
  PROVE  LET i == (index % Two(K - r)) + 1
         IN /\ VerifyQueryRound(RootOf(cur), RootOf(next), Two(K - (r - 1)), Two(K - r),
                                d[(index % (Two(K - (r - 1)) \div 2)) + 1], beta,
                                QueryRound(cur, next, index))
                 <=> next[i] = FoldStep(cur, d, beta)[i]
            /\ QueryRound(cur, next, index).opening_folded.leaf_value = next[i]
<1> DEFINE h == Two(K - r)
           n == Two(K - (r - 1))
           j == index % h
           q == QueryRound(cur, next, index)
<1>1. h \in Nat /\ h > 0 /\ n = h + h /\ n \div 2 = h
  BY HalfPower
<1>2. r \in 1 .. (K + 1) /\ r + 1 \in 1 .. (K + 1) /\ K - (r - 1) \in 0 .. 30 /\ K - r \in 0 .. 30
      /\ (r + 1) - 1 = r
  OBVIOUS
<1>3. Len(cur) = n
  BY <1>2, LayerIsSeq
<1>4. cur \in [1 .. n -> Elements] /\ next \in [1 .. h -> Elements] /\ d \in Points(n)
  BY <1>2 DEF Layer, Vectors
<1>5. \A o \in 0 .. (n - 1) : VerifyOpening(RootOf(cur), n, Opening(cur, o))
  BY <1>2, <1>4, OpeningVerifies
<1>6. \A o \in 0 .. (h - 1) : VerifyOpening(RootOf(next), h, Opening(next, o))
  BY <1>2, <1>4, OpeningVerifies
<1> HIDE DEF h, n
<1>7. j \in 0 .. (h - 1) /\ j \in 0 .. (n - 1) /\ j + h \in 0 .. (n - 1)
      /\ j + 1 \in 1 .. h /\ (j + h) + 1 = (j + 1) + h
  BY <1>1
<1>8. /\ q.opening_x = Opening(cur, j) /\ q.opening_neg_x = Opening(cur, j + h)
      /\ q.opening_folded = Opening(next, j)
  BY <1>1, <1>3 DEF QueryRound
<1> HIDE DEF j, q
<1>9. /\ q.opening_x.leaf_value = cur[j + 1] /\ q.opening_neg_x.leaf_value = cur[(j + 1) + h]
      /\ q.opening_folded.leaf_value = next[j + 1]
  BY <1>7, <1>8 DEF Opening
<1>10. FoldStep(cur, d, beta)[j + 1] =
         Plus(Times(Plus(cur[j + 1], cur[(j + 1) + h]), Inv(2)),
              Times(beta, Times(Times(Minus(cur[j + 1], cur[(j + 1) + h]), Inv(2)), Inv(d[j + 1]))))
  <2>1. cur \in [1 .. (h + h) -> Elements] /\ d \in Points(h + h)
    BY <1>1, <1>4
  <2>2. \A i \in 1 .. h : FoldStep(cur, d, beta)[i] =
                Plus(Times(Plus(cur[i], cur[i + h]), Inv(2)),
                     Times(beta, Times(Times(Minus(cur[i], cur[i + h]), Inv(2)), Inv(d[i]))))
    BY <1>1, <2>1, FoldStepTyped
  <2> QED  BY <1>7, <2>2
<1>11. VerifyQueryRound(RootOf(cur), RootOf(next), n, h, d[j + 1], beta, q)
         <=> next[j + 1] = FoldStep(cur, d, beta)[j + 1]
  <2>1. /\ VerifyOpening(RootOf(cur), n, q.opening_x)
        /\ VerifyOpening(RootOf(cur), n, q.opening_neg_x)
        /\ VerifyOpening(RootOf(next), h, q.opening_folded)
    BY <1>5, <1>6, <1>7, <1>8
  <2> QED  BY <1>9, <1>10, <2>1 DEF VerifyQueryRound
<1> QED  BY <1>1, <1>9, <1>11 DEF h, n, j, q

\* The queries decide what they are to decide.
LEMMA QueriesTell ==
  ASSUME FriInv, phase = "proved", NEW K \in 0 .. 30, FriTyped(K),
         NEW t \in [Nat -> Seq(Int)], NEW raw \in [Nat -> Elements], FriLog(K, t, raw),
         NEW draws \in Draws(proof.roots, nqueries)
  PROVE  /\ \A r \in DOMAIN betas : draws[r] = betas[r]
         /\ \A q \in DOMAIN indices : draws[Len(betas) + q] % Len(domain) = indices[q]
         /\ FriVerify(domain, proof, nqueries, draws)
              <=> /\ betas # <<>>
                  /\ \A q \in DOMAIN indices : PathHolds(indices[q])
                  /\ indices # <<>> => proof.final_value = Current[1]
<1>1. /\ Len(layers) = K + 1 /\ Len(betas) = K /\ nqueries \in Nat /\ Len(indices) = nqueries
      /\ betas \in Seq(Elements) /\ indices \in Seq(0 .. (Two(K) - 1)) /\ layers \in Seq(Seq(Elements))
      /\ domain \in Points(Two(K))
  BY DEF FriTyped
<1>2. /\ DOMAIN betas = 1 .. K /\ DOMAIN indices = 1 .. nqueries /\ DOMAIN layers = 1 .. (K + 1)
      /\ K \in Nat /\ (betas # <<>> <=> K > 0) /\ (indices # <<>> <=> nqueries > 0)
      /\ \A r \in 1 .. K : betas[r] \in Elements
  <2> DEFINE S == 0 .. (Two(K) - 1)
  <2>1. indices \in Seq(S)
    BY <1>1
  <2> HIDE DEF S
  <2>2. DOMAIN indices = 1 .. nqueries /\ (indices # <<>> <=> nqueries > 0)
    <3>1. DOMAIN indices = 1 .. Len(indices) /\ (indices # <<>> <=> Len(indices) > 0)
      BY <2>1
    <3> QED  BY <1>1, <3>1
  <2>3. DOMAIN betas = 1 .. K /\ (betas # <<>> <=> K > 0)
    <3>0. betas \in Seq(Elements)
      BY <1>1
    <3>1. DOMAIN betas = 1 .. Len(betas) /\ (betas # <<>> <=> Len(betas) > 0)
      BY <3>0
    <3> QED  BY <1>1, <3>1
  <2>4. DOMAIN layers = 1 .. (K + 1)
    BY <1>1
  <2>5. \A r \in 1 .. K : betas[r] \in Elements
    BY <1>1
  <2> QED  BY <2>2, <2>3, <2>4, <2>5
<1>q. \A q \in 1 .. nqueries : indices[q] \in 0 .. (Two(K) - 1)
  <2> DEFINE S == 0 .. (Two(K) - 1)
  <2>1. indices \in Seq(S) /\ Len(indices) = nqueries
    BY <1>1
  <2> HIDE DEF S
  <2>2. \A q \in 1 .. nqueries : indices[q] \in S
    BY <2>1
  <2> QED  BY <2>2 DEF S
<1>3. draws = [k \in 1 .. (Len(betas) + nqueries) |-> raw[k]]
  <2>1. Draws(proof.roots, nqueries) = {Drawn(raw, Len(betas) + nqueries)}
    <3>1. nqueries <= nqueries /\ nqueries \in Nat
      BY <1>1
    <3>2. ASSUME NEW n \in Nat, n <= nqueries
          PROVE  Draws(proof.roots, n) = {Drawn(raw, Len(betas) + n)}
      BY <3>2, DrawsAre
    <3> QED  BY <3>1, <3>2
  <2> QED  BY <2>1 DEF Drawn
<1>4. \A r \in 1 .. K : draws[r] = betas[r]
  <2> TAKE r \in 1 .. K
  <2>1. r \in 1 .. (Len(betas) + nqueries) /\ r \in 1 .. Len(betas)
    BY <1>1
  <2>2. betas[r] = raw[r]
    BY <2>1 DEF FriLog
  <2> QED  BY <1>3, <2>1, <2>2
<1>l. Len(domain) = Two(K) /\ Two(K) \in Nat /\ Two(K) > 0
  <2> DEFINE n == Two(K)
  <2>1. n \in Nat /\ n > 0
    BY PowersOfTwo
  <2>2. domain \in [1 .. n -> Elements \ {0}]
    BY <1>1 DEF Points
  <2> HIDE DEF n
  <2>3. Len(domain) = n
    BY <2>1, <2>2
  <2> QED  BY <2>1, <2>3 DEF n
<1>5. \A q \in 1 .. nqueries : draws[Len(betas) + q] % Len(domain) = indices[q]
  <2> TAKE q \in 1 .. nqueries
  <2>1. Len(betas) + q \in 1 .. (Len(betas) + nqueries) /\ q \in 1 .. Len(indices)
    BY <1>1
  <2>2. indices[q] = raw[Len(betas) + q] % Two(K)
    BY <2>1 DEF FriLog
  <2>3. draws[Len(betas) + q] = raw[Len(betas) + q]
    BY <1>3, <2>1
  <2> QED  BY <1>l, <2>2, <2>3
<1>6. /\ proof.roots = [r \in 1 .. (K + 1) |-> RootOf(layers[r])]
      /\ proof.query_indices = indices
      /\ proof.query_proofs = [q \in 1 .. nqueries |->
           [r \in 1 .. K |-> QueryRound(layers[r], layers[r + 1], indices[q])]]
  BY <1>2 DEF FriInv, FriProof
<1>7. Len(proof.roots) = K + 1 /\ Len(proof.query_indices) = nqueries
      /\ Len(proof.query_proofs) = nqueries
      /\ \A q \in 1 .. nqueries : Len(proof.query_proofs[q]) = K
  <2>1. \A q \in 1 .. nqueries :
          proof.query_proofs[q] = [r \in 1 .. K |-> QueryRound(layers[r], layers[r + 1], indices[q])]
    BY <1>6, Zenon
  <2>2. \A n \in Nat : \A f : DOMAIN f = 1 .. n => Len(f) = n
    OBVIOUS
  <2>3. DOMAIN proof.roots = 1 .. (K + 1) /\ DOMAIN proof.query_proofs = 1 .. nqueries
        /\ \A q \in 1 .. nqueries : DOMAIN proof.query_proofs[q] = 1 .. K
    BY <1>6, <2>1, Zenon
  <2>4. K + 1 \in Nat
    BY <1>2
  <2>5. Len(proof.query_indices) = nqueries
    BY <1>1, <1>6
  <2> QED  BY <1>1, <1>2, <2>2, <2>3, <2>4, <2>5, Zenon
<1> DEFINE doms == Domains(domain, K)
<1>8. \A r \in 1 .. (K + 1) : doms[r] \in Points(Two(K - (r - 1))) /\ Len(doms[r]) = Two(K - (r - 1))
  <2> TAKE r \in 1 .. (K + 1)
  <2> DEFINE n == Two(K - (r - 1))
             d == doms[r]
  <2>1. K - (r - 1) \in 0 .. 30
    OBVIOUS
  <2>2. n \in Nat
    BY <2>1, PowersOfTwo
  <2>3. d \in Points(n)
    BY <1>1, DomainIs
  <2> HIDE DEF n, d
  <2>4. Len(d) = n
    BY <2>2, <2>3 DEF Points
  <2> QED  BY <2>3, <2>4 DEF n, d
<1>9. ASSUME NEW q \in 1 .. nqueries, NEW r \in 1 .. K
      PROVE  LET i == (indices[q] % Two(K - r)) + 1
             IN /\ VerifyQueryRound(proof.roots[r], proof.roots[r + 1], Len(doms[r]), Len(doms[r + 1]),
                       doms[r][(proof.query_indices[q] % (Len(doms[r]) \div 2)) + 1],
                       draws[r], proof.query_proofs[q][r])
                     <=> layers[r + 1][i] = Folded(K, domain, layers[r], betas[r], r)[i]
                /\ proof.query_proofs[q][r].opening_folded.leaf_value = layers[r + 1][i]
  <2>1. r \in 1 .. (K + 1) /\ r + 1 \in 1 .. (K + 1) /\ K - ((r + 1) - 1) = K - r
    OBVIOUS
  <2>2. layers[r] \in Layer(K, r) /\ layers[r + 1] \in Layer(K, r + 1)
    BY <1>1, <2>1 DEF FriTyped
  <2>3. proof.roots[r] = RootOf(layers[r]) /\ proof.roots[r + 1] = RootOf(layers[r + 1])
    BY <1>6, <2>1
  <2>4. proof.query_proofs[q][r] = QueryRound(layers[r], layers[r + 1], indices[q])
    BY <1>6
  <2>5. Len(doms[r]) = Two(K - (r - 1)) /\ Len(doms[r + 1]) = Two(K - r)
        /\ doms[r] \in Points(Two(K - (r - 1)))
    BY <1>8, <2>1
  <2>6. indices[q] \in Nat /\ betas[r] \in Elements /\ draws[r] = betas[r]
        /\ proof.query_indices[q] = indices[q]
    <3>1. indices[q] \in Nat
      BY <1>l, <1>q
    <3> QED  BY <1>2, <1>4, <1>6, <3>1
  <2> DEFINE d == doms[r]
             cur == layers[r]
             next == layers[r + 1]
             index == indices[q]
             beta == betas[r]
  <2>7. cur \in Layer(K, r) /\ next \in Layer(K, r + 1) /\ d \in Points(Two(K - (r - 1)))
        /\ index \in Nat /\ beta \in Elements
    BY <2>2, <2>5, <2>6, Zenon
  <2> HIDE DEF d, cur, next, index, beta
  <2>8. LET i == (index % Two(K - r)) + 1
        IN /\ VerifyQueryRound(RootOf(cur), RootOf(next), Two(K - (r - 1)), Two(K - r),
                               d[(index % (Two(K - (r - 1)) \div 2)) + 1], beta,
                               QueryRound(cur, next, index))
                 <=> next[i] = FoldStep(cur, d, beta)[i]
           /\ QueryRound(cur, next, index).opening_folded.leaf_value = next[i]
    BY <2>7, RoundIs, Zenon
  <2> QED  BY <2>3, <2>4, <2>5, <2>6, <2>8 DEF d, cur, next, index, beta, Folded
<1>10. FriVerify(domain, proof, nqueries, draws) <=>
         /\ K > 0
         /\ \A q \in 1 .. nqueries :
              /\ proof.query_indices[q] = draws[K + q] % Len(domain)
              /\ \A r \in 1 .. K :
                   VerifyQueryRound(proof.roots[r], proof.roots[r + 1], Len(doms[r]), Len(doms[r + 1]),
                       doms[r][(proof.query_indices[q] % (Len(doms[r]) \div 2)) + 1],
                       draws[r], proof.query_proofs[q][r])
              /\ proof.query_proofs[q][K].opening_folded.leaf_value = proof.final_value
  <2>1. Len(proof.roots) - 1 = K
    BY <1>2, <1>7
  <2> QED  BY <1>7, <2>1, Zenon DEF FriVerify
<1> HIDE DEF doms
<1>11. \A q \in 1 .. nqueries : proof.query_indices[q] = draws[K + q] % Len(domain)
  BY <1>1, <1>5, <1>6
<1>12. \A q \in 1 .. nqueries : PathHolds(indices[q]) <=> Folds(K, indices[q])
  BY <1>1, PathIs
<1>13. ASSUME K > 0, NEW q \in 1 .. nqueries
       PROVE  proof.query_proofs[q][K].opening_folded.leaf_value = Current[1]
  <2>1. K \in 1 .. K /\ K - K = 0 /\ Two(0) = 1
    BY <1>2, <1>13, PowersOfTwo
  <2>2. indices[q] \in Nat
    BY <1>l, <1>q
  <2>3. (indices[q] % 1) + 1 = 1
    BY <2>2
  <2>4. proof.query_proofs[q][K].opening_folded.leaf_value = layers[K + 1][(indices[q] % Two(K - K)) + 1]
    BY <1>9, <2>1
  <2> QED  BY <1>1, <2>1, <2>3, <2>4 DEF Current
<1>15. FriVerify(domain, proof, nqueries, draws)
         <=> /\ K > 0
             /\ \A q \in 1 .. nqueries : Folds(K, indices[q])
             /\ nqueries > 0 => proof.final_value = Current[1]
  <2>1. K > 0 => \A q \in 1 .. nqueries :
          proof.query_proofs[q][K].opening_folded.leaf_value = Current[1]
    BY <1>13
  <2>2. \A q \in 1 .. nqueries :
          Folds(K, indices[q]) <=>
          \A r \in 1 .. K :
            VerifyQueryRound(proof.roots[r], proof.roots[r + 1], Len(doms[r]), Len(doms[r + 1]),
                       doms[r][(proof.query_indices[q] % (Len(doms[r]) \div 2)) + 1],
                       draws[r], proof.query_proofs[q][r])
    BY <1>9 DEF Folds
  <2>3. nqueries > 0 <=> \E q \in 1 .. nqueries : TRUE
    <3>1. CASE nqueries > 0
      <4>1. 1 \in 1 .. nqueries
        BY <1>1, <3>1
      <4> QED  BY <3>1, <4>1
    <3>2. CASE ~(nqueries > 0)
      <4>1. \A q \in 1 .. nqueries : FALSE
        BY <1>1, <3>2
      <4> QED  BY <3>2, <4>1
    <3> QED  BY <3>1, <3>2
  <2> QED  BY <1>10, <1>11, <2>1, <2>2, <2>3
<1> QED  BY <1>2, <1>4, <1>5, <1>12, <1>15

-----------------------------------------------------------------------------
\* What the commitments tell.

AllFolded(K) == \A r \in 1 .. K : layers[r + 1] = Folded(K, domain, layers[r], betas[r], r)

\* Every path holds when every fold is right.
LEMMA PathsAre ==
  ASSUME NEW K \in 0 .. 30, FriTyped(K), Len(layers) = K + 1
  PROVE  (\A index \in 0 .. (Len(domain) - 1) : PathHolds(index)) <=> AllFolded(K)
<1>1. \A index \in 0 .. (Len(domain) - 1) : PathHolds(index) <=> Folds(K, index)
  BY PathIs
<1>2. Len(domain) = Two(K) /\ Two(K) \in Nat
  <2> DEFINE n == Two(K)
  <2>1. n \in Nat
    BY PowersOfTwo
  <2>2. domain \in [1 .. n -> Elements \ {0}]
    BY DEF FriTyped, Points
  <2> HIDE DEF n
  <2>3. Len(domain) = n
    BY <2>1, <2>2
  <2> QED  BY <2>1, <2>3 DEF n
<1>3. ASSUME \A index \in 0 .. (Len(domain) - 1) : Folds(K, index), NEW r \in 1 .. K
      PROVE  layers[r + 1] = Folded(K, domain, layers[r], betas[r], r)
  <2> DEFINE h == Two(K - r)
             next == layers[r + 1]
             good == Folded(K, domain, layers[r], betas[r], r)
  <2>1. r \in 1 .. (K + 1) /\ r + 1 \in 1 .. (K + 1) /\ (r + 1) - 1 = r /\ K - r \in 0 .. 30 /\ K - r < K
    OBVIOUS
  <2>2. betas[r] \in Elements /\ domain \in Points(Two(K)) /\ layers[r] \in Layer(K, r)
    <3>1. betas \in Seq(Elements) /\ Len(betas) = K
      BY DEF FriTyped
    <3>2. betas[r] \in Elements
      BY <3>1
    <3> QED  BY <2>1, <3>2 DEF FriTyped
  <2>3. good \in Layer(K, r + 1)
    BY <2>2, FoldedTyped
  <2>4. next \in [1 .. h -> Elements] /\ good \in [1 .. h -> Elements]
    BY <2>1, <2>3 DEF FriTyped, Layer, Vectors
  <2>5. h \in Nat /\ h > 0 /\ h < Two(K)
    BY <2>1, PowersOfTwo, TwoIncreases
  <2>6. \A index \in 0 .. (Len(domain) - 1) : next[(index % h) + 1] = good[(index % h) + 1]
    BY <1>3 DEF Folds
  <2> HIDE DEF h, next, good
  <2>7. ASSUME NEW i \in 1 .. h PROVE next[i] = good[i]
    <3>1. i - 1 \in 0 .. (Len(domain) - 1) /\ ((i - 1) % h) + 1 = i
      <4>1. i - 1 \in Nat /\ i - 1 < h
        BY <2>5
      <4>2. (i - 1) % h = i - 1
        BY <2>5, <4>1
      <4>3. Len(domain) \in Nat /\ h < Len(domain)
        BY <1>2, <2>5
      <4> QED  BY <2>5, <4>1, <4>2, <4>3
    <3> QED  BY <2>6, <3>1
  <2>8. next = good
    <3>1. next = [i \in 1 .. h |-> next[i]] /\ good = [i \in 1 .. h |-> good[i]]
      BY <2>4, Zenon
    <3>2. [i \in 1 .. h |-> next[i]] = [i \in 1 .. h |-> good[i]]
      BY <2>7, Zenon
    <3> QED  BY <3>1, <3>2, Zenon
  <2> QED  BY <2>8 DEF next, good
<1>4. ASSUME AllFolded(K), NEW index \in 0 .. (Len(domain) - 1) PROVE Folds(K, index)
  BY <1>4 DEF AllFolded, Folds
<1> QED  BY <1>1, <1>3, <1>4 DEF AllFolded

Again == CommitLayers(layers[1], domain, betas)

\* Recommitment computes the layers again: they are the run's exactly when every
\* fold was right.
LEMMA AgainIs ==
  ASSUME NEW K \in 0 .. 30, FriTyped(K), Len(layers) = K + 1
  PROVE  /\ DOMAIN Again = 1 .. (K + 1) /\ Len(Again) = K + 1
         /\ \A r \in 1 .. (K + 1) : Again[r] \in Layer(K, r)
         /\ (\A r \in 1 .. (K + 1) : Again[r] = layers[r]) <=> AllFolded(K)
<1> DEFINE L == Again
<1>1. betas \in Seq(Elements) /\ Len(betas) = K /\ domain \in Points(Two(K)) /\ K <= K
      /\ layers[1] \in Layer(K, 1)
  <2>1. 1 \in 1 .. Len(layers)
    OBVIOUS
  <2> QED  BY <2>1 DEF FriTyped
<1>2. /\ DOMAIN L = 1 .. (K + 1)
      /\ L[1] = layers[1]
      /\ \A r \in 1 .. K : L[r + 1] = Folded(K, domain, L[r], betas[r], r)
      /\ \A r \in 1 .. (K + 1) : L[r] \in Layer(K, r)
  <2> DEFINE v == layers[1]
             M == CommitLayers(v, domain, betas)
  <2>1. v \in Layer(K, 1) /\ Len(betas) <= K
    BY <1>1
  <2> HIDE DEF v
  <2>2. /\ DOMAIN M = 1 .. (Len(betas) + 1)
        /\ M[1] = v
        /\ \A r \in 1 .. Len(betas) : M[r + 1] = Folded(K, domain, M[r], betas[r], r)
        /\ \A r \in 1 .. (Len(betas) + 1) : M[r] \in Layer(K, r)
    <3>1. LayersTell(K, domain, v, betas, CommitLayers(v, domain, betas))
      BY <1>1, <2>1, LayersTold
    <3> QED  BY <3>1, Zenon DEF LayersTell
  <2> QED  BY <1>1, <2>2 DEF Again, v
<1> HIDE DEF L
<1>3. DOMAIN L = 1 .. (K + 1) /\ Len(L) = K + 1
  <2>1. DOMAIN L = 1 .. (K + 1)
    BY <1>2
  <2> QED  BY <2>1
<1>4. ASSUME \A r \in 1 .. (K + 1) : L[r] = layers[r] PROVE AllFolded(K)
  <2> SUFFICES ASSUME NEW r \in 1 .. K
               PROVE  layers[r + 1] = Folded(K, domain, layers[r], betas[r], r)
    BY DEF AllFolded
  <2>1. r \in 1 .. (K + 1) /\ r + 1 \in 1 .. (K + 1)
    OBVIOUS
  <2> QED  BY <1>2, <1>4, <2>1
<1>5. ASSUME AllFolded(K) PROVE \A r \in 1 .. (K + 1) : L[r] = layers[r]
  <2> DEFINE S == {k \in 0 .. K : L[k + 1] = layers[k + 1]}
  <2>1. 0 \in S
    <3>1. 0 + 1 = 1 /\ 0 \in 0 .. K
      OBVIOUS
    <3> QED  BY <1>2, <3>1
  <2>2. \A k \in 1 .. K : k - 1 \in S => k \in S
    <3> TAKE k \in 1 .. K
    <3> HAVE k - 1 \in S
    <3>1. (k - 1) + 1 = k /\ k \in 0 .. K
      OBVIOUS
    <3>2. L[k] = layers[k]
      BY <3>1
    <3>3. L[k + 1] = Folded(K, domain, layers[k], betas[k], k)
      BY <1>2, <3>2
    <3>4. layers[k + 1] = Folded(K, domain, layers[k], betas[k], k)
      BY <1>5 DEF AllFolded
    <3> QED  BY <3>1, <3>3, <3>4
  <2> HIDE DEF S
  <2>3. K \in Nat
    OBVIOUS
  <2>4. \A k \in 0 .. K : k \in S
    BY <2>1, <2>2, <2>3, Up
  <2> TAKE r \in 1 .. (K + 1)
  <2>5. r - 1 \in 0 .. K /\ (r - 1) + 1 = r
    OBVIOUS
  <2> QED  BY <2>4, <2>5 DEF S
<1> QED  BY <1>2, <1>3, <1>4, <1>5 DEF L

\* Committed to anew with its challenges, a proof is accepted when its folds
\* and its last value are right.
LEMMA CommitmentTells ==
  ASSUME FriInv, phase = "proved", NEW K \in 0 .. 30, FriTyped(K)
  PROVE  VerifyCommitment(layers[1], domain, betas, proof)
           <=> AllFolded(K) /\ proof.final_value = Current[1]
<1>1. Len(layers) = K + 1
  BY DEF FriTyped
<1>2. /\ DOMAIN Again = 1 .. (K + 1) /\ Len(Again) = K + 1
      /\ \A r \in 1 .. (K + 1) : Again[r] \in Layer(K, r)
      /\ (\A r \in 1 .. (K + 1) : Again[r] = layers[r]) <=> AllFolded(K)
  BY <1>1, AgainIs
<1>3. proof.roots = [r \in 1 .. (K + 1) |-> RootOf(layers[r])]
  <2>1. DOMAIN layers = 1 .. (K + 1)
    BY <1>1 DEF FriTyped
  <2> QED  BY <2>1 DEF FriInv, FriProof
<1>4. VerifyCommitment(layers[1], domain, betas, proof) <=>
        /\ proof.roots = [r \in 1 .. (K + 1) |-> RootOf(Again[r])]
        /\ proof.final_value = Again[K + 1][1]
  BY <1>2 DEF VerifyCommitment, Again
<1>5. \A r \in 1 .. (K + 1) : RootOf(Again[r]) = RootOf(layers[r]) <=> Again[r] = layers[r]
  <2> TAKE r \in 1 .. (K + 1)
  <2> DEFINE n == Two(K - (r - 1))
             A == Again[r]
             B == layers[r]
  <2>1. K - (r - 1) \in 0 .. 30
    OBVIOUS
  <2>2. n \in Nat /\ A \in [1 .. n -> Elements] /\ B \in [1 .. n -> Elements]
    BY <1>1, <1>2, <2>1, PowersOfTwo DEF FriTyped, Layer, Vectors
  <2> HIDE DEF n, A, B
  <2>3. ASSUME RootOf(A) = RootOf(B) PROVE A = B
    <3>1. Digest(A) = Digest(B)
      BY <2>3 DEF RootOf
    <3> QED  BY <2>2, <3>1, DigestInjective
  <2>4. RootOf(A) = RootOf(B) <=> A = B
    BY <2>3
  <2> QED  BY <2>4 DEF A, B
<1>6. proof.roots = [r \in 1 .. (K + 1) |-> RootOf(Again[r])] <=> AllFolded(K)
  <2>1. proof.roots = [r \in 1 .. (K + 1) |-> RootOf(Again[r])]
          <=> \A r \in 1 .. (K + 1) : RootOf(Again[r]) = RootOf(layers[r])
    BY <1>3
  <2> QED  BY <1>2, <1>5, <2>1
<1>7. AllFolded(K) => Again[K + 1][1] = Current[1]
  <2>1. K + 1 \in 1 .. (K + 1)
    OBVIOUS
  <2> QED  BY <1>1, <1>2, <2>1 DEF Current
<1> QED  BY <1>4, <1>6, <1>7

\* The verifier of a transcript can only follow the challenges it was made with.
LEMMA TranscriptTells ==
  ASSUME FriInv, phase = "proved", NEW K \in 0 .. 30, FriTyped(K),
         NEW t \in [Nat -> Seq(Int)], NEW raw \in [Nat -> Elements], FriLog(K, t, raw)
  PROVE  VerifyCommitmentTranscript(layers[1], domain, proof)
           <=> VerifyCommitment(layers[1], domain, betas, proof)
<1>1. Len(layers) = K + 1 /\ Len(betas) = K /\ betas \in Seq(Elements) /\ nqueries \in Nat
      /\ 0 \in Nat /\ 0 <= nqueries
  BY DEF FriTyped
<1>2. Log2(Len(layers[1])) = K
  <2>1. 1 \in 1 .. (K + 1) /\ 1 \in 1 .. Len(layers) /\ K - (1 - 1) = K
    BY <1>1
  <2>2. layers[1] \in Layer(K, 1)
    BY <2>1 DEF FriTyped
  <2>3. Len(layers[1]) = Two(K)
    <3> DEFINE v == layers[1]
    <3>1. v \in Layer(K, 1)
      BY <2>2
    <3> HIDE DEF v
    <3>2. Len(v) = Two(K - (1 - 1))
      BY <2>1, <3>1, LayerIsSeq, Zenon
    <3> QED  BY <2>1, <3>2 DEF v
  <2> QED  BY <2>3, LogOfPower
<1>3. Draws(proof.roots, 0) = {Drawn(raw, Len(betas) + 0)}
  BY <1>1, DrawsAre
<1>4. Drawn(raw, Len(betas) + 0) = betas
  <2>1. Len(betas) + 0 = K /\ betas \in [1 .. K -> Elements] /\ \A r \in 1 .. K : betas[r] = raw[r]
    <3>1. Len(betas) + 0 = K
      BY <1>1
    <3>2. betas \in [1 .. K -> Elements]
      BY <1>1, SeqIsVector
    <3>3. \A r \in 1 .. K : betas[r] = raw[r]
      BY <1>1 DEF FriLog
    <3> QED  BY <3>1, <3>2, <3>3
  <2>2. Drawn(raw, K) = betas
    BY <2>1 DEF Drawn
  <2> QED  BY <2>1, <2>2
<1>5. Draws(proof.roots, 0) = {betas}
  BY <1>3, <1>4
<1>6. betas \in [1 .. K -> Elements]
  BY <1>1, SeqIsVector
<1> DEFINE roots(c) == [r \in DOMAIN CommitLayers(layers[1], domain, c) |->
                          RootOf(CommitLayers(layers[1], domain, c)[r])]
<1>7. VerifyCommitmentTranscript(layers[1], domain, proof) <=>
        \E c \in [1 .. K -> Elements] :
          VerifyCommitment(layers[1], domain, c, proof) /\ c \in Draws(roots(c), 0)
  BY <1>2 DEF VerifyCommitmentTranscript
<1>8. \A c \in [1 .. K -> Elements] :
        VerifyCommitment(layers[1], domain, c, proof) => proof.roots = roots(c)
  BY DEF VerifyCommitment
<1> HIDE DEF roots
<1> QED  BY <1>5, <1>6, <1>7, <1>8

\* Both recommitment checks decide whether all folds were right.
LEMMA RecommitTells ==
  ASSUME FriInv, phase = "proved"
  PROVE  RecommitDecides
<1>1. PICK K \in 0 .. 30, t \in [Nat -> Seq(Int)], raw \in [Nat -> Elements] :
        FriTyped(K) /\ FriHonest(K) /\ FriLog(K, t, raw)
  BY DEF FriInv
<1>2. Len(layers) = K + 1
  BY <1>1 DEF FriTyped
<1>3. (\A index \in 0 .. (Len(domain) - 1) : PathHolds(index)) <=> AllFolded(K)
  BY <1>1, <1>2, PathsAre
<1>4. VerifyCommitment(layers[1], domain, betas, proof)
        <=> AllFolded(K) /\ proof.final_value = Current[1]
  BY <1>1, CommitmentTells
<1>5. VerifyCommitmentTranscript(layers[1], domain, proof)
        <=> VerifyCommitment(layers[1], domain, betas, proof)
  BY <1>1, TranscriptTells
<1> QED  BY <1>3, <1>4, <1>5 DEF RecommitDecides

\* The whole of it.
LEMMA InvDecides == FriInv => VerdictsDecide
<1> SUFFICES ASSUME FriInv PROVE VerdictsDecide
  OBVIOUS
<1>1. CASE phase # "proved"
  BY <1>1 DEF VerdictsDecide, RecommitDecides, QueriesDecide, DrawsMeet
<1>2. CASE phase = "proved"
  <2>1. PICK K \in 0 .. 30, t \in [Nat -> Seq(Int)], raw \in [Nat -> Elements] :
          FriTyped(K) /\ FriLog(K, t, raw)
    BY <1>2 DEF FriInv
  <2>2. ASSUME NEW draws \in Draws(proof.roots, nqueries)
        PROVE  /\ \A r \in DOMAIN betas : draws[r] = betas[r]
               /\ \A q \in DOMAIN indices : draws[Len(betas) + q] % Len(domain) = indices[q]
               /\ FriVerify(domain, proof, nqueries, draws)
                    <=> /\ betas # <<>>
                        /\ \A q \in DOMAIN indices : PathHolds(indices[q])
                        /\ indices # <<>> => proof.final_value = Current[1]
    BY <1>2, <2>1, <2>2, QueriesTell
  <2>3. RecommitDecides
    BY <1>2, RecommitTells
  <2> QED  BY <2>2, <2>3 DEF VerdictsDecide, QueriesDecide, DrawsMeet
<1> QED  BY <1>1, <1>2

-----------------------------------------------------------------------------
\* Powers and roots.

\* A power stays in a set of elements that multiplication by the base does not leave.
LEMMA PowerStays ==
  ASSUME NEW a, NEW V, 1 \in V, \A v \in V : Times(a, v) \in V, NEW n \in Nat
  PROVE  Power(a, n) \in V
<1> DEFINE F == [k \in 1 .. n |-> [v \in V |-> Times(a, v)]]
<1>1. F \in [1 .. n -> [V -> V]]
  OBVIOUS
<1>2. \A k \in 1 .. n, v \in V : F[k][v] = Times(a, v)
  OBVIOUS
<1> HIDE DEF F
<1>3. PICK t : Iterates(n, V, 1, F, t)
  BY <1>1, Recursion
<1>4. t \in [0 .. n -> V] /\ t[0] = 1 /\ \A k \in 1 .. n : t[k] = Times(a, t[k - 1])
  BY <1>2, <1>3 DEF Iterates
<1>5. t = [k \in 0 .. n |-> IF k = 0 THEN 1 ELSE Times(a, t[k - 1])]
  BY <1>4
<1>6. PICK p : /\ p = [k \in 0 .. n |-> IF k = 0 THEN 1 ELSE Times(a, p[k - 1])]
               /\ Power(a, n) = p[n]
  BY <1>5 DEF Power
<1>7. p[0] = 1 /\ \A k \in 1 .. n : p[k] = Times(a, p[k - 1])
  <2>1. p[0] = 1
    BY <1>6
  <2>2. ASSUME NEW k \in 1 .. n PROVE p[k] = Times(a, p[k - 1])
    BY <1>6
  <2> QED  BY <2>1, <2>2
<1>8. \A k \in 0 .. n : p[k] \in V
  BY <1>7, Stays
<1> QED  BY <1>6, <1>8

\* Powers are elements, and those of invertible elements invertible.
LEMMA PowerTyped ==
  ASSUME NEW a \in Elements, NEW n \in Nat
  PROVE  /\ Power(a, n) \in Elements
         /\ a # 0 => Power(a, n) \in Elements \ {0}
<1>1. Power(a, n) \in Elements
  <2>1. \A v \in Elements : Times(a, v) \in Elements
    BY Typed
  <2> QED  BY <2>1, ZeroOne, PowerStays
<1>2. ASSUME a # 0 PROVE Power(a, n) \in Elements \ {0}
  <2> DEFINE V == Elements \ {0}
  <2>1. \A v \in V : Times(a, v) \in V
    BY <1>2, NoZeroDivisor
  <2>2. 1 \in V
    BY ZeroOne
  <2> HIDE DEF V
  <2>3. Power(a, n) \in V
    BY <2>1, <2>2, PowerStays
  <2> QED  BY <2>3 DEF V
<1> QED  BY <1>1, <1>2

\* The roots of unity, and the domain of their powers.
LEMMA RootsTyped ==
  ASSUME NEW n \in Nat, n > 0
  PROVE  PrimitiveRoot(n) \in Elements \ {0} /\ TwoAdicDomain(n) \in Points(n)
<1> DEFINE e == (P - 1) \div n
           g == PrimitiveRoot(n)
<1>1. e \in Nat
  BY FieldAssumption
<1>2. Generator \in Elements /\ Generator # 0
  BY FieldAssumption DEF Elements
<1>3. g = Power(Generator, e)
  BY DEF PrimitiveRoot
<1> HIDE DEF e, g
<1>4. g \in Elements \ {0}
  BY <1>1, <1>2, <1>3, PowerTyped
<1>5. \A i \in 1 .. n : Power(g, i - 1) \in Elements \ {0}
  <2> TAKE i \in 1 .. n
  <2>1. i - 1 \in Nat
    OBVIOUS
  <2> QED  BY <1>4, <2>1, PowerTyped
<1>6. TwoAdicDomain(n) = [i \in 1 .. n |-> Power(g, i - 1)]
  BY DEF TwoAdicDomain, g
<1>7. TwoAdicDomain(n) \in Points(n)
  BY <1>5, <1>6 DEF Points
<1> QED  BY <1>4, <1>7 DEF g

\* No power of two is zero in the field.
LEMMA TwoIsNoZero == \A k \in 0 .. 30 : Two(k) % P \in Elements \ {0}
<1> DEFINE S == {k \in 0 .. 30 : Two(k) % P # 0}
<1>1. 0 \in S
  <2>1. Two(0) = 1 /\ 0 \in 0 .. 30
    BY PowersOfTwo
  <2>2. 1 % P = 1
    BY FieldAssumption
  <2> QED  BY <2>1, <2>2
<1>2. \A k \in 1 .. 30 : k - 1 \in S => k \in S
  <2> TAKE k \in 1 .. 30
  <2> HAVE k - 1 \in S
  <2>1. k \in 0 .. 30 /\ k - 1 \in 0 .. 30 /\ k > 0
    OBVIOUS
  <2>2. Two(k) = 2 * Two(k - 1) /\ Two(k - 1) \in Int
    BY <2>1, PowersOfTwo
  <2>3. (2 * Two(k - 1)) % P # 0
    <3> DEFINE w == Two(k - 1)
    <3>1. w \in Int /\ w % P # 0 /\ 2 \in Int /\ 2 % P # 0
      BY <2>1, <2>2, FieldAssumption
    <3> HIDE DEF w
    <3>2. (2 * w) % P # 0
      BY <3>1, PrimeDivides
    <3> QED  BY <3>2 DEF w
  <2> QED  BY <2>1, <2>2, <2>3
<1> HIDE DEF S
<1>3. \A k \in 0 .. 30 : k \in S
  BY <1>1, <1>2, Up
<1>4. ASSUME NEW k \in 0 .. 30 PROVE Two(k) % P \in Elements
  <2>1. Two(k) \in Int
    BY PowersOfTwo
  <2> QED  BY <2>1, DivMod
<1> QED  BY <1>3, <1>4 DEF S

\* Bits reversed.
LEMMA ReverseTyped ==
  ASSUME NEW bits \in 0 .. 30, NEW x \in Nat
  PROVE  ReverseBits(x, bits) \in 0 .. (Two(bits) - 1)
<1> DEFINE Bit(k) == (x \div 2^(k - 1)) % 2
           F == [k \in 1 .. bits |-> [v \in Nat |-> (2 * v) + Bit(k)]]
<1>0. bits \in Nat
  OBVIOUS
<1>1. \A k \in 1 .. bits : Bit(k) \in {0, 1}
  <2> TAKE k \in 1 .. bits
  <2>1. k - 1 \in 0 .. 30
    OBVIOUS
  <2> DEFINE w == Two(k - 1)
  <2>2. w \in Nat /\ w > 0 /\ Bit(k) = (x \div w) % 2
    BY <2>1, PowersOfTwo DEF Two
  <2> HIDE DEF w, Bit
  <2>3. x \div w \in Int
    BY <2>2
  <2> QED  BY <2>2, <2>3
<1> HIDE DEF Bit
<1>2. F \in [1 .. bits -> [Nat -> Nat]]
  BY <1>1
<1>3. \A k \in 1 .. bits, v \in Nat : F[k][v] = (2 * v) + Bit(k)
  OBVIOUS
<1> HIDE DEF F
<1>4. PICK t : Iterates(bits, Nat, 0, F, t)
  BY <1>0, <1>2, Recursion
<1>5. t \in [0 .. bits -> Nat] /\ t[0] = 0 /\ \A k \in 1 .. bits : t[k] = (2 * t[k - 1]) + Bit(k)
  <2>1. t \in [0 .. bits -> Nat] /\ t[0] = 0 /\ \A k \in 1 .. bits : t[k] = F[k][t[k - 1]]
    BY <1>4 DEF Iterates
  <2>2. ASSUME NEW k \in 1 .. bits PROVE t[k] = (2 * t[k - 1]) + Bit(k)
    <3>1. k - 1 \in 0 .. bits
      OBVIOUS
    <3>2. t[k - 1] \in Nat
      BY <2>1, <3>1
    <3> QED  BY <1>3, <2>1, <3>2
  <2> QED  BY <2>1, <2>2
<1>6. t = [k \in 0 .. bits |-> IF k = 0 THEN 0 ELSE (2 * t[k - 1]) + Bit(k)]
  BY <1>5
<1>7. PICK r : /\ r = [k \in 0 .. bits |-> IF k = 0 THEN 0 ELSE (2 * r[k - 1]) + Bit(k)]
               /\ ReverseBits(x, bits) = r[bits]
  BY <1>6 DEF ReverseBits, Bit
<1>8. r[0] = 0 /\ \A k \in 1 .. bits : r[k] = (2 * r[k - 1]) + Bit(k)
  <2>1. r[0] = 0
    BY <1>0, <1>7
  <2>2. ASSUME NEW k \in 1 .. bits PROVE r[k] = (2 * r[k - 1]) + Bit(k)
    BY <1>7
  <2> QED  BY <2>1, <2>2
<1> DEFINE S == {k \in 0 .. bits : r[k] \in 0 .. (Two(k) - 1)}
<1>9. 0 \in S
  BY <1>0, <1>8, PowersOfTwo
<1>10. \A k \in 1 .. bits : k - 1 \in S => k \in S
  <2> TAKE k \in 1 .. bits
  <2> HAVE k - 1 \in S
  <2>1. k \in 0 .. bits /\ k \in 0 .. 30 /\ k > 0 /\ k - 1 \in 0 .. 30
    OBVIOUS
  <2>2. Two(k) = 2 * Two(k - 1) /\ Two(k - 1) \in Nat
    BY <2>1, PowersOfTwo
  <2>3. r[k - 1] \in 0 .. (Two(k - 1) - 1)
    OBVIOUS
  <2> DEFINE w == Two(k - 1)
             v == r[k - 1]
             b == Bit(k)
  <2>4. w \in Nat /\ v \in 0 .. (w - 1) /\ b \in {0, 1} /\ r[k] = 2 * v + b /\ Two(k) = 2 * w
    BY <1>1, <1>8, <2>2, <2>3
  <2> HIDE DEF w, v, b
  <2>5. r[k] \in 0 .. (Two(k) - 1)
    BY <2>4
  <2> QED  BY <2>1, <2>5
<1> HIDE DEF S
<1>11. \A k \in 0 .. bits : k \in S
  BY <1>0, <1>9, <1>10, Up
<1> QED  BY <1>0, <1>7, <1>11 DEF S

-----------------------------------------------------------------------------
\* Transforms.

\* Where the other end of a butterfly is.
LEMMA ButterflyPlace ==
  ASSUME NEW h \in Nat, h > 0, NEW m \in Nat, NEW n \in Nat, n = m * (h + h), NEW i \in 1 .. n
  PROVE  LET k == (i - 1) % (h + h)
         IN /\ k \in Nat
            /\ k < h => i + h \in 1 .. n
            /\ ~(k < h) => i - h \in 1 .. n /\ k - h \in Nat
<1> DEFINE index == i - 1
           w == h + h
           k == index % w
           c == index \div w
<1>1. index \in 0 .. (n - 1) /\ index \in Int /\ i = index + 1 /\ w \in Nat /\ w > 0
  OBVIOUS
<1>2. c \in Nat /\ (c + 1) * w <= n
  BY <1>1, HalfBlock
<1> HIDE DEF index
<1>3. index = w * c + k /\ k \in Nat /\ k < w
  BY <1>1, DivIs
<1> HIDE DEF c, k
<1> DEFINE q == w * c
<1>4. q \in Nat /\ (c + 1) * w = q + w
  BY <1>1, <1>2
<1>5. w = h + h
  OBVIOUS
<1> HIDE DEF q, w
<1>6. k \in Nat /\ index = q + k /\ q + w <= n
  BY <1>2, <1>3, <1>4 DEF q
<1>7. k < h => i + h \in 1 .. n
  BY <1>1, <1>4, <1>5, <1>6
<1>8. ~(k < h) => i - h \in 1 .. n /\ k - h \in Nat
  BY <1>1, <1>4, <1>5, <1>6
<1> QED  BY <1>6, <1>7, <1>8 DEF k, index, w

\* One round of butterflies keeps a vector a vector.
LEMMA ButterfliesTyped ==
  ASSUME NEW bits \in 0 .. 30, NEW k \in 1 .. bits, NEW a \in Vectors(Two(bits)), NEW omega \in Elements
  PROVE  Butterflies(a, 2^k, omega) \in Vectors(Two(bits))
<1> DEFINE n == Two(bits)
           h == Two(k - 1)
           root == Power(omega, n \div (h + h))
<1>1. k \in 0 .. 30 /\ k > 0 /\ k \in 0 .. bits /\ k - 1 \in 0 .. 30
  OBVIOUS
<1>2. h \in Nat /\ h > 0 /\ Two(k) = h + h /\ n \in Nat
  <2>1. h \in Nat /\ h > 0 /\ Two(k) = 2 * h /\ n \in Nat
    BY <1>1, PowersOfTwo
  <2> HIDE DEF h, n
  <2> QED  BY <2>1
<1>3. PICK m \in Nat : n = m * Two(k)
  BY <1>1, PowersDivide
<1>4. (h + h) \div 2 = h /\ n = m * (h + h)
  <2>1. n = m * (h + h)
    BY <1>2, <1>3
  <2> HIDE DEF h, n
  <2> QED  BY <1>2, <2>1, HalfIs
<1>5. a \in [1 .. n -> Elements]
  BY DEF Vectors
<1> HIDE DEF n, h
<1>6. root \in Elements
  <2>1. n \div (h + h) \in Nat
    <3> DEFINE w == h + h
    <3>1. w \in Nat /\ w > 0
      BY <1>2
    <3> HIDE DEF w
    <3>2. n \div w \in Nat
      BY <1>2, <3>1
    <3> QED  BY <3>2 DEF w
  <2> QED  BY <2>1, PowerTyped
<1>7. Len(a) = n /\ DOMAIN a = 1 .. n
  BY <1>2, <1>5
<1>8. 2^k = h + h
  BY <1>2 DEF Two
<1> HIDE DEF root
<1>9. Butterflies(a, 2^k, omega) =
        [i \in 1 .. n |->
           IF (i - 1) % (h + h) < h
           THEN Plus(a[i], Times(a[i + h], Power(root, (i - 1) % (h + h))))
           ELSE Minus(a[i - h], Times(a[i], Power(root, ((i - 1) % (h + h)) - h)))]
  BY <1>4, <1>7, <1>8 DEF Butterflies, root
<1>10. ASSUME NEW i \in 1 .. n
       PROVE  (IF (i - 1) % (h + h) < h
               THEN Plus(a[i], Times(a[i + h], Power(root, (i - 1) % (h + h))))
               ELSE Minus(a[i - h], Times(a[i], Power(root, ((i - 1) % (h + h)) - h)))) \in Elements
  <2> DEFINE j == (i - 1) % (h + h)
  <2>1. /\ j \in Nat /\ (j < h => i + h \in 1 .. n)
        /\ ~(j < h) => i - h \in 1 .. n /\ j - h \in Nat
    BY <1>2, <1>4, ButterflyPlace
  <2>2. a[i] \in Elements
    BY <1>5
  <2> HIDE DEF j
  <2>3. CASE j < h
    <3>1. a[i + h] \in Elements /\ Power(root, j) \in Elements
      BY <1>5, <1>6, <2>1, <2>3, PowerTyped
    <3> QED  BY <2>2, <2>3, <3>1, Typed DEF j
  <2>4. CASE ~(j < h)
    <3>1. a[i - h] \in Elements /\ Power(root, j - h) \in Elements
      BY <1>5, <1>6, <2>1, <2>4, PowerTyped
    <3> QED  BY <2>2, <2>4, <3>1, Typed DEF j
  <2> QED  BY <2>3, <2>4
<1> QED  BY <1>9, <1>10 DEF Vectors, n

\* So does the transform (deep_ali.rs, fft_in_place).
LEMMA FftTyped ==
  ASSUME NEW bits \in 0 .. 30, NEW a \in Vectors(Two(bits)), NEW omega \in Elements
  PROVE  FftInPlace(a, omega) \in Vectors(Two(bits))
<1> DEFINE n == Two(bits)
           V == Vectors(n)
           first == [i \in 1 .. n |-> a[ReverseBits(i - 1, bits) + 1]]
           F == [k \in 1 .. bits |-> [v \in V |-> Butterflies(v, 2^k, omega)]]
<1>1. n \in Nat /\ n > 0 /\ bits \in Nat
  BY PowersOfTwo
<1>2. a \in [1 .. n -> Elements]
  BY DEF Vectors
<1>3. Log2(n) = bits
  BY LogOfPower
<1>4. \A i \in 1 .. n : ReverseBits(i - 1, bits) + 1 \in 1 .. n
  <2> TAKE i \in 1 .. n
  <2>1. i - 1 \in Nat
    OBVIOUS
  <2>2. ReverseBits(i - 1, bits) \in 0 .. (n - 1)
    BY <2>1, ReverseTyped
  <2> HIDE DEF n
  <2> QED  BY <1>1, <2>2
<1>5. \A k \in 1 .. bits : \A v \in V : Butterflies(v, 2^k, omega) \in V
  BY ButterfliesTyped
<1> HIDE DEF n
<1>6. first \in V
  BY <1>2, <1>4 DEF Vectors
<1>7. Len(a) = n /\ DOMAIN a = 1 .. n
  BY <1>1, <1>2
<1> HIDE DEF V
<1>8. F \in [1 .. bits -> [V -> V]]
  BY <1>5
<1>9. \A k \in 1 .. bits, v \in V : F[k][v] = Butterflies(v, 2^k, omega)
  OBVIOUS
<1> HIDE DEF F, first
<1>10. PICK t : Iterates(bits, V, first, F, t)
  BY <1>1, <1>6, <1>8, Recursion
<1>11. t \in [0 .. bits -> V] /\ t[0] = first
       /\ \A k \in 1 .. bits : t[k] = Butterflies(t[k - 1], 2^k, omega)
  <2>1. t \in [0 .. bits -> V] /\ t[0] = first /\ \A k \in 1 .. bits : t[k] = F[k][t[k - 1]]
    BY <1>10 DEF Iterates
  <2>2. ASSUME NEW k \in 1 .. bits PROVE t[k] = Butterflies(t[k - 1], 2^k, omega)
    <3>1. k - 1 \in 0 .. bits
      OBVIOUS
    <3>2. t[k - 1] \in V
      BY <2>1, <3>1
    <3> QED  BY <1>9, <2>1, <3>2
  <2> QED  BY <2>1, <2>2
<1>12. t = [k \in 0 .. bits |-> IF k = 0 THEN first ELSE Butterflies(t[k - 1], 2^k, omega)]
  BY <1>11
<1>13. FftInPlace(a, omega) =
         LET level[k \in 0 .. bits] == IF k = 0 THEN first ELSE Butterflies(level[k - 1], 2^k, omega)
         IN level[bits]
  BY <1>3, <1>7 DEF FftInPlace, first
<1>14. PICK s : /\ s = [k \in 0 .. bits |-> IF k = 0 THEN first ELSE Butterflies(s[k - 1], 2^k, omega)]
                /\ FftInPlace(a, omega) = s[bits]
  BY <1>12, <1>13
<1>15. s[0] = first /\ \A k \in 1 .. bits : s[k] = Butterflies(s[k - 1], 2^k, omega)
  <2>1. s[0] = first
    BY <1>1, <1>14
  <2>2. ASSUME NEW k \in 1 .. bits PROVE s[k] = Butterflies(s[k - 1], 2^k, omega)
    BY <1>14
  <2> QED  BY <2>1, <2>2
<1>16. \A k \in 0 .. bits : s[k] \in V
  <2>1. s[0] \in V
    BY <1>6, <1>15
  <2>2. \A k \in 1 .. bits : s[k - 1] \in V => s[k] \in V
    BY <1>5, <1>15
  <2> QED  BY <1>1, <2>1, <2>2, Stays
<1> QED  BY <1>1, <1>14, <1>16 DEF V, n

\* And its inverse (deep_ali.rs, ifft).
LEMMA IfftTyped ==
  ASSUME NEW bits \in 0 .. 30, NEW evals \in Vectors(Two(bits)), NEW omega \in Elements \ {0}
  PROVE  Ifft(evals, omega) \in Vectors(Two(bits))
<1> DEFINE n == Two(bits)
           b == FftInPlace(evals, Inv(omega))
           s == Inv(Len(b) % P)
<1>1. n \in Nat /\ n % P \in Elements \ {0}
  BY PowersOfTwo, TwoIsNoZero
<1>2. Inv(omega) \in Elements
  BY InverseIs
<1>3. b \in Vectors(n)
  BY <1>2, FftTyped
<1> HIDE DEF n, b
<1>4. b \in [1 .. n -> Elements] /\ Len(b) = n /\ DOMAIN b = 1 .. n
  <2>1. b \in [1 .. n -> Elements]
    BY <1>3 DEF Vectors
  <2> QED  BY <1>1, <2>1
<1>5. s \in Elements
  BY <1>1, <1>4, InverseIs
<1> HIDE DEF s
<1>6. Ifft(evals, omega) = [i \in 1 .. n |-> Times(b[i], s)]
  BY <1>4 DEF Ifft, b, s
<1>7. \A i \in 1 .. n : Times(b[i], s) \in Elements
  BY <1>4, <1>5, Typed
<1> QED  BY <1>6, <1>7 DEF Vectors, n

-----------------------------------------------------------------------------
\* Division of polynomials.

\* The quotient by a point, which is computed from the highest coefficient down.
LEMMA DivideTyped ==
  ASSUME NEW n \in Nat, n > 0, NEW coeffs \in Vectors(n), NEW z \in Elements
  PROVE  DivideByPoint(coeffs, z).quotient \in Vectors(n - 1)
<1> DEFINE F == [k \in 1 .. n |-> [v \in Elements |-> Plus(coeffs[(n - k) + 1], Times(z, v))]]
<1>1. coeffs \in [1 .. n -> Elements] /\ Len(coeffs) = n
  <2>1. coeffs \in [1 .. n -> Elements]
    BY DEF Vectors
  <2> QED  BY <2>1
<1>2. \A k \in 1 .. n, v \in Elements : Plus(coeffs[(n - k) + 1], Times(z, v)) \in Elements
  <2> TAKE k \in 1 .. n, v \in Elements
  <2>1. (n - k) + 1 \in 1 .. n
    OBVIOUS
  <2>2. coeffs[(n - k) + 1] \in Elements /\ Times(z, v) \in Elements
    BY <1>1, <2>1, Typed
  <2> QED  BY <2>2, Typed
<1>3. F \in [1 .. n -> [Elements -> Elements]]
  BY <1>2
<1>4. \A k \in 1 .. n, v \in Elements : F[k][v] = Plus(coeffs[(n - k) + 1], Times(z, v))
  OBVIOUS
<1> HIDE DEF F
<1>5. PICK t : Iterates(n, Elements, 0, F, t)
  BY <1>3, ZeroOne, Recursion
<1>6. t \in [0 .. n -> Elements] /\ t[0] = 0
      /\ \A k \in 1 .. n : t[k] = Plus(coeffs[(n - k) + 1], Times(z, t[k - 1]))
  <2>1. t \in [0 .. n -> Elements] /\ t[0] = 0 /\ \A k \in 1 .. n : t[k] = F[k][t[k - 1]]
    BY <1>5 DEF Iterates
  <2>2. ASSUME NEW k \in 1 .. n PROVE t[k] = Plus(coeffs[(n - k) + 1], Times(z, t[k - 1]))
    <3>1. k - 1 \in 0 .. n
      OBVIOUS
    <3>2. t[k - 1] \in Elements
      BY <2>1, <3>1
    <3> QED  BY <1>4, <2>1, <3>2
  <2> QED  BY <2>1, <2>2
<1> DEFINE u == [k \in 0 .. n |-> t[n - k]]
<1>7. u = [k \in 0 .. n |-> IF k = n THEN 0 ELSE Plus(coeffs[k + 1], Times(z, u[k + 1]))]
  <2>1. ASSUME NEW k \in 0 .. n
        PROVE  u[k] = IF k = n THEN 0 ELSE Plus(coeffs[k + 1], Times(z, u[k + 1]))
    <3>1. CASE k = n
      BY <1>6, <3>1
    <3>2. CASE k # n
      <4>1. n - k \in 1 .. n /\ k + 1 \in 0 .. n /\ n - (n - k) = k /\ n - (k + 1) = (n - k) - 1
        BY <3>2
      <4>2. u[k] = t[n - k] /\ u[k + 1] = t[(n - k) - 1]
        BY <4>1
      <4>3. t[n - k] = Plus(coeffs[(n - (n - k)) + 1], Times(z, t[(n - k) - 1]))
        BY <1>6, <4>1
      <4> QED  BY <3>2, <4>1, <4>2, <4>3
    <3> QED  BY <3>1, <3>2
  <2>2. u = [k \in 0 .. n |-> u[k]]
    OBVIOUS
  <2> HIDE DEF u
  <2> QED  BY <2>1, <2>2
<1> HIDE DEF u
<1>8. PICK q : /\ q = [k \in 0 .. n |-> IF k = n THEN 0 ELSE Plus(coeffs[k + 1], Times(z, q[k + 1]))]
               /\ DivideByPoint(coeffs, z) =
                    [quotient |-> [k \in 1 .. (n - 1) |-> q[k]], remainder |-> q[0]]
  BY <1>1, <1>7 DEF DivideByPoint
<1> DEFINE S == {k \in 0 .. n : q[n - k] \in Elements}
<1>9. 0 \in S
  <2>1. n - 0 = n /\ n \in 0 .. n /\ 0 \in 0 .. n
    OBVIOUS
  <2>2. q[n] = 0
    BY <1>8, <2>1
  <2> QED  BY <2>1, <2>2, ZeroOne
<1>10. \A k \in 1 .. n : k - 1 \in S => k \in S
  <2> TAKE k \in 1 .. n
  <2> HAVE k - 1 \in S
  <2>1. n - k \in 0 .. n /\ n - k # n /\ (n - k) + 1 \in 1 .. n /\ n - (k - 1) = (n - k) + 1 /\ k \in 0 .. n
    OBVIOUS
  <2>2. q[(n - k) + 1] \in Elements
    BY <2>1
  <2>3. q[n - k] = Plus(coeffs[(n - k) + 1], Times(z, q[(n - k) + 1]))
    BY <1>8, <2>1
  <2>4. coeffs[(n - k) + 1] \in Elements
    BY <1>1, <2>1
  <2> QED  BY <2>1, <2>2, <2>3, <2>4, Typed
<1> HIDE DEF S
<1>11. \A k \in 0 .. n : k \in S
  BY <1>9, <1>10, Up
<1>12. \A k \in 1 .. (n - 1) : q[k] \in Elements
  <2> TAKE k \in 1 .. (n - 1)
  <2>1. n - k \in 0 .. n /\ n - (n - k) = k
    OBVIOUS
  <2> QED  BY <1>11, <2>1 DEF S
<1> DEFINE v == [k \in 1 .. (n - 1) |-> q[k]]
<1>13. DivideByPoint(coeffs, z) = [quotient |-> v, remainder |-> q[0]]
  BY <1>8
<1>14. v \in [1 .. (n - 1) -> Elements]
  BY <1>12
<1> HIDE DEF v
<1>15. DivideByPoint(coeffs, z).quotient = v
  BY <1>13
<1> QED  BY <1>14, <1>15 DEF Vectors

\* Sums over the field.
LEMMA TotalTyped ==
  ASSUME NEW n \in Nat, NEW s \in Vectors(n)
  PROVE  Total(s) \in Elements
<1> DEFINE F == [k \in 1 .. n |-> [v \in Elements |-> Plus(v, s[k])]]
<1>1. s \in [1 .. n -> Elements] /\ Len(s) = n
  <2>1. s \in [1 .. n -> Elements]
    BY DEF Vectors
  <2> QED  BY <2>1
<1>2. \A k \in 1 .. n, v \in Elements : Plus(v, s[k]) \in Elements
  BY <1>1, Typed
<1>3. F \in [1 .. n -> [Elements -> Elements]]
  BY <1>2
<1>4. \A k \in 1 .. n, v \in Elements : F[k][v] = Plus(v, s[k])
  OBVIOUS
<1> HIDE DEF F
<1>5. PICK t : Iterates(n, Elements, 0, F, t)
  BY <1>3, ZeroOne, Recursion
<1>6. t \in [0 .. n -> Elements] /\ t[0] = 0 /\ \A k \in 1 .. n : t[k] = Plus(t[k - 1], s[k])
  <2>1. t \in [0 .. n -> Elements] /\ t[0] = 0 /\ \A k \in 1 .. n : t[k] = F[k][t[k - 1]]
    BY <1>5 DEF Iterates
  <2>2. ASSUME NEW k \in 1 .. n PROVE t[k] = Plus(t[k - 1], s[k])
    <3>1. k - 1 \in 0 .. n
      OBVIOUS
    <3>2. t[k - 1] \in Elements
      BY <2>1, <3>1
    <3> QED  BY <1>4, <2>1, <3>2
  <2> QED  BY <2>1, <2>2
<1>7. t = [k \in 0 .. n |-> IF k = 0 THEN 0 ELSE Plus(t[k - 1], s[k])]
  BY <1>6
<1>8. PICK u : /\ u = [k \in 0 .. n |-> IF k = 0 THEN 0 ELSE Plus(u[k - 1], s[k])]
               /\ Total(s) = u[n]
  BY <1>1, <1>7 DEF Total
<1>9. u[0] = 0 /\ \A k \in 1 .. n : u[k] = Plus(u[k - 1], s[k])
  <2>1. u[0] = 0
    BY <1>8
  <2>2. ASSUME NEW k \in 1 .. n PROVE u[k] = Plus(u[k - 1], s[k])
    BY <1>8
  <2> QED  BY <2>1, <2>2
<1>10. \A k \in 0 .. n : u[k] \in Elements
  <2>1. u[0] \in Elements
    BY <1>9, ZeroOne
  <2>2. \A k \in 1 .. n : u[k - 1] \in Elements => u[k] \in Elements
    BY <1>2, <1>9
  <2> QED  BY <2>1, <2>2, Stays
<1> QED  BY <1>8, <1>10

\* What is left of a vector without the zeros at its end.
LEMMA TrimTyped ==
  ASSUME NEW n \in Nat, NEW p \in Vectors(n)
  PROVE  /\ Trim(p) \in Seq(Elements) /\ Len(Trim(p)) <= n
         /\ Trim(p) # <<>> => Trim(p)[Len(Trim(p))] # 0
<1> DEFINE used == {k \in DOMAIN p : p[k] # 0}
           last == CHOOSE k \in used : \A j \in used : j <= k
<1>1. p \in [1 .. n -> Elements] /\ DOMAIN p = 1 .. n
  BY DEF Vectors
<1>2. used \subseteq 1 .. n
  BY <1>1
<1>3. Trim(p) = IF used = {} THEN <<>> ELSE SubSeq(p, 1, last)
  BY DEF Trim
<1>4. CASE used = {}
  BY <1>3, <1>4
<1>5. CASE used # {}
  <2> DEFINE T == {n - k : k \in used}
  <2>1. T \subseteq Nat /\ T # {}
    BY <1>2, <1>5
  <2> HIDE DEF used
  <2>2. PICK d \in T : \A e \in T : d <= e
    <3> HIDE DEF T
    <3> QED  BY <2>1, Least
  <2>3. PICK k \in used : d = n - k
    BY <2>2
  <2>4. \A j \in used : j <= k
    BY <1>2, <2>2, <2>3
  <2>5. last \in used /\ last \in 1 .. n
    BY <1>2, <2>4
  <2>6. p[last] # 0
    BY <2>5 DEF used
  <2> HIDE DEF last
  <2>7. SubSeq(p, 1, last) = [i \in 1 .. last |-> p[i]]
    <3>1. p \in Seq(Elements) /\ Len(p) = n
      BY <1>1, VectorIsSeq
    <3>2. SubSeq(p, 1, last) = [i \in 1 .. (1 + last - 1) |-> p[i + 1 - 1]]
      BY <2>5, <3>1
    <3>3. 1 + last - 1 = last /\ \A i \in 1 .. last : i + 1 - 1 = i
      BY <2>5
    <3> QED  BY <3>2, <3>3
  <2> DEFINE v == [i \in 1 .. last |-> p[i]]
  <2>8. v \in [1 .. last -> Elements] /\ last \in Nat /\ last <= n /\ v[last] = p[last]
    BY <1>1, <2>5
  <2>9. Trim(p) = v
    BY <1>3, <1>5, <2>7
  <2> HIDE DEF v
  <2>10. v \in Seq(Elements) /\ Len(v) = last
    BY <2>8, VectorIsSeq
  <2> QED  BY <2>6, <2>8, <2>9, <2>10
<1> QED  BY <1>4, <1>5

\* The size of the domain for a vector.
LEMMA SizeIs ==
  ASSUME NEW len \in Nat, len <= Two(30)
  PROVE  \E K \in 1 .. 30 : DomainSize(len) = Two(K) /\ len <= Two(K)
<1> DEFINE sizes == {2^k : k \in 1 .. 30}
           S == {m \in sizes : m >= len}
<1>1. sizes = {Two(k) : k \in 1 .. 30}
  BY DEF Two
<1>2. \A k \in 1 .. 30 : Two(k) \in Nat
  BY PowersOfTwo
<1> HIDE DEF sizes
<1>3. sizes \subseteq Nat /\ Two(30) \in sizes
  <2>1. 30 \in 1 .. 30
    OBVIOUS
  <2> QED  BY <1>1, <1>2, <2>1
<1>4. S \subseteq Nat /\ S # {}
  BY <1>3
<1>5. PICK n \in S : \A m \in S : n <= m
  <2> HIDE DEF S
  <2> QED  BY <1>4, Least
<1>6. n \in sizes /\ n >= len /\ \A m \in sizes : m >= len => n <= m
  BY <1>5
<1> DEFINE c == CHOOSE k \in sizes : k >= len /\ \A m \in sizes : m >= len => k <= m
<1>7. c \in sizes /\ c >= len
  BY <1>6
<1>8. DomainSize(len) = c
  BY DEF DomainSize, sizes
<1> HIDE DEF c
<1>9. PICK K \in 1 .. 30 : c = Two(K)
  BY <1>1, <1>7
<1>10. len <= Two(K)
  BY <1>2, <1>7, <1>9
<1> QED  BY <1>8, <1>9, <1>10

-----------------------------------------------------------------------------
\* Quotients.

\* The quotient of one query is a vector (deep_ali.rs, single_quotient).
LEMMA SingleQuotientTyped ==
  ASSUME NEW trace \in Seq(Seq(Elements)), NEW w \in Nat, \A i \in DOMAIN trace : Len(trace[i]) = w,
         GoodHeight(trace), NEW query, query.column \in Nat, query.column < w, query.point \in Elements
  PROVE  SingleQuotient(trace, query) \in Vectors(Len(trace) - 1)
<1> DEFINE n == Len(trace)
           c == query.column
           t == Column(trace, c)
           z == query.point
<1>1. n \in Nat /\ n >= 2 /\ IsPowerOfTwo(n)
  BY DEF GoodHeight
<1>2. PICK bits \in 0 .. 30 : n = Two(bits)
  BY <1>1, LogIs
<1>3. t = [r \in 1 .. n |-> trace[r][c + 1]]
  BY DEF Column
<1>4. \A r \in 1 .. n : trace[r][c + 1] \in Elements
  <2> TAKE r \in 1 .. n
  <2>1. trace[r] \in Seq(Elements) /\ Len(trace[r]) = w
    OBVIOUS
  <2> DEFINE row == trace[r]
  <2>2. row \in Seq(Elements) /\ c + 1 \in 1 .. Len(row)
    BY <2>1
  <2> HIDE DEF row
  <2>3. row[c + 1] \in Elements
    BY <2>2
  <2> QED  BY <2>3 DEF row
<1> HIDE DEF t, c, n
<1>5. t \in [1 .. n -> Elements]
  BY <1>3, <1>4
<1>6. Len(t) = n
  BY <1>1, <1>5
<1>7. PrimitiveRoot(n) \in Elements \ {0}
  BY <1>1, RootsTyped
<1> DEFINE p == InterpolateSubgroup(t)
<1>8. p \in Vectors(n)
  <2>1. t \in Vectors(Two(bits))
    BY <1>2, <1>5 DEF Vectors
  <2>2. Ifft(t, PrimitiveRoot(n)) \in Vectors(Two(bits))
    BY <1>7, <2>1, IfftTyped
  <2> QED  BY <1>2, <1>6, <2>2 DEF InterpolateSubgroup
<1>9. SingleQuotient(trace, query) = DivideByPoint(p, z).quotient
  BY DEF SingleQuotient, t, c
<1> HIDE DEF p, z
<1>10. DivideByPoint(p, z).quotient \in Vectors(n - 1)
  <2>1. n > 0 /\ z \in Elements
    BY <1>1 DEF z
  <2> QED  BY <1>1, <1>8, <2>1, DivideTyped
<1> QED  BY <1>9, <1>10 DEF n

\* A weighted sum of quotients is a vector.
LEMMA CombineTyped ==
  ASSUME NEW m \in Nat, m > 0, NEW w \in Nat, NEW quotients \in [1 .. m -> Vectors(w)],
         NEW ws \in [1 .. m -> Elements]
  PROVE  Combine(quotients, ws) \in Vectors(w)
<1>1. \A q \in 1 .. m : quotients[q] \in [1 .. w -> Elements]
  BY DEF Vectors
<1>2. DOMAIN quotients = 1 .. m /\ DOMAIN quotients[1] = 1 .. w
  <2>1. 1 \in 1 .. m
    OBVIOUS
  <2> QED  BY <1>1, <2>1
<1>3. Combine(quotients, ws) =
        [j \in 1 .. w |-> Total([q \in 1 .. m |-> Times(ws[q], quotients[q][j])])]
  BY <1>2 DEF Combine
<1>4. ASSUME NEW j \in 1 .. w
      PROVE  Total([q \in 1 .. m |-> Times(ws[q], quotients[q][j])]) \in Elements
  <2>1. \A q \in 1 .. m : Times(ws[q], quotients[q][j]) \in Elements
    BY <1>1, Typed
  <2> DEFINE s == [q \in 1 .. m |-> Times(ws[q], quotients[q][j])]
  <2>2. s \in Vectors(m)
    BY <2>1 DEF Vectors
  <2> HIDE DEF s
  <2>3. Total(s) \in Elements
    BY <2>2, TotalTyped
  <2> QED  BY <2>3 DEF s
<1> QED  BY <1>3, <1>4 DEF Vectors

\* What a quotient is, when there is one.
IsQuotient(p) ==
  /\ p \in Seq(Elements) /\ Len(p) <= Two(30)
  /\ p # <<>> => p[Len(p)] # 0

\* Whatever the request, what the quotient stage yields is a polynomial.
LEMMA QuotientTyped ==
  ASSUME NEW request \in DeepRequests, NEW ws \in [DOMAIN request.queries -> Elements]
  PROVE  IsQuotient(QuotientResult(request, ws).value)
<1> DEFINE qs == request.queries
           trace == request.trace
           m == Len(qs)
           quotients == [q \in DOMAIN qs |-> SingleQuotient(trace, qs[q])]
           R(a, b, c) == [status |-> a, value |-> b, seen |-> c]
<1>1. /\ trace \in Seq(Seq(Elements)) /\ request.num_columns \in Nat
      /\ \A i \in DOMAIN trace : Len(trace[i]) = request.num_columns
      /\ qs \in Seq([point : Elements, column : Nat, value : Elements])
  BY FriClientsAssumption
<1>2. m \in Nat /\ DOMAIN qs = 1 .. m
  BY <1>1
<1>3. \A q \in 1 .. m : qs[q] \in [point : Elements, column : Nat, value : Elements]
  <2> DEFINE V == [point : Elements, column : Nat, value : Elements]
             s == qs
  <2>1. s \in Seq(V) /\ m = Len(s)
    BY <1>1
  <2> HIDE DEF V, s
  <2>2. s \in [1 .. Len(s) -> V]
    BY <2>1, SeqIsVector
  <2>3. \A q \in 1 .. m : s[q] \in V
    BY <2>1, <2>2
  <2> QED  BY <2>3 DEF V, s
<1>e. IsQuotient(<<>>)
  BY PowersOfTwo DEF IsQuotient
<1>4. ASSUME qs # <<>>, GoodHeight(trace), \A q \in DOMAIN qs : ~OutOfBounds(request, q)
      PROVE  IsQuotient(Trim(Combine(quotients, ws)))
  <2> DEFINE n == Len(trace)
  <2>1. n \in Nat /\ n >= 2 /\ IsPowerOfTwo(n)
    BY <1>1, <1>4 DEF GoodHeight
  <2>2. PICK bits \in 0 .. 30 : n = Two(bits)
    BY <2>1, LogIs
  <2>3. n <= Two(30) /\ Two(30) \in Nat
    <3>1. 30 \in 0 .. 30 /\ Two(30) \in Nat
      BY PowersOfTwo
    <3>2. bits < 30 => Two(bits) < Two(30)
      BY <3>1, TwoIncreases
    <3>3. bits < 30 \/ bits = 30
      OBVIOUS
    <3> QED  BY <2>1, <2>2, <3>1, <3>2, <3>3
  <2>4. \A q \in 1 .. m : SingleQuotient(trace, qs[q]) \in Vectors(n - 1)
    <3> TAKE q \in 1 .. m
    <3>1. qs[q].point \in Elements /\ qs[q].column \in Nat
      BY <1>3
    <3>2. qs[q].column < request.num_columns
      <4> DEFINE a == qs[q].column
                 b == request.num_columns
      <4>1. ~OutOfBounds(request, q)
        BY <1>2, <1>4
      <4>2. ~(a >= b)
        BY <4>1 DEF OutOfBounds
      <4>3. a \in Nat /\ b \in Nat
        BY <1>1, <3>1
      <4> HIDE DEF a, b
      <4>4. a < b
        BY <4>2, <4>3
      <4> QED  BY <4>4 DEF a, b
    <3> QED  BY <1>1, <1>4, <3>1, <3>2, SingleQuotientTyped
  <2>5. m > 0
    BY <1>1, <1>4
  <2>6. quotients \in [1 .. m -> Vectors(n - 1)] /\ ws \in [1 .. m -> Elements]
    BY <1>2, <2>4
  <2> HIDE DEF quotients, n
  <2>7. n - 1 \in Nat
    BY <2>1
  <2>8. Combine(quotients, ws) \in Vectors(n - 1)
    BY <1>2, <2>5, <2>6, <2>7, CombineTyped
  <2> DEFINE p == Trim(Combine(quotients, ws))
  <2>9. /\ p \in Seq(Elements) /\ Len(p) <= n - 1
        /\ p # <<>> => p[Len(p)] # 0
    BY <2>7, <2>8, TrimTyped
  <2> HIDE DEF p
  <2>10. Len(p) \in Nat
    BY <2>9
  <2>11. Len(p) <= Two(30)
    BY <2>1, <2>3, <2>9, <2>10
  <2> QED  BY <2>9, <2>11 DEF IsQuotient, p
<1>5. \A a, b, c : R(a, b, c).value = b
  OBVIOUS
<1> DEFINE combined == Trim(Combine(quotients, ws))
           value == QuotientResult(request, ws).value
<1>6. QuotientResult(request, ws).value = <<>>
      \/ /\ qs # <<>> /\ GoodHeight(trace) /\ \A q \in DOMAIN qs : ~OutOfBounds(request, q)
         /\ QuotientResult(request, ws).value = combined
  BY <1>5 DEF QuotientResult
<1> QED  BY <1>4, <1>6, <1>e

\* What FRI commits to for a quotient.
LEMMA WiredTyped ==
  ASSUME IsQuotient(quotient), NEW n, n = DomainSize(Len(quotient))
  PROVE  \E K \in 0 .. 30 :
           /\ Fft(Padded(n), PrimitiveRoot(n)) \in Layer(K, 1)
           /\ TwoAdicDomain(n) \in Points(Two(K))
<1>1. Len(quotient) \in Nat /\ Len(quotient) <= Two(30)
  BY DEF IsQuotient
<1>2. PICK K \in 1 .. 30 : n = Two(K)
  BY <1>1, SizeIs
<1>3. K \in 0 .. 30 /\ n \in Nat /\ n > 0 /\ K - (1 - 1) = K
  BY <1>2, PowersOfTwo
<1>4. PrimitiveRoot(n) \in Elements \ {0} /\ TwoAdicDomain(n) \in Points(n)
  BY <1>3, RootsTyped
<1>5. Padded(n) \in Vectors(n)
  <2>1. \A k \in 1 .. n : Coeff(quotient, k - 1) \in Elements
    <3> TAKE k \in 1 .. n
    <3>1. (k - 1) + 1 = k /\ DOMAIN quotient = 1 .. Len(quotient)
      BY DEF IsQuotient
    <3>2. k \in 1 .. Len(quotient) => quotient[k] \in Elements
      BY DEF IsQuotient
    <3> QED  BY <3>1, <3>2, ZeroOne DEF Coeff
  <2> QED  BY <2>1 DEF Padded, Vectors
<1>6. FftInPlace(Padded(n), PrimitiveRoot(n)) \in Vectors(Two(K))
  <2> DEFINE v == Padded(n)
             g == PrimitiveRoot(n)
  <2>1. v \in Vectors(Two(K)) /\ g \in Elements
    BY <1>2, <1>4, <1>5
  <2> HIDE DEF v, g
  <2>2. FftInPlace(v, g) \in Vectors(Two(K))
    BY <1>3, <2>1, FftTyped
  <2> QED  BY <2>2 DEF v, g
<1>7. Fft(Padded(n), PrimitiveRoot(n)) \in Layer(K, 1)
  BY <1>3, <1>6 DEF Fft, Layer
<1> QED  BY <1>2, <1>3, <1>4, <1>7

-----------------------------------------------------------------------------
\* The clients.

\* What is given to FRI, by whomever.
ClientInv ==
  /\ FriInv
  /\ stage = "plain" => job \in FriJobs
  /\ stage \in {"requested", "setup"} => job \in Jobs
  /\ stage = "setup" => ~BadInput
  /\ step = "requested" => deep \in DeepRequests
  /\ step = "quotient" => deep.nqueries \in Nat /\ IsQuotient(quotient)

\* Requests and jobs are given, no run has begun.
LEMMA ClientInitially == Init => ClientInv
<1> SUFFICES ASSUME Init PROVE ClientInv
  OBVIOUS
<1>1. FriInv
  BY FriInitially DEF Init
<1>2. CASE \E j \in FriJobs : DeepInit(NoRequest, "idle") /\ TelemetryInit(j, "plain", NoGit)
  BY <1>1, <1>2 DEF DeepInit, TelemetryInit, ClientInv
<1>3. CASE \/ \E r \in DeepRequests : DeepInit(r, "requested") /\ TelemetryInit(NoJob, "idle", NoGit)
           \/ \E r \in BatchRequests : DeepInit(r, "batch") /\ TelemetryInit(NoJob, "idle", NoGit)
           \/ DeepInit(NoRequest, "accounting") /\ TelemetryInit(NoJob, "idle", NoGit)
  BY <1>1, <1>3 DEF DeepInit, TelemetryInit, ClientInv
<1>4. CASE \E j \in Jobs : \E repository \in j.repositories :
             DeepInit(NoRequest, "idle") /\ TelemetryInit(j, "requested", repository)
  BY <1>1, <1>4 DEF DeepInit, TelemetryInit, ClientInv
<1> QED  BY <1>2, <1>3, <1>4 DEF Init

\* Vectors as FRI takes them.
LEMMA InputTyped ==
  ASSUME NEW evals \in Seq(Elements), NEW dom \in Seq(Elements \ {0}),
         Len(dom) = Len(evals), IsPowerOfTwo(Len(evals))
  PROVE  \E K \in 0 .. 30 : evals \in Layer(K, 1) /\ dom \in Points(Two(K))
<1>1. PICK K \in 0 .. 30 : Len(evals) = Two(K)
  BY LogIs
<1>2. evals \in [1 .. Len(evals) -> Elements] /\ dom \in [1 .. Len(dom) -> Elements \ {0}]
  <2>1. evals \in [1 .. Len(evals) -> Elements]
    BY SeqIsVector
  <2> DEFINE V == Elements \ {0}
  <2>2. dom \in Seq(V)
    OBVIOUS
  <2> HIDE DEF V
  <2>3. dom \in [1 .. Len(dom) -> V]
    BY <2>2, SeqIsVector
  <2> QED  BY <2>1, <2>3 DEF V
<1>3. K - (1 - 1) = K
  OBVIOUS
<1> QED  BY <1>1, <1>2, <1>3 DEF Layer, Vectors, Points

\* A plain caller's vectors are typed by assumption.
LEMMA PlainKeeps == ClientInv /\ PlainFri => ClientInv'
<1> SUFFICES ASSUME ClientInv, PlainFri PROVE ClientInv'
  OBVIOUS
<1>1. stage = "plain" /\ UNCHANGED <<deepVars, telemetryVars>> /\ job \in FriJobs
  BY DEF PlainFri, ClientInv
<1>2. FriInv'
  <2>1. CASE FriCommit(job.evals, job.domain, job.queries, job.faulty)
    <3> DEFINE evals == job.evals
               dom == job.domain
               queries == job.queries
               f == job.faulty
    <3>1. /\ evals \in Seq(Elements) /\ dom \in Seq(Elements \ {0})
          /\ Len(dom) = Len(evals) /\ IsPowerOfTwo(Len(evals))
          /\ queries \in Nat /\ f \in BOOLEAN
      BY <1>1, FriClientsAssumption
    <3>2. FriCommit(evals, dom, queries, f) /\ FriInv
      BY <2>1 DEF ClientInv
    <3> HIDE DEF evals, dom, queries, f
    <3>3. PICK K \in 0 .. 30 : evals \in Layer(K, 1) /\ dom \in Points(Two(K))
      BY <3>1, InputTyped
    <3> QED  BY <3>1, <3>2, <3>3, CommitKeeps
  <2>2. CASE FriNext
    BY <2>2, FriKeeps DEF ClientInv
  <2> QED  BY <2>1, <2>2 DEF PlainFri
<1> QED  BY <1>1, <1>2 DEF ClientInv, deepVars, telemetryVars, runVars, BadInput

\* Only a wired quotient, a fold, a sample and the end of a proof touch FRI.
LEMMA DeepKeepsClient == ClientInv /\ DeepNext /\ UNCHANGED telemetryVars => ClientInv'
<1> SUFFICES ASSUME ClientInv, DeepNext, UNCHANGED telemetryVars PROVE ClientInv'
  OBVIOUS
<1>1. UNCHANGED <<stage, job>>
  BY DEF telemetryVars, runVars
<1>2. /\ stage' = "plain" => job' \in FriJobs
      /\ stage' \in {"requested", "setup"} => job' \in Jobs
      /\ stage' = "setup" => ~BadInput'
  BY <1>1 DEF ClientInv, BadInput
<1>3. ASSUME UNCHANGED friVars, step' \notin {"requested", "quotient"} \/ UNCHANGED <<deep, step, quotient>>
      PROVE  ClientInv'
  <2>1. FriInv'
    BY <1>3, FriStutters DEF ClientInv
  <2> QED  BY <1>2, <1>3, <2>1 DEF ClientInv
<1>4. CASE GateDenies
  BY <1>3, <1>4 DEF GateDenies
<1>5. CASE ComputeDeepQuotient
  <2>1. PICK ws \in [DOMAIN deep.queries -> Elements] :
          /\ step' = QuotientResult(deep, ws).status
          /\ quotient' = QuotientResult(deep, ws).value
    BY <1>5 DEF ComputeDeepQuotient
  <2>2. step = "requested" /\ UNCHANGED deep /\ UNCHANGED friVars
    BY <1>5 DEF ComputeDeepQuotient
  <2>3. deep \in DeepRequests
    BY <2>2 DEF ClientInv
  <2>4. deep.nqueries \in Nat
    BY <2>3, FriClientsAssumption
  <2>5. IsQuotient(QuotientResult(deep, ws).value)
    BY <2>3, QuotientTyped
  <2>6. IsQuotient(quotient')
    BY <2>1, <2>5
  <2>7. FriInv'
    BY <2>2, FriStutters DEF ClientInv
  <2>8. step' # "requested"
    BY <2>1, StatusIsNone
  <2> QED  BY <1>2, <2>2, <2>4, <2>6, <2>7, <2>8 DEF ClientInv, IsQuotient
<1>6. CASE QuotientAbsent
  BY <1>3, <1>6 DEF QuotientAbsent
<1>7. CASE WireFri
  <2>1. step = "quotient" /\ step' = "proving"
    BY <1>7 DEF WireFri
  <2>2. deep.nqueries \in Nat /\ IsQuotient(quotient) /\ FriInv
    BY <2>1 DEF ClientInv
  <2> DEFINE n == DomainSize(Len(quotient))
             evals == Fft(Padded(n), PrimitiveRoot(n))
             dom == TwoAdicDomain(n)
             queries == deep.nqueries
  <2>3. FriCommit(evals, dom, queries, FALSE)
    BY <1>7 DEF WireFri
  <2>4. PICK K \in 0 .. 30 : evals \in Layer(K, 1) /\ dom \in Points(Two(K))
    BY <2>2, WiredTyped
  <2> HIDE DEF evals, dom
  <2>5. FriInv'
    BY <2>2, <2>3, <2>4, CommitKeeps
  <2> QED  BY <1>2, <2>1, <2>5 DEF ClientInv
<1>8. CASE ProveFri
  <2>1. FriNext /\ UNCHANGED <<deep, step, quotient>>
    BY <1>8 DEF ProveFri, deepVars
  <2>2. FriInv'
    BY <2>1, FriKeeps DEF ClientInv
  <2> QED  BY <1>2, <2>1, <2>2 DEF ClientInv
<1>9. CASE VerifyFri
  <2>1. UNCHANGED friVars /\ step' \in {"accepted", "rejected"}
    BY <1>9 DEF VerifyFri
  <2> QED  BY <1>3, <2>1
<1>10. CASE NextBatch
  BY <1>3, <1>10 DEF NextBatch
<1>11. ASSUME NEW side \in Sides, NEW bits \in Bits, Consume(side, bits) PROVE ClientInv'
  BY <1>3, <1>11 DEF Consume
<1>12. ASSUME NEW side \in Sides, Reset(side) PROVE ClientInv'
  BY <1>3, <1>12 DEF Reset
<1>13. ASSUME NEW open \in BOOLEAN, VerifyDeepBatch(open) PROVE ClientInv'
  <2>1. UNCHANGED friVars
    BY <1>13 DEF VerifyDeepBatch
  <2> DEFINE bad == {l \in DOMAIN deep.links : LinkResult(deep, deep.links[l]) # "ok"}
             first == CHOOSE l \in bad : \A m \in bad : l <= m
  <2>2. step' \in {"depleted", "column", "batch_ok", "owsl_halt", LinkResult(deep, deep.links[first])}
    BY <1>13 DEF VerifyDeepBatch
  <2> HIDE DEF bad, first
  <2>3. LinkResult(deep, deep.links[first]) \in {"column", "point", "violated", "ok"}
    BY LinkStatus
  <2> QED  BY <1>3, <2>1, <2>2, <2>3
<1> QED  BY <1>4, <1>5, <1>6, <1>7, <1>8, <1>9, <1>10, <1>11, <1>12, <1>13 DEF DeepNext

\* The telemetry verifier checks a job before it commits to it.
LEMMA TelemetryKeepsClient == ClientInv /\ TelemetryNext /\ UNCHANGED deepVars => ClientInv'
<1> SUFFICES ASSUME ClientInv, TelemetryNext, UNCHANGED deepVars PROVE ClientInv'
  OBVIOUS
<1>1. /\ step' = "requested" => deep' \in DeepRequests
      /\ step' = "quotient" => deep'.nqueries \in Nat /\ IsQuotient(quotient)'
  BY DEF ClientInv, deepVars, IsQuotient
<1>2. ASSUME UNCHANGED friVars, UNCHANGED job,
             \/ stage' \notin {"plain", "requested", "setup"}
             \/ UNCHANGED stage
      PROVE  ClientInv'
  <2>1. FriInv'
    BY <1>2, FriStutters DEF ClientInv
  <2> QED  BY <1>1, <1>2, <2>1 DEF ClientInv, BadInput
<1>3. CASE Tick \/ GitCommit \/ PackRefs
  BY <1>2, <1>3 DEF Tick, GitCommit, PackRefs, runVars
<1>4. CASE Refuse \/ Serialize \/ BeginVerify \/ FinishVerify \/ EmitFails \/ Reread
  BY <1>2, <1>4 DEF Refuse, Serialize, BeginVerify, FinishVerify, EmitFails, Reread, runVars
<1>5. CASE ReadHead \/ ReadRef \/ ReadPackedRefs \/ EmitArtifact \/ Deliver
  BY <1>2, <1>5 DEF ReadHead, ReadRef, ReadPackedRefs, EmitArtifact, Deliver, runVars
<1>6. CASE BeginProving
  <2>1. stage = "requested" /\ ~BadInput /\ stage' = "setup" /\ UNCHANGED <<job, friVars>>
    BY <1>6 DEF BeginProving
  <2>2. FriInv'
    BY <2>1, FriStutters DEF ClientInv
  <2> QED  BY <1>1, <2>1, <2>2 DEF ClientInv, BadInput
<1>7. CASE BeginFri
  <2>1. stage = "setup" /\ stage' = "proving"
    BY <1>7 DEF BeginFri
  <2>2. job \in Jobs /\ ~BadInput /\ FriInv
    BY <2>1 DEF ClientInv
  <2> DEFINE evals == job.evals
             dom == job.domain
             queries == job.queries
  <2>3. FriCommit(evals, dom, queries, FALSE)
    BY <1>7 DEF BeginFri
  <2>4. /\ evals \in Seq(Elements) /\ dom \in Seq(Elements \ {0}) /\ queries \in Nat
        /\ Len(dom) = Len(evals) /\ IsPowerOfTwo(Len(evals))
    BY <2>2, FriClientsAssumption DEF BadInput
  <2> HIDE DEF evals, dom, queries
  <2>5. PICK K \in 0 .. 30 : evals \in Layer(K, 1) /\ dom \in Points(Two(K))
    BY <2>4, InputTyped
  <2>6. FriInv'
    BY <2>2, <2>3, <2>4, <2>5, CommitKeeps
  <2> QED  BY <1>1, <2>1, <2>6 DEF ClientInv
<1>8. CASE RunFri
  <2>1. FriNext /\ UNCHANGED <<stage, job>>
    BY <1>8 DEF RunFri, telemetryVars, runVars
  <2>2. FriInv'
    BY <2>1, FriKeeps DEF ClientInv
  <2> QED  BY <1>1, <2>1, <2>2 DEF ClientInv, BadInput
<1> QED  BY <1>3, <1>4, <1>5, <1>6, <1>7, <1>8 DEF TelemetryNext

\* Every step keeps the clients' invariant.
LEMMA ClientStep == ClientInv /\ [Next]_vars => ClientInv'
<1> SUFFICES ASSUME ClientInv, [Next]_vars PROVE ClientInv'
  OBVIOUS
<1>1. ASSUME UNCHANGED <<friVars, deepVars, telemetryVars>> PROVE ClientInv'
  <2>1. FriInv'
    BY <1>1, FriStutters DEF ClientInv
  <2> QED  BY <1>1, <2>1 DEF ClientInv, BadInput, IsQuotient, deepVars, telemetryVars, runVars
<1> QED  BY <1>1, PlainKeeps, DeepKeepsClient, TelemetryKeepsClient DEF Next, vars

\* Whatever reaches FRI is a typed vector over invertible points.
LEMMA ClientsGiveTypedInput == Spec => []ClientInv
BY ClientInitially, ClientStep, PTL DEF Spec

\* The invariant gives the verdicts.
LEMMA ClientDecides == ClientInv => VerdictsDecide
BY InvDecides DEF ClientInv

\* FRI's verdicts are right, for every prime field, trace, quotient and job of the
\* clients: commitments and recommitments are accepted exactly when every layer
\* is the fold of the one before it, the queries exactly when the opened places
\* of it are, and the prover and its verifiers draw alike (fri_protocol.rs,
\* fri_query.rs).
THEOREM VerdictsAreRight == Spec => []VerdictsDecide
BY ClientsGiveTypedInput, ClientDecides, PTL

-----------------------------------------------------------------------------
\* A telemetry run.

Proving == {"proving", "serialized", "verifying", "verified", "head", "loose", "ready", "emitted"}
Proven == Proving \ {"proving"}
Judged == Proven \ {"serialized", "verifying"}

\* The timers' stacks and phases, whenever the clock has moved.
Timed ==
  /\ clock \in Nat
  /\ stage = "setup" =>
       \E a \in 0 .. clock :
         /\ timer.active = <<[name |-> "proving_total", at |-> a],
                             [name |-> "transcript_generation", at |-> a]>>
         /\ DOMAIN timer.phases = {}
  /\ stage = "proving" =>
       \E a \in 0 .. clock : \E c \in a .. clock :
         /\ timer.active = <<[name |-> "proving_total", at |-> a], [name |-> "fri", at |-> c]>>
         /\ DOMAIN timer.phases = {"transcript_generation"}
         /\ timer.phases["transcript_generation"] = c - a
  /\ stage \in Proven =>
       /\ DOMAIN timer.phases = {"transcript_generation", "fri", "proving_total"}
       /\ timer.phases["transcript_generation"] \in Nat /\ timer.phases["fri"] \in Nat
       /\ timer.phases["proving_total"] \in 0 .. clock
       /\ timer.phases["transcript_generation"] + timer.phases["fri"] <= timer.phases["proving_total"]
  /\ stage = "verifying" =>
       \E e \in timer.phases["proving_total"] .. clock :
         /\ vtimer.active = <<[name |-> "verification", at |-> e]>>
         /\ DOMAIN vtimer.phases = {}
  /\ stage \in Judged =>
       /\ DOMAIN vtimer.phases = {"verification"}
       /\ vtimer.phases["verification"] \in Nat
       /\ timer.phases["proving_total"] + vtimer.phases["verification"] <= clock

\* A telemetry run has FRI for itself and proves what it was called with.
RunInv ==
  /\ stage # "idle" => step = "idle"
  /\ stage \in Proving => phase # "idle" /\ ~faulty /\ layers[1] = job.evals
  /\ stage \in Proven => phase = "proved"
  /\ stage \in Judged => verdict \in BOOLEAN /\ (verdict <=> Len(job.evals) >= 2)
  /\ Timed
  /\ artifact.status # "none" => stage = "emitted"
  /\ ArtifactTellsRun

\* A layer has two values or more exactly if there is something to fold.
LEMMA SizeTells ==
  ASSUME FriInv, phase # "idle"
  PROVE  \E K \in 0 .. 30 :
           /\ Len(layers[1]) = Two(K) /\ (Len(layers[1]) >= 2 <=> K > 0)
           /\ phase = "proved" => Len(layers) = K + 1 /\ Len(proof.roots) = K + 1
<1>1. PICK K \in 0 .. 30 : FriTyped(K)
  BY DEF FriInv
<1>2. 1 \in 1 .. (K + 1) /\ 1 \in 1 .. Len(layers) /\ K - (1 - 1) = K
  BY <1>1 DEF FriTyped
<1>3. layers[1] \in Layer(K, 1)
  BY <1>1, <1>2 DEF FriTyped
<1>4. Len(layers[1]) = Two(K)
  BY <1>2, <1>3, LayerIsSeq
<1>5. Two(K) >= 2 <=> K > 0
  <2>1. CASE K = 0
    BY <2>1, PowersOfTwo
  <2>2. CASE K > 0
    <3>1. K - 1 \in 0 .. 30 /\ K \in 0 .. 30
      BY <2>2
    <3>2. Two(K) = 2 * Two(K - 1) /\ Two(K - 1) \in Nat /\ Two(K - 1) > 0
      BY <2>2, <3>1, PowersOfTwo
    <3> QED  BY <2>2, <3>2
  <2> QED  BY <2>1, <2>2
<1>6. ASSUME phase = "proved" PROVE Len(layers) = K + 1 /\ Len(proof.roots) = K + 1
  <2>1. Len(layers) = K + 1 /\ layers \in Seq(Seq(Elements))
    BY <1>1, <1>6 DEF FriTyped
  <2>2. DOMAIN layers = 1 .. (K + 1) /\ K + 1 \in Nat
    BY <2>1
  <2> DEFINE V == {RootOf(layers[r]) : r \in 1 .. (K + 1)}
  <2>3. proof.roots = [r \in DOMAIN layers |-> RootOf(layers[r])]
    BY <1>6 DEF FriInv, FriProof
  <2>4. proof.roots \in [1 .. (K + 1) -> V]
    BY <2>2, <2>3
  <2> HIDE DEF V
  <2>5. Len(proof.roots) = K + 1
    BY <2>2, <2>4, VectorIsSeq
  <2> QED  BY <2>1, <2>5
<1> QED  BY <1>4, <1>5, <1>6

\* An honest proof is accepted if anything was folded.
LEMMA HonestIsAccepted ==
  ASSUME FriInv, phase = "proved", ~faulty, NEW v, Verified(v)
  PROVE  v \in BOOLEAN /\ (v <=> Len(layers[1]) >= 2)
<1>1. PICK K \in 0 .. 30, t \in [Nat -> Seq(Int)], raw \in [Nat -> Elements] :
        FriTyped(K) /\ FriHonest(K) /\ FriLog(K, t, raw)
  BY Zenon DEF FriInv
<1>2. PICK draws \in Draws(proof.roots, nqueries) : v = FriVerify(domain, proof, nqueries, draws)
  BY Zenon DEF Verified
<1>3. v <=> /\ betas # <<>>
            /\ \A q \in DOMAIN indices : PathHolds(indices[q])
            /\ indices # <<>> => proof.final_value = Current[1]
  <2>1. FriVerify(domain, proof, nqueries, draws)
          <=> /\ betas # <<>>
              /\ \A q \in DOMAIN indices : PathHolds(indices[q])
              /\ indices # <<>> => proof.final_value = Current[1]
    BY <1>1, <1>2, QueriesTell, Zenon
  <2> QED  BY <1>2, <2>1, Zenon
<1>4. v \in BOOLEAN
  BY <1>2, Zenon DEF FriVerify
<1>5. Len(layers) = K + 1 /\ betas \in Seq(Elements) /\ Len(betas) = K
  BY <1>1 DEF FriTyped
<1>6. betas # <<>> <=> K > 0
  <2>1. betas # <<>> <=> Len(betas) > 0
    BY <1>5
  <2> QED  BY <1>5, <2>1
<1>7. \A q \in DOMAIN indices : PathHolds(indices[q])
  <2> SUFFICES ASSUME NEW q \in DOMAIN indices PROVE PathHolds(indices[q])
    OBVIOUS
  <2>1. Folds(K, indices[q])
    BY <1>1, <1>5 DEF FriHonest, Folds
  <2> QED  BY <1>1, <1>5, <2>1, PathIs
<1>8. proof.final_value = Current[1]
  BY <1>1 DEF FriHonest
<1>9. Len(layers[1]) >= 2 <=> K > 0
  <2>1. PICK L \in 0 .. 30 : (Len(layers[1]) >= 2 <=> L > 0) /\ Len(layers) = L + 1
    BY SizeTells
  <2>2. L = K
    BY <1>5, <2>1
  <2> QED  BY <2>1, <2>2
<1> QED  BY <1>3, <1>4, <1>6, <1>7, <1>8, <1>9

\* A step of FRI keeps the first layer and the prover's honesty.
LEMMA FirstLayerStays ==
  ASSUME FriInv, phase # "idle", FriNext
  PROVE  phase' # "idle" /\ faulty' = faulty /\ layers'[1] = layers[1]
<1>1. CASE FriFold
  <2>1. PICK next : layers' = Append(layers, next)
    BY <1>1 DEF FriFold
  <2>2. layers \in Seq(Seq(Elements)) /\ Len(layers) \in Nat /\ Len(layers) >= 1
    <3>1. PICK K \in 0 .. 30 : FriTyped(K)
      BY DEF FriInv
    <3> QED  BY <3>1 DEF FriTyped
  <2>3. layers'[1] = layers[1]
    BY <2>1, <2>2
  <2> QED  BY <1>1, <2>3 DEF FriFold
<1>2. CASE FriQuery
  BY <1>2 DEF FriQuery
<1>3. CASE FriFinish
  BY <1>3 DEF FriFinish
<1> QED  BY <1>1, <1>2, <1>3 DEF FriNext

-----------------------------------------------------------------------------
\* Its timers.

\* The stack of a timer with two phases running.
LEMMA TwoRun ==
  ASSUME NEW x, NEW y
  PROVE  /\ Append(<<x>>, y) = <<x, y>> /\ Append(<<>>, x) = <<x>>
         /\ Len(<<x, y>>) = 2 /\ <<x, y>>[2] = y /\ <<x, y>>[1] = x
         /\ Len(<<x>>) = 1 /\ <<x>>[1] = x
         /\ SubSeq(<<x, y>>, 1, 1) = <<x>> /\ SubSeq(<<x>>, 1, 0) = <<>>
<1>1. Append(<<x>>, y) = <<x, y>> /\ Append(<<>>, x) = <<x>>
  <2> DEFINE s == Append(<<x>>, y)
             r == Append(<<>>, x)
  <2>1. <<x>> \in Seq({x, y}) /\ Len(<<x>>) = 1 /\ <<x>>[1] = x /\ y \in {x, y}
    OBVIOUS
  <2>2. s \in Seq({x, y}) /\ Len(s) = 2 /\ s[1] = x /\ s[2] = y
    BY <2>1
  <2>3. <<>> \in Seq({x}) /\ Len(<<>>) = 0
    OBVIOUS
  <2>4. r \in Seq({x}) /\ Len(r) = 1 /\ r[1] = x
    BY <2>3
  <2> HIDE DEF s, r
  <2>5. s = <<x, y>>
    BY <2>2
  <2>6. r = <<x>>
    BY <2>4
  <2> QED  BY <2>5, <2>6 DEF s, r
<1>2. Len(<<x, y>>) = 2 /\ <<x, y>>[2] = y /\ <<x, y>>[1] = x /\ Len(<<x>>) = 1 /\ <<x>>[1] = x
  OBVIOUS
<1>3. SubSeq(<<x, y>>, 1, 1) = <<x>>
  <2> DEFINE s == SubSeq(<<x, y>>, 1, 1)
  <2>1. <<x, y>> \in Seq({x, y}) /\ Len(<<x, y>>) = 2
    OBVIOUS
  <2>2. s \in Seq({x, y}) /\ Len(s) = 1 /\ s[1] = x
    BY <2>1, <1>2
  <2> HIDE DEF s
  <2>3. s = <<x>>
    BY <2>2
  <2> QED  BY <2>3 DEF s
<1>4. SubSeq(<<x>>, 1, 0) = <<>>
  <2> DEFINE s == SubSeq(<<x>>, 1, 0)
  <2>1. <<x>> \in Seq({x}) /\ Len(<<x>>) = 1
    OBVIOUS
  <2>2. s \in Seq({x}) /\ Len(s) = 0
    BY <2>1
  <2> HIDE DEF s
  <2>3. s = <<>>
    BY <2>2
  <2> QED  BY <2>3 DEF s
<1> QED  BY <1>1, <1>2, <1>3, <1>4

\* A stopped phase has taken the time since it started.
LEMMA StopLast ==
  ASSUME NEW t, NEW x, NEW y, t.active = <<x, y>>
  PROVE  /\ Stopped(t).active = <<x>>
         /\ Stopped(t).phases = Record(t.phases, y.name, clock - y.at)
<1>1. Len(t.active) = 2 /\ t.active[2] = y /\ Len(t.active) - 1 = 1 /\ SubSeq(t.active, 1, 1) = <<x>>
  <2>1. Len(<<x, y>>) = 2 /\ <<x, y>>[2] = y /\ SubSeq(<<x, y>>, 1, 1) = <<x>>
    BY TwoRun
  <2> QED  BY <2>1
<1> QED  BY <1>1 DEF Stopped

\* So does the only one there is.
LEMMA StopOnly ==
  ASSUME NEW t, NEW x, t.active = <<x>>
  PROVE  /\ Stopped(t).active = <<>>
         /\ Stopped(t).phases = Record(t.phases, x.name, clock - x.at)
<1>1. Len(t.active) = 1 /\ t.active[1] = x /\ Len(t.active) - 1 = 0 /\ SubSeq(t.active, 1, 0) = <<>>
  BY TwoRun
<1> QED  BY <1>1 DEF Stopped

\* The timers when the prover begins, at the commitment, when it is done,
\* and around the verifier.
LEMMA TimersStart ==
  ASSUME clock \in Nat, BeginProving
  PROVE  Timed'
<1>1. stage' = "setup" /\ timer' = Started(Started(NewTimer, "proving_total"), "transcript_generation")
      /\ clock' = clock
  BY DEF BeginProving
<1> DEFINE x == [name |-> "proving_total", at |-> clock]
           y == [name |-> "transcript_generation", at |-> clock]
<1>2. Started(NewTimer, "proving_total") = [active |-> <<x>>, phases |-> <<>>]
  <2>1. Append(<<>>, x) = <<x>>
    BY TwoRun
  <2> QED  BY <2>1 DEF Started, NewTimer
<1>3. timer' = [active |-> <<x, y>>, phases |-> <<>>]
  <2>1. Append(<<x>>, y) = <<x, y>>
    BY TwoRun
  <2> QED  BY <1>1, <1>2, <2>1 DEF Started
<1>4. clock \in 0 .. clock' /\ timer'.active = <<x, y>> /\ DOMAIN timer'.phases = {}
  BY <1>1, <1>3
<1> QED  BY <1>1, <1>4 DEF Timed, Proven, Judged, Proving

\* The commitment phase starts when the transcript is done.
LEMMA TimersCommit ==
  ASSUME Timed, BeginFri
  PROVE  Timed'
<1>1. stage = "setup" /\ stage' = "proving" /\ timer' = Started(Stopped(timer), "fri") /\ clock' = clock
      /\ clock \in Nat
  BY DEF BeginFri, Timed
<1>2. PICK a \in 0 .. clock :
         /\ timer.active = <<[name |-> "proving_total", at |-> a],
                             [name |-> "transcript_generation", at |-> a]>>
         /\ DOMAIN timer.phases = {}
  BY <1>1 DEF Timed
<1> DEFINE x == [name |-> "proving_total", at |-> a]
           y == [name |-> "transcript_generation", at |-> a]
           z == [name |-> "fri", at |-> clock]
<1>3. /\ Stopped(timer).active = <<x>>
      /\ Stopped(timer).phases = Record(timer.phases, "transcript_generation", clock - a)
  <2>1. timer.active = <<x, y>> /\ y.name = "transcript_generation" /\ y.at = a
    BY <1>2
  <2> HIDE DEF x, y
  <2> QED  BY <2>1, StopLast
<1>4. timer'.active = <<x, z>> /\ timer'.phases = Stopped(timer).phases
  <2>1. Stopped(timer) = [active |-> Stopped(timer).active, phases |-> Stopped(timer).phases]
    BY DEF Stopped
  <2>2. Append(<<x>>, z) = <<x, z>>
    BY TwoRun
  <2>3. timer' = [Stopped(timer) EXCEPT !.active = Append(@, z)]
    BY <1>1 DEF Started
  <2> HIDE DEF x, z
  <2>4. timer' = [active |-> Append(Stopped(timer).active, z), phases |-> Stopped(timer).phases]
    BY <2>1, <2>3
  <2> QED  BY <1>3, <2>2, <2>4
<1>5. /\ DOMAIN timer'.phases = {"transcript_generation"}
      /\ timer'.phases["transcript_generation"] = clock - a
  <2>1. DOMAIN timer.phases \cup {"transcript_generation"} = {"transcript_generation"}
    BY <1>2
  <2>2. PICK ms, f : ms = clock - a /\ f = timer.phases
    OBVIOUS
  <2>3. /\ DOMAIN Record(f, "transcript_generation", ms) = DOMAIN f \cup {"transcript_generation"}
        /\ Record(f, "transcript_generation", ms)["transcript_generation"] = ms
    BY DEF Record
  <2>4. timer'.phases = Record(f, "transcript_generation", ms)
    BY <1>3, <1>4, <2>2
  <2> QED  BY <2>1, <2>2, <2>3, <2>4
<1>6. a \in 0 .. clock' /\ clock \in a .. clock' /\ clock' \in Nat
  BY <1>1
<1>7. \E aa \in 0 .. clock' : \E c \in aa .. clock' :
         /\ timer'.active = <<[name |-> "proving_total", at |-> aa], [name |-> "fri", at |-> c]>>
         /\ DOMAIN timer'.phases = {"transcript_generation"}
         /\ timer'.phases["transcript_generation"] = c - aa
  BY <1>4, <1>5, <1>6
<1> QED  BY <1>1, <1>6, <1>7 DEF Timed, Proven, Judged, Proving

\* The prover's phases are stopped inside the whole.
LEMMA TimersProve ==
  ASSUME Timed, Serialize
  PROVE  Timed'
<1>1. stage = "proving" /\ stage' = "serialized" /\ timer' = Stopped(Stopped(timer)) /\ clock' = clock
      /\ clock \in Nat
  BY DEF Serialize, Timed
<1>2. PICK a \in 0 .. clock, c \in 0 .. clock :
         /\ a <= c
         /\ timer.active = <<[name |-> "proving_total", at |-> a], [name |-> "fri", at |-> c]>>
         /\ DOMAIN timer.phases = {"transcript_generation"}
         /\ timer.phases["transcript_generation"] = c - a
  BY <1>1 DEF Timed
<1> DEFINE x == [name |-> "proving_total", at |-> a]
           y == [name |-> "fri", at |-> c]
<1>3. /\ Stopped(timer).active = <<x>>
      /\ Stopped(timer).phases = Record(timer.phases, "fri", clock - c)
  <2>1. timer.active = <<x, y>> /\ y.name = "fri" /\ y.at = c
    BY <1>2
  <2> HIDE DEF x, y
  <2> QED  BY <2>1, StopLast
<1>4. timer'.phases = Record(Stopped(timer).phases, "proving_total", clock - a)
  <2>1. x.name = "proving_total" /\ x.at = a
    OBVIOUS
  <2> HIDE DEF x
  <2> QED  BY <1>1, <1>3, <2>1, StopOnly
<1>5. /\ DOMAIN Stopped(timer).phases = {"transcript_generation", "fri"}
      /\ Stopped(timer).phases["transcript_generation"] = c - a
      /\ Stopped(timer).phases["fri"] = clock - c
  <2>1. "transcript_generation" # "fri" /\ "transcript_generation" \in DOMAIN timer.phases
    BY <1>2
  <2>2. DOMAIN timer.phases \cup {"fri"} = {"transcript_generation", "fri"}
    BY <1>2
  <2>3. /\ DOMAIN Stopped(timer).phases = DOMAIN timer.phases \cup {"fri"}
        /\ Stopped(timer).phases["fri"] = clock - c
        /\ Stopped(timer).phases["transcript_generation"] = timer.phases["transcript_generation"]
    <3>1. PICK ms, f : ms = clock - c /\ f = timer.phases
      OBVIOUS
    <3>2. /\ DOMAIN Record(f, "fri", ms) = DOMAIN f \cup {"fri"}
          /\ Record(f, "fri", ms)["fri"] = ms
          /\ Record(f, "fri", ms)["transcript_generation"] = f["transcript_generation"]
      BY <2>1, <3>1 DEF Record
    <3> QED  BY <1>3, <3>1, <3>2
  <2> QED  BY <1>2, <2>2, <2>3
<1>6. /\ DOMAIN timer'.phases = {"transcript_generation", "fri", "proving_total"}
      /\ timer'.phases["transcript_generation"] = c - a
      /\ timer'.phases["fri"] = clock - c
      /\ timer'.phases["proving_total"] = clock - a
  <2> DEFINE f == Stopped(timer).phases
  <2>1. /\ "transcript_generation" # "proving_total" /\ "fri" # "proving_total"
        /\ "transcript_generation" \in DOMAIN f /\ "fri" \in DOMAIN f
    BY <1>5
  <2>2. DOMAIN f \cup {"proving_total"} = {"transcript_generation", "fri", "proving_total"}
    BY <1>5
  <2>3. /\ DOMAIN timer'.phases = DOMAIN f \cup {"proving_total"}
        /\ timer'.phases["proving_total"] = clock - a
        /\ timer'.phases["transcript_generation"] = f["transcript_generation"]
        /\ timer'.phases["fri"] = f["fri"]
    <3> HIDE DEF f
    <3>1. PICK ms, g : ms = clock - a /\ g = f
      OBVIOUS
    <3>2. /\ DOMAIN Record(g, "proving_total", ms) = DOMAIN g \cup {"proving_total"}
          /\ Record(g, "proving_total", ms)["proving_total"] = ms
          /\ Record(g, "proving_total", ms)["transcript_generation"] = g["transcript_generation"]
          /\ Record(g, "proving_total", ms)["fri"] = g["fri"]
      BY <2>1, <3>1 DEF Record
    <3>3. timer'.phases = Record(g, "proving_total", ms)
      BY <1>4, <3>1 DEF f
    <3> QED  BY <3>1, <3>2, <3>3
  <2> QED  BY <1>5, <2>2, <2>3
<1>7. c - a \in Nat /\ clock - c \in Nat /\ clock - a \in 0 .. clock' /\ (c - a) + (clock - c) <= clock - a
      /\ clock' \in Nat
  BY <1>1, <1>2
<1> QED  BY <1>1, <1>6, <1>7 DEF Timed, Proven, Judged, Proving

\* The verifier has a timer of its own.
LEMMA TimersVerify ==
  ASSUME Timed, BeginVerify
  PROVE  Timed'
<1>1. stage = "serialized" /\ stage' = "verifying" /\ vtimer' = Started(NewTimer, "verification")
      /\ UNCHANGED <<clock, timer>> /\ clock \in Nat
  BY DEF BeginVerify, Timed
<1> DEFINE x == [name |-> "verification", at |-> clock]
<1>2. vtimer' = [active |-> <<x>>, phases |-> <<>>]
  <2>1. Append(<<>>, x) = <<x>>
    BY TwoRun
  <2> QED  BY <1>1, <2>1 DEF Started, NewTimer
<1>3. vtimer'.active = <<x>> /\ DOMAIN vtimer'.phases = {}
  BY <1>2
<1>4. /\ DOMAIN timer.phases = {"transcript_generation", "fri", "proving_total"}
      /\ timer.phases["transcript_generation"] \in Nat /\ timer.phases["fri"] \in Nat
      /\ timer.phases["proving_total"] \in 0 .. clock
      /\ timer.phases["transcript_generation"] + timer.phases["fri"] <= timer.phases["proving_total"]
  BY <1>1 DEF Timed, Proven, Proving
<1>5. clock' \in timer'.phases["proving_total"] .. clock'
  BY <1>1, <1>4
<1> QED  BY <1>1, <1>3, <1>4, <1>5 DEF Timed, Judged, Proven, Proving

\* Its phase lies after the prover's.
LEMMA TimersJudge ==
  ASSUME Timed, FinishVerify
  PROVE  Timed'
<1>1. stage = "verifying" /\ stage' = "verified" /\ vtimer' = Stopped(vtimer)
      /\ UNCHANGED <<clock, timer>> /\ clock \in Nat
  BY DEF FinishVerify, Timed
<1>2. /\ DOMAIN timer.phases = {"transcript_generation", "fri", "proving_total"}
      /\ timer.phases["transcript_generation"] \in Nat /\ timer.phases["fri"] \in Nat
      /\ timer.phases["proving_total"] \in 0 .. clock
      /\ timer.phases["transcript_generation"] + timer.phases["fri"] <= timer.phases["proving_total"]
  BY <1>1 DEF Timed, Proven, Proving
<1>3. PICK e \in timer.phases["proving_total"] .. clock :
         /\ vtimer.active = <<[name |-> "verification", at |-> e]>>
         /\ DOMAIN vtimer.phases = {}
  BY <1>1 DEF Timed
<1> DEFINE x == [name |-> "verification", at |-> e]
<1>4. vtimer'.phases = Record(vtimer.phases, "verification", clock - e)
  <2>1. vtimer.active = <<x>> /\ x.name = "verification" /\ x.at = e
    BY <1>3
  <2> HIDE DEF x
  <2> QED  BY <1>1, <2>1, StopOnly
<1>5. DOMAIN vtimer'.phases = {"verification"} /\ vtimer'.phases["verification"] = clock - e
  <2>1. DOMAIN vtimer.phases \cup {"verification"} = {"verification"}
    BY <1>3
  <2>2. PICK ms, f : ms = clock - e /\ f = vtimer.phases
    OBVIOUS
  <2>3. /\ DOMAIN Record(f, "verification", ms) = DOMAIN f \cup {"verification"}
        /\ Record(f, "verification", ms)["verification"] = ms
    BY DEF Record
  <2>4. vtimer'.phases = Record(f, "verification", ms)
    BY <1>4, <2>2
  <2> QED  BY <2>1, <2>2, <2>3, <2>4
<1>6. clock - e \in Nat /\ timer.phases["proving_total"] + (clock - e) <= clock
  BY <1>1, <1>2, <1>3
<1> QED  BY <1>1, <1>2, <1>5, <1>6 DEF Timed, Judged, Proven, Proving

\* Time passes for whatever runs.
LEMMA TimersTick ==
  ASSUME Timed, Tick
  PROVE  Timed'
<1>1. clock' = clock + 1 /\ UNCHANGED <<stage, timer, vtimer>> /\ clock \in Nat /\ clock' \in Nat
      /\ stage \notin Judged
  BY DEF Tick, runVars, Timed, Judged, Proven, Proving
<1>2. \A a \in 0 .. clock : a \in 0 .. clock' /\ \A c \in a .. clock : c \in a .. clock'
  BY <1>1
<1>3. ASSUME stage = "verifying" PROVE timer.phases["proving_total"] \in 0 .. clock
  BY <1>3 DEF Timed, Proven, Proving
<1>4. ASSUME stage = "verifying"
      PROVE  \A e \in timer.phases["proving_total"] .. clock : e \in timer.phases["proving_total"] .. clock'
  BY <1>1, <1>2, <1>3, <1>4
<1> QED  BY <1>1, <1>2, <1>4 DEF Timed

\* Nothing else that happens to a run is timed.
LEMMA TimersStay ==
  ASSUME Timed, UNCHANGED <<clock, timer, vtimer>>,
         \/ stage' = stage
         \/ stage \in Judged /\ stage' \in Judged
         \/ stage' \notin Proving \cup {"setup"}
  PROVE  Timed'
<1>1. CASE stage' = stage
  BY <1>1 DEF Timed
<1>2. CASE stage \in Judged /\ stage' \in Judged
  BY <1>2 DEF Timed, Judged, Proven, Proving
<1>3. CASE stage' \notin Proving \cup {"setup"}
  BY <1>3 DEF Timed, Judged, Proven, Proving
<1> QED  BY <1>1, <1>2, <1>3

-----------------------------------------------------------------------------
\* Its artifact.

\* What the two timers have measured.
LEMMA MergeIs ==
  ASSUME NEW t, NEW u, NEW v,
         DOMAIN t.phases = {"transcript_generation", "fri", "proving_total"},
         DOMAIN u.phases = {"verification"}, v = Merge(t, u)
  PROVE  /\ GetOrZero(v, "proving_total") = t.phases["proving_total"]
         /\ GetOrZero(v, "transcript_generation") = t.phases["transcript_generation"]
         /\ Get(v, "fri") = t.phases["fri"]
         /\ GetOrZero(v, "verification") = u.phases["verification"]
         /\ GetOrZero(v, "sumcheck") = 0
<1>1. v.phases = [p \in {"transcript_generation", "fri", "proving_total"} \cup {"verification"} |->
                    IF p \in {"verification"} THEN u.phases[p] ELSE t.phases[p]]
  BY DEF Merge
<1> QED  BY <1>1 DEF Get, GetOrZero

\* The artifact is made of the verdict and the measurements.
LEMMA ArtifactIsTrue ==
  ASSUME FriInv, RunInv, EmitArtifact
  PROVE  ArtifactTellsRun'
<1>1. stage = "ready" /\ UNCHANGED <<clock, job, verdict>>
  BY DEF EmitArtifact, runVars
<1>2. /\ phase = "proved" /\ layers[1] = job.evals
      /\ verdict \in BOOLEAN /\ (verdict <=> Len(job.evals) >= 2)
  BY <1>1 DEF RunInv, Proving, Proven, Judged
<1>3. PICK K \in 0 .. 30 : /\ Len(job.evals) = Two(K) /\ (Len(job.evals) >= 2 <=> K > 0)
                           /\ Len(proof.roots) = K + 1
  BY <1>2, SizeTells
<1>4. Len(proof.roots) = Log2(Len(job.evals)) + 1
  BY <1>3, LogOfPower
<1> DEFINE tg == timer.phases["transcript_generation"]
           fri == timer.phases["fri"]
           pt == timer.phases["proving_total"]
           vt == vtimer.phases["verification"]
<1>5. /\ DOMAIN timer.phases = {"transcript_generation", "fri", "proving_total"}
      /\ DOMAIN vtimer.phases = {"verification"}
      /\ clock \in Nat /\ tg \in Nat /\ fri \in Nat /\ pt \in 0 .. clock /\ vt \in Nat
      /\ tg + fri <= pt /\ pt + vt <= clock
  BY <1>1 DEF RunInv, Timed, Proving, Proven, Judged
<1> DEFINE all == Measured(Merge(timer, vtimer))
<1>6. /\ all.status = "pass" /\ all.rounds = Len(proof.roots)
      /\ all.proving = pt /\ all.verification = vt /\ all.total = pt + vt
      /\ all.transcript = tg /\ all.sumcheck = 0 /\ all.fri = fri
  <2>1. PICK m : m = Merge(timer, vtimer)
    OBVIOUS
  <2>2. /\ GetOrZero(m, "proving_total") = pt /\ GetOrZero(m, "transcript_generation") = tg
        /\ Get(m, "fri") = fri /\ GetOrZero(m, "verification") = vt /\ GetOrZero(m, "sumcheck") = 0
    BY <1>5, <2>1, MergeIs
  <2>3. all = Measured(m)
    BY <2>1
  <2> HIDE DEF all, pt, vt, tg, fri
  <2> QED  BY <2>2, <2>3 DEF Measured
<1>7. CASE verdict
  <2>1. artifact' = all
    BY <1>7 DEF EmitArtifact
  <2>2. Len(job.evals) >= 2
    BY <1>2, <1>7
  <2> HIDE DEF all, pt, vt, tg, fri
  <2>3. PhasesNest'
    BY <1>1, <1>5, <1>6, <2>1 DEF PhasesNest
  <2>4. ArtifactTellsVerdict'
    BY <1>1, <1>4, <1>6, <2>1, <2>2 DEF ArtifactTellsVerdict
  <2> QED  BY <2>3, <2>4 DEF ArtifactTellsRun
<1>8. CASE ~verdict
  <2>1. artifact' = [all EXCEPT !.status = "fail", !.rounds = 1, !.proving = 0,
                                !.verification = 0, !.total = 0, !.transcript = 0,
                                !.sumcheck = 0, !.fri = -1]
    BY <1>8 DEF EmitArtifact
  <2>2. ~(Len(job.evals) >= 2)
    BY <1>2, <1>8
  <2>3. /\ artifact'.status = "fail" /\ artifact'.rounds = 1 /\ artifact'.proving = 0
        /\ artifact'.verification = 0 /\ artifact'.total = 0 /\ artifact'.transcript = 0
        /\ artifact'.sumcheck = 0 /\ artifact'.fri = -1
    BY <2>1 DEF Measured
  <2> HIDE DEF all, pt, vt, tg, fri
  <2>4. PhasesNest' /\ ArtifactTellsVerdict'
    BY <1>1, <2>2, <2>3 DEF PhasesNest, ArtifactTellsVerdict
  <2> QED  BY <2>4 DEF ArtifactTellsRun
<1> QED  BY <1>2, <1>7, <1>8

\* There is nothing to tell before an artifact.
LEMMA NoneTellsNothing == artifact.status = "none" => ArtifactTellsRun
BY DEF ArtifactTellsRun, PhasesNest, ArtifactTellsVerdict

\* No job has begun, no time has passed.
LEMMA RunInitially == Init => RunInv
<1> SUFFICES ASSUME Init PROVE RunInv
  OBVIOUS
<1>1. /\ stage \in {"plain", "idle", "requested"} /\ (stage # "idle" => step = "idle")
      /\ artifact = NoArtifact /\ clock = 0
  <2>1. CASE \E j \in FriJobs : DeepInit(NoRequest, "idle") /\ TelemetryInit(j, "plain", NoGit)
    BY <2>1 DEF DeepInit, TelemetryInit
  <2>2. CASE \E r \in DeepRequests : DeepInit(r, "requested") /\ TelemetryInit(NoJob, "idle", NoGit)
    BY <2>2 DEF DeepInit, TelemetryInit
  <2>3. CASE \E r \in BatchRequests : DeepInit(r, "batch") /\ TelemetryInit(NoJob, "idle", NoGit)
    BY <2>3 DEF DeepInit, TelemetryInit
  <2>4. CASE DeepInit(NoRequest, "accounting") /\ TelemetryInit(NoJob, "idle", NoGit)
    BY <2>4 DEF DeepInit, TelemetryInit
  <2>5. CASE \E j \in Jobs : \E repository \in j.repositories :
               DeepInit(NoRequest, "idle") /\ TelemetryInit(j, "requested", repository)
    BY <2>5 DEF DeepInit, TelemetryInit
  <2> QED  BY <2>1, <2>2, <2>3, <2>4, <2>5 DEF Init
<1>2. ArtifactTellsRun
  BY <1>1, NoneTellsNothing DEF NoArtifact
<1> QED  BY <1>1, <1>2 DEF RunInv, Timed, Proving, Proven, Judged, NoArtifact

\* What the run has told stays true while the artifact, the clock and the
\* job do.
LEMMA ToldStays ==
  ASSUME ArtifactTellsRun, UNCHANGED <<artifact, job, clock>>
  PROVE  ArtifactTellsRun'
BY DEF ArtifactTellsRun, PhasesNest, ArtifactTellsVerdict

\* Steps of others.
LEMMA OthersKeepRun ==
  ASSUME RunInv, UNCHANGED telemetryVars, stage \in Proving => UNCHANGED friVars,
         stage # "idle" => step' = "idle"
  PROVE  RunInv'
<1>1. UNCHANGED <<stage, job, clock, timer, vtimer, verdict, artifact>>
  BY DEF telemetryVars, runVars
<1>2. Timed'
  BY <1>1, TimersStay DEF RunInv
<1>3. ArtifactTellsRun'
  BY <1>1, ToldStays DEF RunInv
<1>4. stage' \in Proving => phase' # "idle" /\ ~faulty' /\ layers'[1] = job'.evals
  BY <1>1 DEF RunInv, friVars
<1>5. stage' \in Proven => phase' = "proved"
  BY <1>1 DEF RunInv, friVars, Proven
<1>6. stage' \in Judged => verdict' \in BOOLEAN /\ (verdict' <=> Len(job'.evals) >= 2)
  BY <1>1 DEF RunInv
<1> QED  BY <1>1, <1>2, <1>3, <1>4, <1>5, <1>6 DEF RunInv

-----------------------------------------------------------------------------
\* Its steps.

\* A pipeline that nobody has called does nothing.
LEMMA IdleIsIdle == DeepNext => step # "idle"
BY DEF DeepNext, GateDenies, ComputeDeepQuotient, QuotientAbsent, WireFri, ProveFri, VerifyFri,
       NextBatch, Consume, Reset, VerifyDeepBatch

\* Every step of a telemetry run keeps its invariant.
LEMMA TelemetryKeepsRun ==
  ASSUME FriInv, RunInv, TelemetryNext, UNCHANGED step
  PROVE  RunInv'
<1>1. stage' # "idle" => step' = "idle"
  <2>1. stage # "idle"
    BY DEF TelemetryNext, Tick, Refuse, BeginProving, BeginFri, RunFri, Serialize, BeginVerify,
           FinishVerify, GitCommit, PackRefs, ReadHead, ReadRef, ReadPackedRefs, EmitFails,
           EmitArtifact, Deliver, Reread
  <2> QED  BY <2>1 DEF RunInv
<1>2. ASSUME UNCHANGED <<friVars, job, artifact, clock>>, stage # "emitted", Timed',
             stage' \in Proving => stage \in Proving,
             stage' \in Proven => stage \in Proven,
             stage' \in Judged => stage \in Judged /\ UNCHANGED verdict
      PROVE  RunInv'
  <2>1. ArtifactTellsRun'
    BY <1>2, ToldStays DEF RunInv
  <2>2. stage' \in Proving => phase' # "idle" /\ ~faulty' /\ layers'[1] = job'.evals
    BY <1>2 DEF RunInv, friVars
  <2>3. stage' \in Proven => phase' = "proved"
    BY <1>2 DEF RunInv, friVars
  <2>4. stage' \in Judged => verdict' \in BOOLEAN /\ (verdict' <=> Len(job'.evals) >= 2)
    BY <1>2 DEF RunInv
  <2>5. artifact'.status = "none"
    BY <1>2 DEF RunInv
  <2> QED  BY <1>1, <1>2, <2>1, <2>2, <2>3, <2>4, <2>5 DEF RunInv
<1>3. CASE Tick
  <2>1. UNCHANGED <<stage, friVars, job, artifact, verdict>> /\ Timed'
    BY <1>3, TimersTick DEF Tick, runVars, RunInv
  <2>2. stage # "emitted"
    BY <1>3 DEF Tick
  <2>3. artifact'.status = "none"
    BY <2>1, <2>2 DEF RunInv
  <2>4. ArtifactTellsRun'
    BY <2>3 DEF ArtifactTellsRun, PhasesNest, ArtifactTellsVerdict
  <2>5. stage' \in Proving => phase' # "idle" /\ ~faulty' /\ layers'[1] = job'.evals
    BY <2>1 DEF RunInv, friVars
  <2>6. stage' \in Proven => phase' = "proved"
    BY <2>1 DEF RunInv, friVars
  <2>7. stage' \in Judged => verdict' \in BOOLEAN /\ (verdict' <=> Len(job'.evals) >= 2)
    BY <2>1 DEF RunInv
  <2> QED  BY <1>1, <2>1, <2>3, <2>4, <2>5, <2>6, <2>7 DEF RunInv
<1>4. CASE Refuse \/ EmitFails
  <2>1. /\ stage \in {"requested", "ready"} /\ stage' = "done"
        /\ UNCHANGED <<friVars, job, artifact, clock, timer, vtimer>>
    BY <1>4 DEF Refuse, EmitFails, runVars
  <2>2. Timed'
    BY <2>1, TimersStay DEF RunInv, Proving
  <2> QED  BY <1>2, <2>1, <2>2 DEF Proving, Proven, Judged
<1>5. CASE BeginProving
  <2>1. stage = "requested" /\ stage' = "setup" /\ UNCHANGED <<friVars, job, artifact, clock>>
    BY <1>5 DEF BeginProving
  <2>2. Timed'
    BY <1>5, TimersStart DEF RunInv, Timed
  <2> QED  BY <1>2, <2>1, <2>2 DEF Proving, Proven, Judged
<1>6. CASE BeginFri
  <2>1. /\ stage = "setup" /\ stage' = "proving" /\ UNCHANGED <<job, artifact, clock>>
        /\ FriCommit(job.evals, job.domain, job.queries, FALSE)
    BY <1>6 DEF BeginFri
  <2>2. phase' # "idle" /\ ~faulty' /\ layers'[1] = job'.evals
    BY <2>1 DEF FriCommit
  <2>3. Timed'
    BY <1>6, TimersCommit DEF RunInv
  <2>4. ArtifactTellsRun' /\ artifact'.status = "none"
    BY <2>1, ToldStays DEF RunInv
  <2> QED  BY <1>1, <2>1, <2>2, <2>3, <2>4 DEF RunInv, Proven, Judged
<1>7. CASE RunFri
  <2>1. /\ stage = "proving" /\ FriNext
        /\ UNCHANGED <<stage, job, artifact, clock, timer, vtimer>>
    BY <1>7 DEF RunFri, telemetryVars, runVars
  <2>2. phase # "idle" /\ ~faulty /\ layers[1] = job.evals
    BY <2>1 DEF RunInv, Proving
  <2>3. phase' # "idle" /\ ~faulty' /\ layers'[1] = job'.evals
    BY <2>1, <2>2, FirstLayerStays
  <2>4. Timed'
    BY <2>1, TimersStay DEF RunInv
  <2>5. ArtifactTellsRun' /\ artifact'.status = "none"
    BY <2>1, ToldStays DEF RunInv
  <2> QED  BY <1>1, <2>1, <2>3, <2>4, <2>5 DEF RunInv, Proven, Judged
<1>8. CASE Serialize
  <2>1. /\ stage = "proving" /\ stage' = "serialized" /\ phase = "proved"
        /\ UNCHANGED <<friVars, job, artifact, clock>>
    BY <1>8 DEF Serialize
  <2>2. Timed'
    BY <1>8, TimersProve DEF RunInv
  <2>3. phase' # "idle" /\ ~faulty' /\ layers'[1] = job'.evals /\ phase' = "proved"
    BY <2>1 DEF RunInv, Proving, friVars
  <2>4. ArtifactTellsRun' /\ artifact'.status = "none"
    BY <2>1, ToldStays DEF RunInv
  <2> QED  BY <1>1, <2>1, <2>2, <2>3, <2>4 DEF RunInv, Judged
<1>9. CASE BeginVerify
  <2>1. stage = "serialized" /\ stage' = "verifying" /\ UNCHANGED <<friVars, job, artifact, clock>>
    BY <1>9 DEF BeginVerify
  <2>2. Timed'
    BY <1>9, TimersVerify DEF RunInv
  <2> QED  BY <1>2, <2>1, <2>2 DEF Proving, Proven, Judged
<1>10. CASE FinishVerify
  <2>1. /\ stage = "verifying" /\ stage' = "verified" /\ Verified(verdict')
        /\ UNCHANGED <<friVars, job, artifact, clock>>
    BY <1>10 DEF FinishVerify
  <2>2. Timed'
    BY <1>10, TimersJudge DEF RunInv
  <2>3. phase # "idle" /\ phase = "proved" /\ ~faulty /\ layers[1] = job.evals
    BY <2>1 DEF RunInv, Proving, Proven
  <2>4. PICK v : v = verdict'
    OBVIOUS
  <2>5. v \in BOOLEAN /\ (v <=> Len(layers[1]) >= 2)
    BY <2>1, <2>3, <2>4, HonestIsAccepted
  <2>6. ArtifactTellsRun' /\ artifact'.status = "none"
    BY <2>1, ToldStays DEF RunInv
  <2>7. phase' # "idle" /\ ~faulty' /\ layers'[1] = job'.evals /\ phase' = "proved"
    BY <2>1, <2>3 DEF friVars
  <2>8. verdict' \in BOOLEAN /\ (verdict' <=> Len(job'.evals) >= 2)
    BY <2>1, <2>3, <2>4, <2>5
  <2> QED  BY <1>1, <2>1, <2>2, <2>6, <2>7, <2>8 DEF RunInv
<1>11. CASE GitCommit \/ PackRefs \/ ReadHead \/ ReadRef \/ ReadPackedRefs
  <2>1. /\ stage \in {"verified", "head", "loose"} /\ stage' \in {"head", "loose", "ready"}
        /\ UNCHANGED <<friVars, job, artifact, clock, timer, vtimer, verdict>>
    BY <1>11 DEF GitCommit, PackRefs, ReadHead, ReadRef, ReadPackedRefs, runVars
  <2>2. stage \in Judged /\ stage' \in Judged /\ stage \in Proven /\ stage \in Proving
    BY <2>1 DEF Proving, Proven, Judged
  <2>3. Timed'
    BY <2>1, <2>2, TimersStay DEF RunInv
  <2> QED  BY <1>2, <2>1, <2>2, <2>3
<1>12. CASE EmitArtifact
  <2>1. /\ stage = "ready" /\ stage' = "emitted"
        /\ UNCHANGED <<friVars, job, clock, timer, vtimer, verdict>>
    BY <1>12 DEF EmitArtifact, runVars
  <2>2. stage \in Judged /\ stage' \in Judged /\ stage \in Proven /\ stage \in Proving
    BY <2>1 DEF Proving, Proven, Judged
  <2>3. Timed'
    BY <2>1, <2>2, TimersStay DEF RunInv
  <2>4. ArtifactTellsRun'
    BY <1>12, ArtifactIsTrue
  <2>5. phase' # "idle" /\ ~faulty' /\ layers'[1] = job'.evals /\ phase' = "proved"
    BY <2>1, <2>2 DEF RunInv, friVars
  <2>6. verdict' \in BOOLEAN /\ (verdict' <=> Len(job'.evals) >= 2)
    BY <2>1, <2>2 DEF RunInv
  <2> QED  BY <1>1, <2>1, <2>3, <2>4, <2>5, <2>6 DEF RunInv
<1>13. CASE Deliver \/ Reread
  <2>1. stage' \in {"delivered", "done"} /\ clock' \in Nat
    BY <1>13 DEF Deliver, Reread, RunInv, Timed
  <2>2. Timed'
    BY <2>1 DEF Timed, Proving, Proven, Judged
  <2>3. artifact'.status = "none"
    <3>1. CASE Deliver
      BY <3>1 DEF Deliver, NoArtifact
    <3>2. CASE Reread
      <4>1. stage = "delivered" /\ UNCHANGED artifact
        BY <3>2 DEF Reread
      <4> QED  BY <4>1 DEF RunInv
    <3> QED  BY <1>13, <3>1, <3>2
  <2>4. ArtifactTellsRun'
    BY <2>3 DEF ArtifactTellsRun, PhasesNest, ArtifactTellsVerdict
  <2> QED  BY <1>1, <2>1, <2>2, <2>3, <2>4 DEF RunInv, Proving, Proven, Judged
<1> QED  BY <1>3, <1>4, <1>5, <1>6, <1>7, <1>8, <1>9, <1>10, <1>11, <1>12, <1>13 DEF TelemetryNext

\* So does every step beside it.
LEMMA RunStep == ClientInv /\ RunInv /\ [Next]_vars => RunInv'
<1> SUFFICES ASSUME ClientInv, RunInv, [Next]_vars PROVE RunInv'
  OBVIOUS
<1>1. CASE PlainFri
  <2>1. stage = "plain" /\ UNCHANGED telemetryVars /\ UNCHANGED step
    BY <1>1 DEF PlainFri, deepVars
  <2> QED  BY <2>1, OthersKeepRun DEF RunInv, Proving
<1>2. CASE DeepNext /\ UNCHANGED telemetryVars
  <2>1. stage = "idle"
    BY <1>2, IdleIsIdle DEF RunInv
  <2> QED  BY <1>2, <2>1, OthersKeepRun DEF Proving
<1>3. CASE TelemetryNext /\ UNCHANGED deepVars
  BY <1>3, TelemetryKeepsRun DEF ClientInv, deepVars
<1>4. CASE UNCHANGED <<friVars, deepVars, telemetryVars>>
  BY <1>4, OthersKeepRun DEF RunInv, deepVars
<1> QED  BY <1>1, <1>2, <1>3, <1>4 DEF Next, vars

\* The invariant gives the checked property.
LEMMA RunTells == RunInv => ArtifactTellsRun
BY DEF RunInv

\* An artifact is true, for every job, clock and prime field: it passes exactly
\* if the evaluations were folded at least once, then with a round for every
\* commitment and phases that fit into the time that has passed; otherwise it
\* measures nothing (emitter.rs, timing.rs).
THEOREM ArtifactIsTrueOfRun == Spec => []ArtifactTellsRun
BY ClientInitially, ClientStep, RunInitially, RunStep, RunTells, PTL DEF Spec

-----------------------------------------------------------------------------
\* The words of a proof.

\* Sequences put together are a sequence.
LEMMA FlattenTyped ==
  ASSUME NEW S, NEW n \in Nat, NEW s \in [1 .. n -> Seq(S)]
  PROVE  FlattenSeq(s) \in Seq(S)
<1> DEFINE V == Seq(S)
           F == [k \in 1 .. (n - 1) |-> [v \in V |-> v \o s[k + 1]]]
<1>1. Len(s) = n /\ DOMAIN s = 1 .. n
  BY VectorIsSeq
<1>2. CASE n = 0
  <2>1. s \in [1 .. n -> S]
    BY <1>2
  <2>2. s \in Seq(S)
    BY <2>1, VectorIsSeq
  <2> QED  BY <1>1, <1>2, <2>2 DEF FlattenSeq
<1>3. CASE n # 0
  <2>1. n - 1 \in Nat /\ 1 \in 1 .. n /\ \A k \in 1 .. (n - 1) : k + 1 \in 1 .. n
    BY <1>3
  <2>2. s[1] \in V /\ \A k \in 1 .. (n - 1) : \A v \in V : v \o s[k + 1] \in V
    BY <2>1
  <2>3. \A k \in 1 .. (n - 1) : \A v \in V : F[k][v] = v \o s[k + 1]
    OBVIOUS
  <2>4. F \in [1 .. (n - 1) -> [V -> V]]
    BY <2>2
  <2> HIDE DEF F, V
  <2>5. PICK t : Iterates(n - 1, V, s[1], F, t)
    BY <2>1, <2>2, <2>4, Recursion
  <2>6. t \in [0 .. (n - 1) -> V] /\ t[0] = s[1] /\ \A k \in 1 .. (n - 1) : t[k] = t[k - 1] \o s[k + 1]
    <3>1. t \in [0 .. (n - 1) -> V] /\ t[0] = s[1] /\ \A k \in 1 .. (n - 1) : t[k] = F[k][t[k - 1]]
      BY <2>5 DEF Iterates
    <3>2. ASSUME NEW k \in 1 .. (n - 1) PROVE t[k] = t[k - 1] \o s[k + 1]
      <4>1. k - 1 \in 0 .. (n - 1)
        OBVIOUS
      <4>2. t[k - 1] \in V
        BY <3>1, <4>1
      <4> QED  BY <2>3, <3>1, <4>2
    <3> QED  BY <3>1, <3>2
  <2> DEFINE g == [i \in 1 .. n |-> t[i - 1]]
  <2>7. g = [i \in 1 .. n |-> IF i = 1 THEN s[i] ELSE g[i - 1] \o s[i]]
    <3> SUFFICES ASSUME NEW i \in 1 .. n PROVE g[i] = IF i = 1 THEN s[i] ELSE g[i - 1] \o s[i]
      OBVIOUS
    <3>1. CASE i = 1
      <4>1. g[1] = t[1 - 1] /\ 1 - 1 = 0
        BY <2>1
      <4> QED  BY <2>6, <3>1, <4>1
    <3>2. CASE i # 1
      <4>1. i - 1 \in 1 .. (n - 1) /\ i - 1 \in 1 .. n /\ (i - 1) + 1 = i
        BY <3>2
      <4>2. t[i - 1] = t[(i - 1) - 1] \o s[(i - 1) + 1]
        BY <2>6, <4>1
      <4>3. g[i - 1] = t[(i - 1) - 1] /\ g[i] = t[i - 1]
        BY <4>1
      <4> QED  BY <3>2, <4>1, <4>2, <4>3
    <3> QED  BY <3>1, <3>2
  <2> HIDE DEF g
  <2>8. FlattenSeq(s) =
          LET flatten[i \in 1 .. n] == IF i = 1 THEN s[i] ELSE flatten[i - 1] \o s[i]
          IN flatten[n]
    BY <1>1, <1>3 DEF FlattenSeq
  <2>9. PICK f : /\ f = [i \in 1 .. n |-> IF i = 1 THEN s[i] ELSE f[i - 1] \o s[i]]
                 /\ FlattenSeq(s) = f[n]
    BY <2>7, <2>8
  <2>10. f[1] = s[1] /\ \A i \in 1 .. (n - 1) : f[i + 1] = f[i] \o s[i + 1]
    <3>1. f[1] = s[1]
      BY <2>1, <2>9
    <3>2. ASSUME NEW i \in 1 .. (n - 1) PROVE f[i + 1] = f[i] \o s[i + 1]
      <4>1. i + 1 \in 1 .. n /\ i + 1 # 1 /\ (i + 1) - 1 = i
        OBVIOUS
      <4>2. f[i + 1] = f[(i + 1) - 1] \o s[i + 1]
        BY <2>9, <4>1
      <4> QED  BY <4>1, <4>2
    <3> QED  BY <3>1, <3>2
  <2> DEFINE h == [i \in 0 .. (n - 1) |-> f[i + 1]]
  <2>11. h[0] \in V
    <3>1. h[0] = f[0 + 1] /\ 0 + 1 = 1
      BY <2>1
    <3> QED  BY <2>2, <2>10, <3>1
  <2>12. ASSUME NEW k \in 1 .. (n - 1), h[k - 1] \in V PROVE h[k] \in V
    <3>1. h[k] = f[k + 1] /\ h[k - 1] = f[(k - 1) + 1] /\ (k - 1) + 1 = k
      BY <2>1
    <3>2. f[k + 1] = h[k - 1] \o s[k + 1]
      BY <2>10, <3>1
    <3> QED  BY <2>2, <2>12, <3>1, <3>2
  <2> HIDE DEF h
  <2>13. \A k \in 0 .. (n - 1) : h[k] \in V
    BY <2>1, <2>11, <2>12, Stays
  <2>14. h[n - 1] = f[n]
    <3>1. n - 1 \in 0 .. (n - 1) /\ (n - 1) + 1 = n
      BY <2>1
    <3> QED  BY <3>1 DEF h
  <2>15. n - 1 \in 0 .. (n - 1)
    BY <2>1
  <2>16. f[n] \in V
    BY <2>13, <2>14, <2>15, Zenon
  <2> QED  BY <2>9, <2>16 DEF V
<1> QED  BY <1>2, <1>3

\* A count before them keeps it one of numbers.
LEMMA CountedTyped ==
  ASSUME NEW n \in Nat, NEW s \in [1 .. n -> Seq(Nat)]
  PROVE  Counted(s) \in Seq(Nat)
<1>1. Len(s) = n
  BY VectorIsSeq
<1>2. FlattenSeq(s) \in Seq(Nat)
  BY FlattenTyped
<1>3. <<n>> \in Seq(Nat)
  OBVIOUS
<1> QED  BY <1>1, <1>2, <1>3 DEF Counted

\* Digests are written as they are.
LEMMA DigestsTyped == ASSUME NEW ds \in Seq(Nat) PROVE EncodeDigests(ds) \in Seq(Nat)
<1>1. <<Len(ds)>> \in Seq(Nat)
  OBVIOUS
<1> QED  BY <1>1 DEF EncodeDigests

\* A root is a natural.
LEMMA RootIsNat ==
  ASSUME NEW K \in 0 .. 30, NEW r \in 1 .. (K + 1), NEW v \in Layer(K, r)
  PROVE  RootOf(v) \in Seq(Nat)
<1> DEFINE n == Two(K - (r - 1))
<1>1. K - (r - 1) \in 0 .. 30
  OBVIOUS
<1>2. n \in Nat
  BY <1>1, PowersOfTwo
<1>3. v \in [1 .. n -> Elements]
  BY DEF Layer, Vectors
<1> HIDE DEF n
<1>4. PICK d : Spells(v, n, d)
  BY <1>2, <1>3, DigestIs
<1>5. Digest(v) \in Nat
  BY <1>2, <1>4 DEF Spells
<1> QED  BY <1>5 DEF RootOf

\* So is every word of an opening.
LEMMA OpeningTyped ==
  ASSUME NEW H \in 0 .. 30, NEW leaves \in [1 .. Two(H) -> Elements],
         NEW index \in 0 .. (Two(H) - 1)
  PROVE  EncodeOpening(Opening(leaves, index)) \in Seq(Nat)
<1> DEFINE size == Two(H)
           o == Opening(leaves, index)
           path == [h \in 1 .. H |-> Digest(Sibling(leaves, index, h - 1))]
<1>1. size \in Nat /\ Log2(size) = H /\ H \in Nat
  <2>1. size \in Nat
    BY PowersOfTwo
  <2>2. Log2(size) = H
    BY LogOfPower
  <2> QED  BY <2>1, <2>2
<1>2. Len(leaves) = size
  BY <1>1, VectorIsSeq
<1>3. o = [leaf_index |-> index, leaf_value |-> leaves[index + 1], proof |-> path]
  <2>1. Log2(Len(leaves)) = H
    BY <1>1, <1>2
  <2> QED  BY <2>1, Zenon DEF Opening
<1>4. \A h \in 1 .. H : Digest(Sibling(leaves, index, h - 1)) \in Nat
  BY SiblingIs
<1>5. path \in [1 .. H -> Nat]
  BY <1>4
<1>6. index \in Nat /\ leaves[index + 1] \in Nat
  <2>1. index \in 0 .. (size - 1) /\ leaves \in [1 .. size -> Elements]
    OBVIOUS
  <2> HIDE DEF size
  <2>2. index \in Nat /\ index + 1 \in 1 .. size
    BY <1>1, <2>1
  <2> QED  BY <2>1, <2>2, ElementsAreNat
<1> HIDE DEF size, path
<1>7. path \in Seq(Nat)
  BY <1>1, <1>5, VectorIsSeq
<1>8. EncodeDigests(path) \in Seq(Nat)
  BY <1>7, DigestsTyped
<1>9. PICK a \in Nat, b \in Nat, w \in Seq(Nat) :
         a = o.leaf_index /\ b = o.leaf_value /\ w = EncodeDigests(o.proof)
  <2> HIDE DEF o
  <2>1. o.leaf_index = index /\ o.leaf_value = leaves[index + 1] /\ o.proof = path
    BY <1>3
  <2> QED  BY <1>6, <1>8, <2>1
<1>10. <<a, b>> \in Seq(Nat)
  OBVIOUS
<1>11. EncodeOpening(o) = <<a, b>> \o w
  BY <1>9 DEF EncodeOpening
<1> QED  BY <1>10, <1>11

\* So is every word of a round.
LEMMA RoundTyped ==
  ASSUME NEW K \in 0 .. 30, NEW r \in 1 .. K, NEW current \in Layer(K, r),
         NEW next \in Layer(K, r + 1), NEW index \in Nat
  PROVE  EncodeRound(QueryRound(current, next, index)) \in Seq(Nat)
<1> DEFINE half == Two(K - r)
           i == index % half
<1>1. /\ r \in 1 .. (K + 1) /\ r + 1 \in 1 .. (K + 1) /\ (r + 1) - 1 = r
      /\ K - r \in 0 .. 30 /\ K - (r - 1) \in 0 .. 30
  OBVIOUS
<1>2. half \in Nat /\ half > 0 /\ Two(K - (r - 1)) = half + half /\ Two(K - (r - 1)) \div 2 = half
  BY HalfPower
<1>3. Len(current) = Two(K - (r - 1))
  BY <1>1, LayerIsSeq
<1>4. current \in [1 .. Two(K - (r - 1)) -> Elements] /\ next \in [1 .. half -> Elements]
  BY <1>1 DEF Layer, Vectors
<1>5. i \in 0 .. (half - 1) /\ i \in 0 .. (Two(K - (r - 1)) - 1) /\ i + half \in 0 .. (Two(K - (r - 1)) - 1)
  <2>1. half \in Nat /\ half > 0 /\ index \in Int
    BY <1>2
  <2>2. i \in Nat /\ i < half
    BY <2>1, DivIs
  <2> HIDE DEF half, i
  <2> QED  BY <1>2, <2>2
<1>6. QueryRound(current, next, index)
        = [opening_x |-> Opening(current, i), opening_neg_x |-> Opening(current, i + half),
           opening_folded |-> Opening(next, i)]
  BY <1>2, <1>3 DEF QueryRound
<1>7. PICK u \in Seq(Nat), v \in Seq(Nat), w \in Seq(Nat) :
         /\ u = EncodeOpening(Opening(current, i)) /\ v = EncodeOpening(Opening(current, i + half))
         /\ w = EncodeOpening(Opening(next, i))
  BY <1>1, <1>4, <1>5, OpeningTyped
<1>8. EncodeRound(QueryRound(current, next, index)) = u \o v \o w
  BY <1>6, <1>7 DEF EncodeRound
<1> QED  BY <1>8

\* And every word of a proof.
LEMMA WordsTyped ==
  ASSUME FriInv, phase = "proved"
  PROVE  EncodeFriProof(proof) \in Seq(Nat)
<1>1. PICK K \in 0 .. 30 : FriTyped(K)
  BY DEF FriInv
<1>2. /\ layers \in Seq(Seq(Elements)) /\ Len(layers) = K + 1 /\ \A r \in 1 .. (K + 1) : layers[r] \in Layer(K, r)
      /\ betas \in Seq(Elements) /\ Len(betas) = K /\ indices \in Seq(0 .. (Two(K) - 1)) /\ K \in Nat
  BY <1>1 DEF FriTyped
<1>3. DOMAIN layers = 1 .. (K + 1) /\ DOMAIN betas = 1 .. K
  <2>1. ASSUME NEW S, NEW s \in Seq(S) PROVE DOMAIN s = 1 .. Len(s)
    OBVIOUS
  <2>2. layers \in Seq(Seq(Elements)) /\ betas \in Seq(Elements) /\ Len(layers) = K + 1 /\ Len(betas) = K
    BY <1>2
  <2> QED  BY <2>1, <2>2, Zenon
<1>4. PICK m \in Nat : m = Len(indices) /\ DOMAIN indices = 1 .. m /\ indices \in [1 .. m -> Nat]
  <2> DEFINE S == 0 .. (Two(K) - 1)
  <2>1. indices \in Seq(S) /\ S \subseteq Nat
    BY <1>2, PowersOfTwo
  <2> HIDE DEF S
  <2>2. Len(indices) \in Nat /\ DOMAIN indices = 1 .. Len(indices) /\ indices \in [1 .. Len(indices) -> S]
    BY <2>1, SeqIsVector
  <2> QED  BY <2>1, <2>2, Zenon
<1>5. /\ proof.roots = [r \in 1 .. (K + 1) |-> RootOf(layers[r])]
      /\ proof.query_indices = indices
      /\ proof.query_proofs = [q \in 1 .. m |-> [r \in 1 .. K |-> QueryRound(layers[r], layers[r + 1], indices[q])]]
      /\ proof.final_value \in Nat
  BY <1>3, <1>4, ElementsAreNat DEF FriInv, FriProof
<1>6. EncodeCommitmentRoots(proof) \in Seq(Nat)
  <2> DEFINE rs == [r \in DOMAIN proof.roots |-> EncodeDigests(proof.roots[r])]
  <2>1. \A r \in 1 .. (K + 1) : EncodeDigests(proof.roots[r]) \in Seq(Nat)
    <3> TAKE r \in 1 .. (K + 1)
    <3>1. proof.roots[r] = RootOf(layers[r]) /\ layers[r] \in Layer(K, r)
      BY <1>2, <1>5
    <3>2. RootOf(layers[r]) \in Seq(Nat)
      BY <3>1, RootIsNat
    <3> QED  BY <3>1, <3>2, DigestsTyped
  <2>2. DOMAIN proof.roots = 1 .. (K + 1)
    BY <1>5
  <2>3. rs \in [1 .. (K + 1) -> Seq(Nat)]
    BY <2>1, <2>2
  <2> HIDE DEF rs
  <2>4. Counted(rs) \in Seq(Nat)
    <3>1. K + 1 \in Nat
      BY <1>2
    <3> QED  BY <2>3, <3>1, CountedTyped
  <2>5. <<proof.final_value>> \in Seq(Nat)
    BY <1>5
  <2>6. EncodeCommitmentRoots(proof) = <<proof.final_value>> \o Counted(rs)
    BY DEF EncodeCommitmentRoots, rs
  <2> QED  BY <2>4, <2>5, <2>6
<1> DEFINE rounds(q) == [r \in DOMAIN proof.query_proofs[q] |-> EncodeRound(proof.query_proofs[q][r])]
           qs == [q \in DOMAIN proof.query_proofs |-> Counted(rounds(q))]
<1>7. \A q \in 1 .. m : Counted(rounds(q)) \in Seq(Nat)
  <2> TAKE q \in 1 .. m
  <2>1. proof.query_proofs[q] = [r \in 1 .. K |-> QueryRound(layers[r], layers[r + 1], indices[q])]
    BY <1>5
  <2>2. ASSUME NEW r \in 1 .. K PROVE EncodeRound(proof.query_proofs[q][r]) \in Seq(Nat)
    <3>1. r \in 1 .. (K + 1) /\ r + 1 \in 1 .. (K + 1)
      BY <1>2
    <3>2. layers[r] \in Layer(K, r) /\ layers[r + 1] \in Layer(K, r + 1) /\ indices[q] \in Nat
      BY <1>2, <1>4, <3>1
    <3>3. proof.query_proofs[q][r] = QueryRound(layers[r], layers[r + 1], indices[q])
      BY <2>1
    <3> QED  BY <3>2, <3>3, RoundTyped
  <2>3. DOMAIN proof.query_proofs[q] = 1 .. K
    BY <2>1
  <2>4. rounds(q) \in [1 .. K -> Seq(Nat)]
    BY <2>2, <2>3
  <2> HIDE DEF rounds
  <2> QED  BY <1>2, <2>4, CountedTyped
<1>8. DOMAIN proof.query_proofs = 1 .. m
  BY <1>5
<1>9. qs \in [1 .. m -> Seq(Nat)]
  BY <1>7, <1>8
<1>10. EncodeFriProof(proof) =
         <<FRI_PROOF_MAGIC, FRI_PROOF_FORMAT_VERSION>> \o EncodeCommitmentRoots(proof)
           \o <<Len(proof.query_indices)>> \o proof.query_indices \o FlattenSeq(qs)
  BY DEF EncodeFriProof
<1> HIDE DEF qs, rounds
<1>11. FlattenSeq(qs) \in Seq(Nat)
  BY <1>9, FlattenTyped
<1>12. <<FRI_PROOF_MAGIC, FRI_PROOF_FORMAT_VERSION>> \in Seq(Nat)
  BY DEF FRI_PROOF_MAGIC, FRI_PROOF_FORMAT_VERSION
<1>13. <<Len(proof.query_indices)>> \in Seq(Nat) /\ proof.query_indices \in Seq(Nat)
  <2>1. indices \in Seq(Nat)
    BY <1>4, VectorIsSeq
  <2>2. <<m>> \in Seq(Nat)
    OBVIOUS
  <2> QED  BY <1>4, <1>5, <2>1, <2>2
<1>14. PICK a \in Seq(Nat), b \in Seq(Nat), c \in Seq(Nat), d \in Seq(Nat), e \in Seq(Nat) :
          /\ a = <<FRI_PROOF_MAGIC, FRI_PROOF_FORMAT_VERSION>> /\ b = EncodeCommitmentRoots(proof)
          /\ c = <<Len(proof.query_indices)>> /\ d = proof.query_indices /\ e = FlattenSeq(qs)
  BY <1>6, <1>11, <1>12, <1>13
<1>15. EncodeFriProof(proof) = a \o b \o c \o d \o e
  BY <1>10, <1>14
<1> QED  BY <1>15

-----------------------------------------------------------------------------
\* What the types need.

\* What types remain when FRI, the accounts, the repository's words and the
\* running timers have theirs.
TypeInv ==
  /\ phase = "idle" => nqueries = 0
  /\ IsQuotient(quotient)
  /\ clock \in 0 .. MaxClock /\ verdict \in BOOLEAN
  /\ stage \notin {"setup", "proving"} => timer.active = <<>>
  /\ stage # "verifying" => vtimer.active = <<>>
  /\ git \in [head : 0 .. MaxCommits, loose : 0 .. MaxCommits, packed : 0 .. MaxCommits]
  /\ read \in 0 .. MaxCommits /\ tips \subseteq 0 .. MaxCommits
  /\ words \in Seq(Nat)

\* The invariant holds before any run.
LEMMA TypeInitially == Init => TypeInv
<1> SUFFICES ASSUME Init PROVE TypeInv
  OBVIOUS
<1> DEFINE Gits == [head : 0 .. MaxCommits, loose : 0 .. MaxCommits, packed : 0 .. MaxCommits]
<1>1. MaxClock \in Nat /\ MaxCommits \in Nat /\ 1 <= MaxCommits
  BY TelemetryAssumption
<1>2. NoGit \in Gits
  BY <1>1 DEF NoGit
<1>3. Repositories \subseteq Gits
  BY <1>1 DEF Repositories
<1>4. IsQuotient(<<>>)
  <2>1. Two(30) \in Nat
    BY PowersOfTwo
  <2> QED  BY <2>1 DEF IsQuotient
<1>5. phase = "idle" /\ nqueries = 0
  BY DEF Init, FriInit
<1> HIDE DEF Gits
<1>6. /\ quotient = <<>> /\ clock = 0 /\ verdict = FALSE /\ timer = NewTimer /\ vtimer = NewTimer
      /\ git \in Gits /\ read = 0 /\ tips = {} /\ words = <<>>
  <2>1. CASE \E j \in FriJobs : DeepInit(NoRequest, "idle") /\ TelemetryInit(j, "plain", NoGit)
    BY <1>2, <2>1 DEF DeepInit, TelemetryInit
  <2>2. CASE \E r \in DeepRequests : DeepInit(r, "requested") /\ TelemetryInit(NoJob, "idle", NoGit)
    BY <1>2, <2>2 DEF DeepInit, TelemetryInit
  <2>3. CASE \E r \in BatchRequests : DeepInit(r, "batch") /\ TelemetryInit(NoJob, "idle", NoGit)
    BY <1>2, <2>3 DEF DeepInit, TelemetryInit
  <2>4. CASE DeepInit(NoRequest, "accounting") /\ TelemetryInit(NoJob, "idle", NoGit)
    BY <1>2, <2>4 DEF DeepInit, TelemetryInit
  <2>5. CASE \E j \in Jobs : \E repository \in j.repositories :
               DeepInit(NoRequest, "idle") /\ TelemetryInit(j, "requested", repository)
    <3>1. \A j \in Jobs : j.repositories \subseteq Gits
      BY <1>3, FriClientsAssumption
    <3> QED  BY <2>5, <3>1 DEF DeepInit, TelemetryInit
  <2> QED  BY <2>1, <2>2, <2>3, <2>4, <2>5 DEF Init
<1>7. IsQuotient(quotient) /\ words \in Seq(Nat)
  BY <1>4, <1>6
<1>8. clock \in 0 .. MaxClock /\ verdict \in BOOLEAN /\ read \in 0 .. MaxCommits /\ tips \subseteq 0 .. MaxCommits
  <2>1. clock \in 0 .. MaxClock /\ read \in 0 .. MaxCommits
    BY <1>1, <1>6
  <2>2. verdict \in BOOLEAN
    BY <1>6, Zenon
  <2>3. tips \subseteq 0 .. MaxCommits
    BY <1>6, Zenon
  <2> QED  BY <2>1, <2>2, <2>3
<1>9. timer.active = <<>> /\ vtimer.active = <<>>
  BY <1>6 DEF NewTimer
<1>10. git \in [head : 0 .. MaxCommits, loose : 0 .. MaxCommits, packed : 0 .. MaxCommits]
  BY <1>6 DEF Gits
<1> QED  BY <1>5, <1>7, <1>8, <1>9, <1>10, Zenon DEF TypeInv

\* A proof once begun is not idle again.
LEMMA NeverIdleAgain == Next /\ phase' = "idle" => phase = "idle" /\ UNCHANGED nqueries
<1> SUFFICES ASSUME Next, phase' = "idle" PROVE phase = "idle" /\ UNCHANGED nqueries
  OBVIOUS
<1>1. ~FriNext
  BY DEF FriNext, FriFold, FriQuery, FriFinish
<1>2. \A evals, dom, queries, f : ~FriCommit(evals, dom, queries, f)
  BY DEF FriCommit
<1>3. UNCHANGED friVars
  <2>1. CASE PlainFri
    BY <1>1, <1>2, <2>1 DEF PlainFri
  <2>2. CASE DeepNext
    BY <1>1, <1>2, <2>2 DEF DeepNext, GateDenies, ComputeDeepQuotient, QuotientAbsent, WireFri, ProveFri,
                           VerifyFri, NextBatch, Consume, Reset, VerifyDeepBatch
  <2>3. CASE TelemetryNext
    BY <1>1, <1>2, <2>3 DEF TelemetryNext, Tick, Refuse, BeginProving, BeginFri, RunFri, Serialize,
         BeginVerify, FinishVerify, GitCommit, PackRefs, ReadHead, ReadRef, ReadPackedRefs, EmitFails,
         EmitArtifact, Deliver, Reread
  <2> QED  BY <2>1, <2>2, <2>3 DEF Next
<1> QED  BY <1>3 DEF friVars

\* Only the quotient's own step changes it.
LEMMA QuotientStays == ClientInv /\ TypeInv /\ Next => IsQuotient(quotient')
<1> SUFFICES ASSUME ClientInv, TypeInv, Next PROVE IsQuotient(quotient')
  OBVIOUS
<1>1. CASE UNCHANGED quotient
  BY <1>1 DEF TypeInv
<1>2. CASE ComputeDeepQuotient
  <2>1. PICK ws \in [DOMAIN deep.queries -> Elements] : quotient' = QuotientResult(deep, ws).value
    BY <1>2 DEF ComputeDeepQuotient
  <2>2. deep \in DeepRequests
    BY <1>2 DEF ComputeDeepQuotient, ClientInv
  <2>3. IsQuotient(QuotientResult(deep, ws).value)
    BY <2>2, QuotientTyped
  <2> QED  BY <2>1, <2>3
<1>3. CASE DeepNext /\ ~ComputeDeepQuotient
  <2>1. UNCHANGED quotient
    BY <1>3 DEF DeepNext, GateDenies, QuotientAbsent, WireFri, ProveFri, VerifyFri, NextBatch, Consume,
                Reset, VerifyDeepBatch, deepVars
  <2> QED  BY <1>1, <2>1
<1> QED  BY <1>1, <1>2, <1>3 DEF Next, PlainFri, deepVars

\* The clock stays in its bound.
LEMMA ClockTyped ==
  ASSUME TypeInv, TelemetryNext
  PROVE  clock' \in 0 .. MaxClock
<1>1. CASE Tick
  BY <1>1, TelemetryAssumption DEF Tick, TypeInv
<1>2. CASE Deliver
  BY <1>2, TelemetryAssumption DEF Deliver
<1>3. CASE ~Tick /\ ~Deliver
  BY <1>3 DEF TypeInv, TelemetryNext, Refuse, BeginProving, BeginFri, RunFri, Serialize, BeginVerify,
       FinishVerify, GitCommit, PackRefs, ReadHead, ReadRef, ReadPackedRefs, EmitFails, EmitArtifact,
       Reread, telemetryVars
<1> QED  BY <1>1, <1>2, <1>3

\* No timer is left running.
LEMMA StacksTyped ==
  ASSUME TypeInv, Timed, TelemetryNext
  PROVE  /\ stage' \notin {"setup", "proving"} => timer'.active = <<>>
         /\ stage' # "verifying" => vtimer'.active = <<>>
<1>1. CASE Serialize
  <2>1. stage = "proving" /\ stage' = "serialized" /\ timer' = Stopped(Stopped(timer)) /\ UNCHANGED vtimer
    BY <1>1 DEF Serialize
  <2>2. PICK a \in 0 .. clock, c \in 0 .. clock :
           timer.active = <<[name |-> "proving_total", at |-> a], [name |-> "fri", at |-> c]>>
    BY <2>1 DEF Timed
  <2>3. PICK x, y : timer.active = <<x, y>>
    BY <2>2
  <2>4. Stopped(timer).active = <<x>>
    BY <2>3, StopLast
  <2>5. timer'.active = <<>>
    BY <2>1, <2>4, StopOnly
  <2> QED  BY <2>1, <2>5 DEF TypeInv
<1>2. CASE FinishVerify
  <2>1. stage = "verifying" /\ stage' = "verified" /\ vtimer' = Stopped(vtimer) /\ UNCHANGED timer
    BY <1>2 DEF FinishVerify
  <2>2. PICK x : vtimer.active = <<x>>
    BY <2>1 DEF Timed
  <2>3. vtimer'.active = <<>>
    BY <2>1, <2>2, StopOnly
  <2> QED  BY <2>1, <2>3 DEF TypeInv
<1>3. CASE BeginProving \/ BeginFri
  BY <1>3 DEF BeginProving, BeginFri, TypeInv
<1>4. CASE BeginVerify
  BY <1>4 DEF BeginVerify, TypeInv
<1>5. CASE Deliver
  BY <1>5 DEF Deliver, NewTimer
<1>6. CASE RunFri
  BY <1>6 DEF RunFri, TypeInv, telemetryVars, runVars
<1>7. CASE Tick
  BY <1>7 DEF Tick, TypeInv, runVars
<1>8. CASE Refuse \/ EmitFails \/ EmitArtifact \/ Reread
  BY <1>8 DEF Refuse, EmitFails, EmitArtifact, Reread, TypeInv, runVars
<1>9. CASE GitCommit \/ PackRefs \/ ReadHead \/ ReadRef \/ ReadPackedRefs
  BY <1>9 DEF GitCommit, PackRefs, ReadHead, ReadRef, ReadPackedRefs, TypeInv, runVars
<1> QED  BY <1>1, <1>2, <1>3, <1>4, <1>5, <1>6, <1>7, <1>8, <1>9 DEF TelemetryNext

\* Git and those who read of it stay within the commits there are.
LEMMA GitTyped ==
  ASSUME TypeInv, TelemetryNext
  PROVE  /\ git' \in [head : 0 .. MaxCommits, loose : 0 .. MaxCommits, packed : 0 .. MaxCommits]
         /\ read' \in 0 .. MaxCommits /\ tips' \subseteq 0 .. MaxCommits
<1> DEFINE S == 0 .. MaxCommits
<1>1. /\ MaxCommits \in Nat /\ 0 \in S /\ read \in S /\ tips \subseteq S
      /\ git \in [head : S, loose : S, packed : S]
  BY TelemetryAssumption DEF TypeInv
<1>2. \A k \in S : k < MaxCommits => k + 1 \in S
  BY <1>1
<1> HIDE DEF S
<1>3. git.head \in S /\ git.loose \in S /\ git.packed \in S /\ Tip \in S
  BY <1>1 DEF Tip
<1>4. CASE GitCommit
  <2>1. Tip + 1 \in S
    BY <1>2, <1>3, <1>4 DEF GitCommit
  <2> QED  BY <1>1, <1>4, <2>1 DEF GitCommit, S
<1>5. CASE PackRefs
  BY <1>1, <1>3, <1>5 DEF PackRefs, S
<1>6. CASE ReadHead \/ ReadRef \/ ReadPackedRefs
  BY <1>1, <1>3, <1>6 DEF ReadHead, ReadRef, ReadPackedRefs, S
<1>7. CASE Deliver
  BY <1>1, <1>7 DEF Deliver, NoGit, S
<1>8. CASE UNCHANGED <<git, read, tips>>
  BY <1>1, <1>8 DEF S
<1>9. CASE RunFri
  BY <1>8, <1>9 DEF RunFri, telemetryVars
<1>10. CASE Tick \/ Refuse \/ BeginProving \/ BeginFri \/ Serialize \/ BeginVerify \/ FinishVerify
              \/ EmitFails \/ EmitArtifact \/ Reread
  BY <1>8, <1>10 DEF Tick, Refuse, BeginProving, BeginFri, Serialize, BeginVerify, FinishVerify,
                     EmitFails, EmitArtifact, Reread
<1> QED  BY <1>4, <1>5, <1>6, <1>7, <1>9, <1>10 DEF TelemetryNext

\* The verdict is one, and words are numbers.
LEMMA VerdictAndWordsTyped ==
  ASSUME TypeInv, FriInv, TelemetryNext
  PROVE  verdict' \in BOOLEAN /\ words' \in Seq(Nat)
<1>1. CASE Serialize
  <2>1. phase = "proved" /\ words' = EncodeFriProof(proof) /\ UNCHANGED verdict
    BY <1>1 DEF Serialize
  <2>2. words' \in Seq(Nat)
    BY <2>1, WordsTyped
  <2> QED  BY <2>1, <2>2 DEF TypeInv
<1>2. CASE FinishVerify
  BY <1>2 DEF FinishVerify, TypeInv
<1>3. CASE UNCHANGED <<verdict, words>>
  BY <1>3 DEF TypeInv
<1>4. CASE RunFri
  BY <1>3, <1>4 DEF RunFri, telemetryVars, runVars
<1>5. CASE Tick \/ Refuse \/ BeginProving \/ BeginFri \/ BeginVerify \/ EmitFails \/ EmitArtifact
             \/ Deliver \/ Reread
  BY <1>3, <1>5 DEF Tick, Refuse, BeginProving, BeginFri, BeginVerify, EmitFails, EmitArtifact,
                    Deliver, Reread, runVars
<1>6. CASE GitCommit \/ PackRefs \/ ReadHead \/ ReadRef \/ ReadPackedRefs
  BY <1>3, <1>6 DEF GitCommit, PackRefs, ReadHead, ReadRef, ReadPackedRefs, runVars
<1> QED  BY <1>1, <1>2, <1>4, <1>5, <1>6 DEF TelemetryNext

\* Every step keeps the types.
LEMMA TypeStep == ClientInv /\ RunInv /\ TypeInv /\ [Next]_vars => TypeInv'
<1> SUFFICES ASSUME ClientInv, RunInv, TypeInv, [Next]_vars PROVE TypeInv'
  OBVIOUS
<1>1. CASE UNCHANGED vars
  BY <1>1 DEF TypeInv, IsQuotient, vars, friVars, deepVars, telemetryVars, runVars
<1>2. CASE Next
  <2>1. phase' = "idle" => nqueries' = 0
    BY <1>2, NeverIdleAgain DEF TypeInv
  <2>2. IsQuotient(quotient)'
    BY <1>2, QuotientStays DEF IsQuotient
  <2>3. CASE UNCHANGED telemetryVars
    BY <2>1, <2>2, <2>3 DEF TypeInv, telemetryVars, runVars
  <2>4. CASE TelemetryNext
    <3>1. Timed /\ FriInv
      BY DEF RunInv, ClientInv
    <3>2. /\ stage' \notin {"setup", "proving"} => timer'.active = <<>>
          /\ stage' # "verifying" => vtimer'.active = <<>>
      BY <2>4, <3>1, StacksTyped
    <3>3. clock' \in 0 .. MaxClock
      BY <2>4, ClockTyped
    <3>4. /\ git' \in [head : 0 .. MaxCommits, loose : 0 .. MaxCommits, packed : 0 .. MaxCommits]
          /\ read' \in 0 .. MaxCommits /\ tips' \subseteq 0 .. MaxCommits
      BY <2>4, GitTyped
    <3>5. verdict' \in BOOLEAN /\ words' \in Seq(Nat)
      BY <2>4, <3>1, VerdictAndWordsTyped
    <3> QED  BY <2>1, <2>2, <3>2, <3>3, <3>4, <3>5 DEF TypeInv
  <2> QED  BY <1>2, <2>3, <2>4 DEF Next, PlainFri
<1> QED  BY <1>1, <1>2

-----------------------------------------------------------------------------
\* Type correctness.

\* Powers of two divide into powers of two.
LEMMA PowerQuotient ==
  ASSUME NEW K \in 0 .. 30, NEW k \in 0 .. K
  PROVE  Two(K) \div Two(k) = Two(K - k)
<1> DEFINE S == {j \in Nat : j <= K => Two(K) = Two(K - j) * Two(j)}
<1>1. 0 \in S
  <2>1. Two(0) = 1 /\ Two(K) \in Nat /\ K - 0 = K
    BY PowersOfTwo
  <2>2. Two(K) = Two(K - 0) * Two(0)
    BY <2>1
  <2> QED  BY <2>2
<1>2. ASSUME NEW j \in Nat, j \in S PROVE j + 1 \in S
  <2> SUFFICES ASSUME j + 1 <= K PROVE Two(K) = Two(K - (j + 1)) * Two(j + 1)
    OBVIOUS
  <2>1. /\ K - j \in 0 .. 30 /\ K - j > 0 /\ (K - j) - 1 = K - (j + 1) /\ K - (j + 1) \in 0 .. 30
        /\ j + 1 \in 0 .. 30 /\ j + 1 > 0 /\ (j + 1) - 1 = j /\ j \in 0 .. 30
    OBVIOUS
  <2>2. /\ Two(K - j) = 2 * Two(K - (j + 1)) /\ Two(K - (j + 1)) \in Nat
        /\ Two(j + 1) = 2 * Two(j) /\ Two(j) \in Nat
    BY <2>1, PowersOfTwo
  <2>3. Two(K) = Two(K - j) * Two(j)
    BY <1>2, <2>1
  <2> DEFINE a == Two(K - (j + 1))
             b == Two(j)
  <2>4. Two(K) = (2 * a) * b /\ a \in Nat /\ b \in Nat /\ Two(j + 1) = 2 * b
    BY <2>2, <2>3
  <2> HIDE DEF a, b
  <2>5. (2 * a) * b = a * (2 * b)
    BY <2>4
  <2> QED  BY <2>4, <2>5 DEF a
<1> HIDE DEF S
<1>3. \A j \in Nat : j \in S
  BY <1>1, <1>2, Induct
<1>4. k \in Nat /\ k <= K /\ k \in 0 .. 30 /\ K - k \in 0 .. 30
  OBVIOUS
<1>5. Two(K) = Two(K - k) * Two(k)
  BY <1>3, <1>4 DEF S
<1> DEFINE a == Two(K - k)
           b == Two(k)
           c == Two(K)
<1>6. a \in Nat /\ b \in Nat /\ b > 0 /\ c = a * b
  BY <1>4, <1>5, PowersOfTwo
<1> HIDE DEF a, b, c
<1>7. c = b * a + 0 /\ c \in Int
  BY <1>6
<1>8. c \div b = a
  BY <1>6, <1>7, DivUnique
<1> QED  BY <1>8 DEF a, b, c

\* FRI's part of the types.
LEMMA FriIsTyped ==
  ASSUME FriInv, TypeInv
  PROVE  /\ \A r \in DOMAIN layers : layers[r] \in Vectors(Len(domain) \div 2^(r - 1))
         /\ Len(betas) = (IF layers = <<>> THEN 0 ELSE Len(layers) - 1)
         /\ \A q \in DOMAIN indices : indices[q] \in 0 .. (Len(domain) - 1)
         /\ Len(indices) <= nqueries
<1>1. CASE phase = "idle"
  <2>1. layers = <<>> /\ betas = <<>> /\ indices = <<>> /\ nqueries = 0
    BY <1>1 DEF FriInv, Idle, TypeInv
  <2> QED  BY <2>1
<1>2. CASE phase # "idle"
  <2>1. PICK K \in 0 .. 30 : FriTyped(K)
    BY <1>2 DEF FriInv
  <2>2. /\ layers \in Seq(Seq(Elements)) /\ Len(layers) \in 1 .. (K + 1)
        /\ \A r \in 1 .. Len(layers) : layers[r] \in Layer(K, r)
        /\ Len(betas) = Len(layers) - 1 /\ Len(indices) <= nqueries
        /\ indices \in Seq(0 .. (Two(K) - 1))
    BY <2>1 DEF FriTyped
  <2>3. Len(domain) = Two(K)
    <3>1. domain \in [1 .. Two(K) -> Elements \ {0}] /\ Two(K) \in Nat
      BY <2>1, PowersOfTwo DEF FriTyped, Points
    <3> QED  BY <3>1
  <2>4. ASSUME NEW r \in DOMAIN layers PROVE layers[r] \in Vectors(Len(domain) \div 2^(r - 1))
    <3>0. r \in 1 .. Len(layers)
      BY <2>2
    <3>1. r \in 1 .. Len(layers) /\ r - 1 \in 0 .. K /\ K - (r - 1) \in 0 .. 30
      <4>1. PICK n : n = Len(layers) /\ n \in 1 .. (K + 1) /\ r \in 1 .. n
        BY <2>2, <3>0
      <4>2. \A k \in 0 .. 30 : \A m \in 1 .. (k + 1) : \A i \in 1 .. m :
              i - 1 \in 0 .. k /\ k - (i - 1) \in 0 .. 30
        OBVIOUS
      <4>3. r - 1 \in 0 .. K /\ K - (r - 1) \in 0 .. 30
        BY <4>1, <4>2, Zenon
      <4> QED  BY <3>0, <4>3
    <3>2. Two(K) \div Two(r - 1) = Two(K - (r - 1))
      BY <3>1, PowerQuotient
    <3>3. layers[r] \in Vectors(Two(K - (r - 1)))
      BY <2>2, <3>1 DEF Layer
    <3>4. 2^(r - 1) = Two(r - 1)
      BY DEF Two
    <3> QED  BY <2>3, <3>2, <3>3, <3>4
  <2>5. layers # <<>>
    BY <2>2
  <2>6. ASSUME NEW q \in DOMAIN indices PROVE indices[q] \in 0 .. (Len(domain) - 1)
    <3> DEFINE S == 0 .. (Two(K) - 1)
    <3>1. indices \in Seq(S)
      BY <2>2
    <3> HIDE DEF S
    <3>2. indices[q] \in S
      BY <3>1
    <3> QED  BY <2>3, <3>2 DEF S
  <2> QED  BY <2>2, <2>4, <2>5, <2>6
<1> QED  BY <1>1, <1>2

\* The stacks are no deeper than the prover's two phases.
LEMMA StacksAreShallow ==
  ASSUME Timed, TypeInv
  PROVE  Len(timer.active) <= 2 /\ Len(vtimer.active) <= 1
<1>1. Len(timer.active) <= 2
  <2>1. CASE stage \in {"setup", "proving"}
    <3>1. \E x, y : timer.active = <<x, y>>
      BY <2>1 DEF Timed
    <3>2. Len(timer.active) = 2
      BY <3>1, TwoRun
    <3> QED  BY <3>2
  <2>2. CASE stage \notin {"setup", "proving"}
    BY <2>2 DEF TypeInv
  <2> QED  BY <2>1, <2>2
<1>2. Len(vtimer.active) <= 1
  <2>1. CASE stage = "verifying"
    <3>1. \E x : vtimer.active = <<x>>
      BY <2>1 DEF Timed
    <3>2. Len(vtimer.active) = 1
      BY <3>1, TwoRun
    <3> QED  BY <3>2
  <2>2. CASE stage # "verifying"
    BY <2>2 DEF TypeInv
  <2> QED  BY <2>1, <2>2
<1> QED  BY <1>1, <1>2

\* The invariants together give the checked types.
LEMMA TypesHold == ClientInv /\ RunInv /\ AccountInv /\ TypeInv => TypeOK
<1> SUFFICES ASSUME ClientInv, RunInv, AccountInv, TypeInv PROVE TypeOK
  OBVIOUS
<1>1. FriInv /\ Timed
  BY DEF ClientInv, RunInv
<1>2. phase \in {"idle", "committing", "proved"} /\ \A t \in DOMAIN fs : fs[t] \in Elements
  BY <1>1 DEF FriInv
<1>3. /\ \A r \in DOMAIN layers : layers[r] \in Vectors(Len(domain) \div 2^(r - 1))
      /\ Len(betas) = (IF layers = <<>> THEN 0 ELSE Len(layers) - 1)
      /\ \A q \in DOMAIN indices : indices[q] \in 0 .. (Len(domain) - 1)
      /\ Len(indices) <= nqueries
  BY <1>1, FriIsTyped
<1>4. /\ \A k \in DOMAIN quotient : quotient[k] \in Elements
      /\ quotient # <<>> => quotient[Len(quotient)] # 0
  BY DEF TypeInv, IsQuotient
<1>5. \A side \in Sides : acc[side] \in [bits_consumed : Nat, bits_remaining : Int, round : Nat]
  BY DEF AccountInv, Account
<1>6. /\ clock \in 0 .. MaxClock /\ verdict \in BOOLEAN
      /\ read \in 0 .. MaxCommits /\ tips \subseteq 0 .. MaxCommits
  BY DEF TypeInv
<1>7. Len(timer.active) <= 2 /\ Len(vtimer.active) <= 1
  BY <1>1, StacksAreShallow
<1>8. \A i \in DOMAIN words : words[i] \in Nat
  BY DEF TypeInv
<1> QED  BY <1>2, <1>3, <1>4, <1>5, <1>6, <1>7, <1>8 DEF TypeOK

\* FRI, its pipelines and a telemetry run are well typed, for every prime
\* field, request, job, batch and clock: each layer has half the values of
\* the one before, queries lie in the domain, no timer is left running, and
\* every word of a proof is a number.
THEOREM TypeCorrect == Spec => []TypeOK
<1>1. Spec => []ClientInv
  BY ClientsGiveTypedInput
<1>2. Spec => []AccountInv
  BY InitAccount, StepAccount, PTL DEF Spec
<1>3. Spec => []RunInv
  BY <1>1, RunInitially, RunStep, PTL DEF Spec
<1>4. Spec => []TypeInv
  BY <1>1, <1>3, TypeInitially, TypeStep, PTL DEF Spec
<1> QED  BY <1>1, <1>2, <1>3, <1>4, TypesHold, PTL

-----------------------------------------------------------------------------
\* The field as a ring, through the numbers its elements are residues of.

\* An element is its own residue.
LEMMA OwnResidue == \A a \in Elements : a \in Int /\ a % P = a
BY FieldAssumption DEF Elements

\* The operations on residues are the residues of the operations.
LEMMA Residues ==
  ASSUME NEW a \in Int, NEW b \in Int
  PROVE  /\ Plus(a % P, b % P) = (a + b) % P
         /\ Times(a % P, b % P) = (a * b) % P
         /\ Minus(a % P, b % P) = (a - b) % P
         /\ a % P \in Elements
<1> DEFINE p == a \div P
           q == b \div P
           r == a % P
           s == b % P
<1>1. p \in Int /\ q \in Int /\ r \in Int /\ s \in Int /\ a = P * p + r /\ b = P * q + s /\ r \in Elements
  BY DivMod, ElementsAreNat
<1> HIDE DEF p, q, r, s
<1>2. \A PP, pp, qq, rr, ss \in Int :
         /\ rr + ss = ((PP * pp + rr) + (PP * qq + ss)) + (-(pp + qq)) * PP
         /\ rr - ss = ((PP * pp + rr) - (PP * qq + ss)) + (qq - pp) * PP
         /\ rr * ss = ((PP * pp + rr) * (PP * qq + ss)) + (-(pp * qq * PP + pp * ss + qq * rr)) * PP
  OBVIOUS
<1>3. P \in Int
  BY ElementsAreNat
<1>4. /\ r + s = (a + b) + (-(p + q)) * P
      /\ r - s = (a - b) + (q - p) * P
      /\ r * s = (a * b) + (-(p * q * P + p * s + q * r)) * P
  BY <1>1, <1>2, <1>3
<1>5. /\ r + s \in Int /\ r - s \in Int /\ r * s \in Int /\ a + b \in Int /\ a - b \in Int /\ a * b \in Int
      /\ -(p + q) \in Int /\ q - p \in Int /\ -(p * q * P + p * s + q * r) \in Int
  BY <1>1, <1>3
<1>6. (r + s) % P = (a + b) % P
  BY <1>4, <1>5, SameMod
<1>7. (r - s) % P = (a - b) % P
  BY <1>4, <1>5, SameMod
<1>8. (r * s) % P = (a * b) % P
  BY <1>4, <1>5, SameMod
<1> QED  BY <1>1, <1>6, <1>7, <1>8 DEF r, s, Plus, Times, Minus

\* The laws of a ring.
LEMMA Ring ==
  ASSUME NEW a \in Elements, NEW b \in Elements, NEW c \in Elements
  PROVE  /\ Plus(a, b) = Plus(b, a) /\ Plus(Plus(a, b), c) = Plus(a, Plus(b, c))
         /\ Times(a, b) = Times(b, a) /\ Times(Times(a, b), c) = Times(a, Times(b, c))
         /\ Times(a, Plus(b, c)) = Plus(Times(a, b), Times(a, c))
         /\ Times(a, Minus(b, c)) = Minus(Times(a, b), Times(a, c))
         /\ Plus(0, a) = a /\ Plus(a, 0) = a /\ Minus(a, 0) = a /\ Minus(a, a) = 0
         /\ Times(0, a) = 0 /\ Times(a, 0) = 0 /\ Times(1, a) = a /\ Times(a, 1) = a
         /\ Plus(Minus(a, b), b) = a /\ Minus(Plus(a, b), b) = a
         /\ (Minus(a, b) = 0 <=> a = b)
<1>1. a \in Int /\ b \in Int /\ c \in Int /\ a % P = a /\ b % P = b /\ c % P = c /\ 0 % P = 0 /\ 1 % P = 1
  BY OwnResidue, ZeroOne
<1>2. /\ Plus(a, b) = (a + b) % P /\ Plus(b, a) = (b + a) % P /\ Times(a, b) = (a * b) % P /\ Times(b, a) = (b * a) % P
      /\ Plus(b, c) = (b + c) % P /\ Times(b, c) = (b * c) % P /\ Minus(b, c) = (b - c) % P /\ Times(a, c) = (a * c) % P
      /\ Minus(a, b) = (a - b) % P
  BY DEF Plus, Times, Minus
<1>3. /\ a + b \in Int /\ b + c \in Int /\ a * b \in Int /\ b * c \in Int /\ b - c \in Int /\ a * c \in Int /\ a - b \in Int
  BY <1>1
<1>4. a + b = b + a /\ a * b = b * a
  BY <1>1
<1>5. Plus(Plus(a, b), c) = ((a + b) + c) % P /\ Plus(a, Plus(b, c)) = (a + (b + c)) % P
  BY <1>1, <1>2, <1>3, Residues, SMTT(30)
<1>6. Times(Times(a, b), c) = ((a * b) * c) % P /\ Times(a, Times(b, c)) = (a * (b * c)) % P
  <2>1. Times(Times(a, b), c) = ((a * b) * c) % P
    BY <1>1, <1>2, <1>3, Residues, SMTT(30)
  <2>2. Times(a, Times(b, c)) = (a * (b * c)) % P
    BY <1>1, <1>2, <1>3, Residues, SMTT(30)
  <2> QED  BY <2>1, <2>2
<1>7. Times(a, Plus(b, c)) = (a * (b + c)) % P /\ Plus(Times(a, b), Times(a, c)) = ((a * b) + (a * c)) % P
  BY <1>1, <1>2, <1>3, Residues, SMTT(30)
<1>8. Times(a, Minus(b, c)) = (a * (b - c)) % P /\ Minus(Times(a, b), Times(a, c)) = ((a * b) - (a * c)) % P
  BY <1>1, <1>2, <1>3, Residues, SMTT(30)
<1>9. Plus(Minus(a, b), b) = ((a - b) + b) % P /\ Minus(Plus(a, b), b) = ((a + b) - b) % P
  BY <1>1, <1>2, <1>3, Residues, SMTT(30)
<1>10. /\ (a + b) + c = a + (b + c) /\ (a * b) * c = a * (b * c) /\ a * (b + c) = (a * b) + (a * c)
       /\ a * (b - c) = (a * b) - (a * c) /\ (a - b) + b = a /\ (a + b) - b = a
  BY <1>1
<1>11. /\ 0 + a = a /\ a + 0 = a /\ a - 0 = a /\ a - a = 0 /\ 0 * a = 0 /\ a * 0 = 0 /\ 1 * a = a /\ a * 1 = a
  BY <1>1
<1>12. Minus(a, b) = 0 => a = b
  <2> SUFFICES ASSUME Minus(a, b) = 0 PROVE a = b
    OBVIOUS
  <2>1. Plus(0, b) = (0 + b) % P /\ 0 + b = b
    BY <1>1 DEF Plus
  <2> QED  BY <1>1, <1>9, <1>10, <2>1
<1>13. Minus(a, a) = 0
  BY <1>1, <1>11 DEF Minus
<1>14. /\ Plus(0, a) = a /\ Plus(a, 0) = a /\ Minus(a, 0) = a
       /\ Times(0, a) = 0 /\ Times(a, 0) = 0 /\ Times(1, a) = a /\ Times(a, 1) = a
  BY <1>1, <1>11 DEF Plus, Minus, Times
<1>15. Plus(a, b) = Plus(b, a) /\ Times(a, b) = Times(b, a)
  BY <1>2, <1>4
<1> QED  BY <1>1, <1>5, <1>6, <1>7, <1>8, <1>9, <1>10, <1>12, <1>13, <1>14, <1>15

-----------------------------------------------------------------------------
\* Sums and products over vectors, by their parts.

FirstPart(s, k) == [j \in 1 .. k |-> s[j]]
SumTo(s, k) == Total(FirstPart(s, k))
ProductTo(s, k) == Product(FirstPart(s, k))

\* The recursion of sums defines what it says.
LEMMA TotalIs ==
  ASSUME NEW n \in Nat, NEW s \in Vectors(n)
  PROVE  \E t \in [0 .. n -> Elements] :
           t[0] = 0 /\ Total(s) = t[n] /\ \A k \in 1 .. n : t[k] = Plus(t[k - 1], s[k])
<1> DEFINE F == [k \in 1 .. n |-> [v \in Elements |-> Plus(v, s[k])]]
<1>1. s \in [1 .. n -> Elements] /\ Len(s) = n
  <2>1. s \in [1 .. n -> Elements]
    BY DEF Vectors
  <2> QED  BY <2>1
<1>2. \A k \in 1 .. n, v \in Elements : Plus(v, s[k]) \in Elements
  BY <1>1, Typed
<1>3. F \in [1 .. n -> [Elements -> Elements]]
  BY <1>2
<1>4. \A k \in 1 .. n, v \in Elements : F[k][v] = Plus(v, s[k])
  OBVIOUS
<1> HIDE DEF F
<1>5. PICK t : Iterates(n, Elements, 0, F, t)
  BY <1>3, ZeroOne, Recursion
<1>6. t \in [0 .. n -> Elements] /\ t[0] = 0 /\ \A k \in 1 .. n : t[k] = Plus(t[k - 1], s[k])
  <2>1. t \in [0 .. n -> Elements] /\ t[0] = 0 /\ \A k \in 1 .. n : t[k] = F[k][t[k - 1]]
    BY <1>5 DEF Iterates
  <2>2. ASSUME NEW k \in 1 .. n PROVE t[k] = Plus(t[k - 1], s[k])
    <3>1. k - 1 \in 0 .. n
      OBVIOUS
    <3>2. t[k - 1] \in Elements
      BY <2>1, <3>1
    <3> QED  BY <1>4, <2>1, <3>2
  <2> QED  BY <2>1, <2>2
<1>7. t = [k \in 0 .. n |-> IF k = 0 THEN 0 ELSE Plus(t[k - 1], s[k])]
  BY <1>6
<1>8. PICK u : /\ u = [k \in 0 .. n |-> IF k = 0 THEN 0 ELSE Plus(u[k - 1], s[k])]
               /\ Total(s) = u[n]
  BY <1>1, <1>7 DEF Total
<1>9. u[0] = 0 /\ \A k \in 1 .. n : u[k] = Plus(u[k - 1], s[k])
  <2>1. u[0] = 0
    BY <1>8
  <2>2. ASSUME NEW k \in 1 .. n PROVE u[k] = Plus(u[k - 1], s[k])
    BY <1>8
  <2> QED  BY <2>1, <2>2
<1>10. \A k \in 0 .. n : u[k] \in Elements
  <2>1. u[0] \in Elements
    BY <1>9, ZeroOne
  <2>2. \A k \in 1 .. n : u[k - 1] \in Elements => u[k] \in Elements
    BY <1>2, <1>9
  <2> QED  BY <2>1, <2>2, Stays
<1>11. u \in [0 .. n -> Elements]
  BY <1>8, <1>10
<1> QED  BY <1>8, <1>9, <1>11

\* So does that of products.
LEMMA ProductIs ==
  ASSUME NEW n \in Nat, NEW s \in Vectors(n)
  PROVE  \E t \in [0 .. n -> Elements] :
           t[0] = 1 /\ Product(s) = t[n] /\ \A k \in 1 .. n : t[k] = Times(t[k - 1], s[k])
<1> DEFINE F == [k \in 1 .. n |-> [v \in Elements |-> Times(v, s[k])]]
<1>1. s \in [1 .. n -> Elements] /\ Len(s) = n
  <2>1. s \in [1 .. n -> Elements]
    BY DEF Vectors
  <2> QED  BY <2>1
<1>2. \A k \in 1 .. n, v \in Elements : Times(v, s[k]) \in Elements
  BY <1>1, Typed
<1>3. F \in [1 .. n -> [Elements -> Elements]]
  BY <1>2
<1>4. \A k \in 1 .. n, v \in Elements : F[k][v] = Times(v, s[k])
  OBVIOUS
<1> HIDE DEF F
<1>5. PICK t : Iterates(n, Elements, 1, F, t)
  BY <1>3, ZeroOne, Recursion
<1>6. t \in [0 .. n -> Elements] /\ t[0] = 1 /\ \A k \in 1 .. n : t[k] = Times(t[k - 1], s[k])
  <2>1. t \in [0 .. n -> Elements] /\ t[0] = 1 /\ \A k \in 1 .. n : t[k] = F[k][t[k - 1]]
    BY <1>5 DEF Iterates
  <2>2. ASSUME NEW k \in 1 .. n PROVE t[k] = Times(t[k - 1], s[k])
    <3>1. k - 1 \in 0 .. n
      OBVIOUS
    <3>2. t[k - 1] \in Elements
      BY <2>1, <3>1
    <3> QED  BY <1>4, <2>1, <3>2
  <2> QED  BY <2>1, <2>2
<1>7. t = [k \in 0 .. n |-> IF k = 0 THEN 1 ELSE Times(t[k - 1], s[k])]
  BY <1>6
<1>8. PICK u : /\ u = [k \in 0 .. n |-> IF k = 0 THEN 1 ELSE Times(u[k - 1], s[k])]
               /\ Product(s) = u[n]
  BY <1>1, <1>7 DEF Product
<1>9. u[0] = 1 /\ \A k \in 1 .. n : u[k] = Times(u[k - 1], s[k])
  <2>1. u[0] = 1
    BY <1>8
  <2>2. ASSUME NEW k \in 1 .. n PROVE u[k] = Times(u[k - 1], s[k])
    BY <1>8
  <2> QED  BY <2>1, <2>2
<1>10. \A k \in 0 .. n : u[k] \in Elements
  <2>1. u[0] \in Elements
    BY <1>9, ZeroOne
  <2>2. \A k \in 1 .. n : u[k - 1] \in Elements => u[k] \in Elements
    BY <1>2, <1>9
  <2> QED  BY <2>1, <2>2, Stays
<1>11. u \in [0 .. n -> Elements]
  BY <1>8, <1>10
<1> QED  BY <1>8, <1>9, <1>11

\* The first values of a vector.
LEMMA FrontIs ==
  ASSUME NEW n \in Nat, NEW s \in Vectors(n)
  PROVE  /\ FirstPart(s, n) = s
         /\ \A k \in 0 .. n : FirstPart(s, k) \in Vectors(k) /\ \A j \in 1 .. k : FirstPart(s, k)[j] = s[j]
<1>1. s \in [1 .. n -> Elements]
  BY DEF Vectors
<1>2. FirstPart(s, n) = s
  BY <1>1 DEF FirstPart
<1>3. ASSUME NEW k \in 0 .. n
      PROVE  FirstPart(s, k) \in Vectors(k) /\ \A j \in 1 .. k : FirstPart(s, k)[j] = s[j]
  <2>1. \A j \in 1 .. k : s[j] \in Elements
    BY <1>1
  <2> QED  BY <2>1 DEF FirstPart, Vectors
<1> QED  BY <1>2, <1>3

\* A sum grows by one value after another.
LEMMA Sums ==
  ASSUME NEW n \in Nat, NEW s \in Vectors(n)
  PROVE  /\ SumTo(s, 0) = 0 /\ SumTo(s, n) = Total(s)
         /\ \A k \in 0 .. n : SumTo(s, k) \in Elements
         /\ \A k \in 1 .. n : SumTo(s, k) = Plus(SumTo(s, k - 1), s[k])
<1>1. PICK t \in [0 .. n -> Elements] :
        t[0] = 0 /\ Total(s) = t[n] /\ \A k \in 1 .. n : t[k] = Plus(t[k - 1], s[k])
  BY TotalIs
<1>2. ASSUME NEW k \in 0 .. n PROVE SumTo(s, k) = t[k]
  <2>1. k \in Nat /\ FirstPart(s, k) \in Vectors(k) /\ \A j \in 1 .. k : FirstPart(s, k)[j] = s[j]
    BY FrontIs
  <2>2. PICK u \in [0 .. k -> Elements] :
          u[0] = 0 /\ Total(FirstPart(s, k)) = u[k] /\ \A j \in 1 .. k : u[j] = Plus(u[j - 1], FirstPart(s, k)[j])
    BY <2>1, TotalIs
  <2> DEFINE S == {j \in 0 .. k : u[j] = t[j]}
  <2>3. 0 \in S
    BY <1>1, <2>2
  <2>4. \A j \in 1 .. k : j - 1 \in S => j \in S
    <3> TAKE j \in 1 .. k
    <3> HAVE j - 1 \in S
    <3>1. j \in 1 .. n /\ j \in 0 .. k
      OBVIOUS
    <3>2. u[j] = Plus(u[j - 1], s[j]) /\ t[j] = Plus(t[j - 1], s[j]) /\ u[j - 1] = t[j - 1]
      BY <1>1, <2>1, <2>2, <3>1
    <3> QED  BY <3>1, <3>2
  <2> HIDE DEF S
  <2>5. \A j \in 0 .. k : j \in S
    BY <2>1, <2>3, <2>4, Up
  <2>6. k \in S
    BY <2>5
  <2> QED  BY <2>2, <2>6 DEF S, SumTo
<1>3. 0 \in 0 .. n /\ n \in 0 .. n
  OBVIOUS
<1>4. ASSUME NEW k \in 1 .. n PROVE SumTo(s, k) = Plus(SumTo(s, k - 1), s[k])
  <2>1. k \in 0 .. n /\ k - 1 \in 0 .. n
    OBVIOUS
  <2>2. SumTo(s, k) = t[k] /\ SumTo(s, k - 1) = t[k - 1]
    BY <1>2, <2>1
  <2> QED  BY <1>1, <2>2
<1>5. \A k \in 0 .. n : SumTo(s, k) \in Elements
  BY <1>1, <1>2
<1> QED  BY <1>1, <1>2, <1>3, <1>4, <1>5

\* A product grows by one factor after another.
LEMMA Products ==
  ASSUME NEW n \in Nat, NEW s \in Vectors(n)
  PROVE  /\ ProductTo(s, 0) = 1 /\ ProductTo(s, n) = Product(s)
         /\ \A k \in 0 .. n : ProductTo(s, k) \in Elements
         /\ \A k \in 1 .. n : ProductTo(s, k) = Times(ProductTo(s, k - 1), s[k])
<1>1. PICK t \in [0 .. n -> Elements] :
        t[0] = 1 /\ Product(s) = t[n] /\ \A k \in 1 .. n : t[k] = Times(t[k - 1], s[k])
  BY ProductIs
<1>2. ASSUME NEW k \in 0 .. n PROVE ProductTo(s, k) = t[k]
  <2>1. k \in Nat /\ FirstPart(s, k) \in Vectors(k) /\ \A j \in 1 .. k : FirstPart(s, k)[j] = s[j]
    BY FrontIs
  <2>2. PICK u \in [0 .. k -> Elements] :
          u[0] = 1 /\ Product(FirstPart(s, k)) = u[k] /\ \A j \in 1 .. k : u[j] = Times(u[j - 1], FirstPart(s, k)[j])
    BY <2>1, ProductIs
  <2> DEFINE S == {j \in 0 .. k : u[j] = t[j]}
  <2>3. 0 \in S
    BY <1>1, <2>2
  <2>4. \A j \in 1 .. k : j - 1 \in S => j \in S
    <3> TAKE j \in 1 .. k
    <3> HAVE j - 1 \in S
    <3>1. j \in 1 .. n /\ j \in 0 .. k
      OBVIOUS
    <3>2. u[j] = Times(u[j - 1], s[j]) /\ t[j] = Times(t[j - 1], s[j]) /\ u[j - 1] = t[j - 1]
      BY <1>1, <2>1, <2>2, <3>1
    <3> QED  BY <3>1, <3>2
  <2> HIDE DEF S
  <2>5. \A j \in 0 .. k : j \in S
    BY <2>1, <2>3, <2>4, Up
  <2>6. k \in S
    BY <2>5
  <2> QED  BY <2>2, <2>6 DEF S, ProductTo
<1>3. 0 \in 0 .. n /\ n \in 0 .. n
  OBVIOUS
<1>4. ASSUME NEW k \in 1 .. n PROVE ProductTo(s, k) = Times(ProductTo(s, k - 1), s[k])
  <2>1. k \in 0 .. n /\ k - 1 \in 0 .. n
    OBVIOUS
  <2>2. ProductTo(s, k) = t[k] /\ ProductTo(s, k - 1) = t[k - 1]
    BY <1>2, <2>1
  <2> QED  BY <1>1, <2>2
<1>5. \A k \in 0 .. n : ProductTo(s, k) \in Elements
  BY <1>1, <1>2
<1>6. ProductTo(s, n) = Product(s)
  BY FrontIs DEF ProductTo
<1> QED  BY <1>1, <1>2, <1>3, <1>4, <1>5, <1>6

\* A sum of multiples grows by a multiple of the sum.
LEMMA CombineStep ==
  ASSUME NEW s \in Elements, NEW t \in Elements, NEW a \in Elements, NEW b \in Elements, NEW c \in Elements
  PROVE  Plus(Plus(s, Times(c, t)), Plus(a, Times(c, b))) = Plus(Plus(s, a), Times(c, Plus(t, b)))
<1>1. /\ s \in Int /\ s % P = s
      /\ t \in Int /\ t % P = t
      /\ a \in Int /\ a % P = a
      /\ b \in Int /\ b % P = b
      /\ c \in Int /\ c % P = c
  BY OwnResidue, ZeroOne
<1>2. /\ c * t \in Int /\ Times(c, t) = (c * t) % P
      /\ c * b \in Int /\ Times(c, b) = (c * b) % P
      /\ s + a \in Int /\ Plus(s, a) = (s + a) % P
      /\ t + b \in Int /\ Plus(t, b) = (t + b) % P
  BY <1>1, Residues, SMTT(30)
<1>3. /\ s + (c * t) \in Int /\ Plus(s, Times(c, t)) = (s + (c * t)) % P
      /\ a + (c * b) \in Int /\ Plus(a, Times(c, b)) = (a + (c * b)) % P
      /\ c * (t + b) \in Int /\ Times(c, Plus(t, b)) = (c * (t + b)) % P
  BY <1>1, <1>2, Residues, SMTT(30)
<1>4. (s + (c * t)) + (a + (c * b)) \in Int /\ Plus(Plus(s, Times(c, t)), Plus(a, Times(c, b))) = ((s + (c * t)) + (a + (c * b))) % P
  BY <1>1, <1>3, Residues, SMTT(30)
<1>5. (s + a) + (c * (t + b)) \in Int /\ Plus(Plus(s, a), Times(c, Plus(t, b))) = ((s + a) + (c * (t + b))) % P
  BY <1>1, <1>2, <1>3, Residues, SMTT(30)
<1>6. /\ (s + (c * t)) + (a + (c * b)) = (s + a) + (c * (t + b))
  BY <1>1
<1> QED  BY <1>4, <1>5, <1>6


\* The sum of the values of one vector and a multiple of another's.
LEMMA TotalCombines ==
  ASSUME NEW n \in Nat, NEW s \in Vectors(n), NEW t \in Vectors(n), NEW u \in Vectors(n), NEW c \in Elements,
         \A k \in 1 .. n : u[k] = Plus(s[k], Times(c, t[k]))
  PROVE  Total(u) = Plus(Total(s), Times(c, Total(t)))
<1>1. \A k \in 1 .. n : s[k] \in Elements /\ t[k] \in Elements /\ u[k] \in Elements
  BY DEF Vectors
<1>2. /\ SumTo(s, 0) = 0 /\ SumTo(s, n) = Total(s)
      /\ \A k \in 0 .. n : SumTo(s, k) \in Elements
      /\ \A k \in 1 .. n : SumTo(s, k) = Plus(SumTo(s, k - 1), s[k])
  BY Sums
<1>3. /\ SumTo(t, 0) = 0 /\ SumTo(t, n) = Total(t)
      /\ \A k \in 0 .. n : SumTo(t, k) \in Elements
      /\ \A k \in 1 .. n : SumTo(t, k) = Plus(SumTo(t, k - 1), t[k])
  BY Sums
<1>4. /\ SumTo(u, 0) = 0 /\ SumTo(u, n) = Total(u)
      /\ \A k \in 1 .. n : SumTo(u, k) = Plus(SumTo(u, k - 1), u[k])
  BY Sums
<1> DEFINE S == {k \in 0 .. n : SumTo(u, k) = Plus(SumTo(s, k), Times(c, SumTo(t, k)))}
<1>5. 0 \in S
  <2>1. Times(c, 0) = 0 /\ Plus(0, 0) = 0
    BY Ring, ZeroOne
  <2> QED  BY <1>2, <1>3, <1>4, <2>1
<1>6. \A k \in 1 .. n : k - 1 \in S => k \in S
  <2> TAKE k \in 1 .. n
  <2> HAVE k - 1 \in S
  <2>1. k \in 0 .. n /\ k - 1 \in 0 .. n
    OBVIOUS
  <2> DEFINE a == SumTo(s, k - 1)
             b == SumTo(t, k - 1)
  <2>2. a \in Elements /\ b \in Elements /\ s[k] \in Elements /\ t[k] \in Elements
    BY <1>1, <1>2, <1>3, <2>1
  <2>3. SumTo(u, k) = Plus(Plus(a, Times(c, b)), Plus(s[k], Times(c, t[k])))
    BY <1>4
  <2>4. SumTo(s, k) = Plus(a, s[k]) /\ SumTo(t, k) = Plus(b, t[k])
    BY <1>2, <1>3
  <2> HIDE DEF a, b
  <2>5. SumTo(u, k) = Plus(Plus(a, s[k]), Times(c, Plus(b, t[k])))
    BY <2>2, <2>3, CombineStep
  <2> QED  BY <2>1, <2>4, <2>5
<1> HIDE DEF S
<1>7. \A k \in 0 .. n : k \in S
  BY <1>5, <1>6, Up
<1>8. n \in S
  BY <1>7
<1> QED  BY <1>2, <1>3, <1>4, <1>8 DEF S

\* The sum of a vector that is zero all over but perhaps in one place.
LEMMA TotalSingle ==
  ASSUME NEW n \in Nat, NEW s \in Vectors(n), NEW i \in 1 .. n,
         \A k \in 1 .. n : k # i => s[k] = 0
  PROVE  Total(s) = s[i]
<1>1. /\ SumTo(s, 0) = 0 /\ SumTo(s, n) = Total(s)
      /\ \A k \in 1 .. n : SumTo(s, k) = Plus(SumTo(s, k - 1), s[k])
  BY Sums
<1>2. s[i] \in Elements
  BY DEF Vectors
<1> DEFINE S == {k \in 0 .. n : SumTo(s, k) = IF k < i THEN 0 ELSE s[i]}
<1>3. 0 \in S
  BY <1>1
<1>4. \A k \in 1 .. n : k - 1 \in S => k \in S
  <2> TAKE k \in 1 .. n
  <2> HAVE k - 1 \in S
  <2>1. Plus(0, 0) = 0 /\ Plus(0, s[i]) = s[i] /\ Plus(s[i], 0) = s[i]
    BY <1>2, Ring, ZeroOne
  <2>2. CASE k < i
    BY <1>1, <2>1, <2>2
  <2>3. CASE k = i
    BY <1>1, <2>1, <2>3
  <2>4. CASE k > i
    BY <1>1, <2>1, <2>4
  <2> QED  BY <2>2, <2>3, <2>4
<1> HIDE DEF S
<1>5. n \in S
  BY <1>3, <1>4, Up
<1> QED  BY <1>1, <1>5 DEF S

\* The sum of zeros.
LEMMA TotalZero ==
  ASSUME NEW n \in Nat, NEW s \in Vectors(n), \A k \in 1 .. n : s[k] = 0
  PROVE  Total(s) = 0
<1>1. CASE n = 0
  BY <1>1, Sums
<1>2. CASE n # 0
  BY <1>2, TotalSingle
<1> QED  BY <1>1, <1>2

\* Powers, by their exponents.
LEMMA PowerIs ==
  ASSUME NEW a \in Elements, NEW n \in Nat
  PROVE  Power(a, 0) = 1 /\ Power(a, n + 1) = Times(a, Power(a, n))
<1> DEFINE Good(p, m) == /\ p[0] = 1 /\ \A k \in 1 .. m : p[k] = Times(a, p[k - 1])
                         /\ Power(a, m) = p[m]
<1>1. ASSUME NEW m \in Nat PROVE \E p : Good(p, m)
  <2> DEFINE F == [k \in 1 .. m |-> [v \in Elements |-> Times(a, v)]]
  <2>1. F \in [1 .. m -> [Elements -> Elements]]
    BY Typed
  <2>2. \A k \in 1 .. m, v \in Elements : F[k][v] = Times(a, v)
    OBVIOUS
  <2> HIDE DEF F
  <2>3. PICK t : Iterates(m, Elements, 1, F, t)
    BY <2>1, ZeroOne, Recursion
  <2>4. t \in [0 .. m -> Elements] /\ t[0] = 1 /\ \A k \in 1 .. m : t[k] = Times(a, t[k - 1])
    BY <2>2, <2>3 DEF Iterates
  <2>5. t = [k \in 0 .. m |-> IF k = 0 THEN 1 ELSE Times(a, t[k - 1])]
    BY <2>4
  <2>6. PICK p : /\ p = [k \in 0 .. m |-> IF k = 0 THEN 1 ELSE Times(a, p[k - 1])]
                 /\ Power(a, m) = p[m]
    BY <2>5 DEF Power
  <2>7. p[0] = 1
    BY <2>6
  <2>8. ASSUME NEW k \in 1 .. m PROVE p[k] = Times(a, p[k - 1])
    BY <2>6
  <2> QED  BY <2>6, <2>7, <2>8
<1>2. PICK p : Good(p, n)
  BY <1>1
<1>3. PICK q : Good(q, n + 1)
  BY <1>1
<1> DEFINE S == {k \in 0 .. n : p[k] = q[k]}
<1>4. 0 \in S
  BY <1>2, <1>3
<1>5. \A k \in 1 .. n : k - 1 \in S => k \in S
  BY <1>2, <1>3
<1>6. n \in S
  <2> HIDE DEF S
  <2> QED  BY <1>4, <1>5, Up
<1>7. Power(a, 0) = 1
  <2>1. PICK r : Good(r, 0)
    BY <1>1
  <2> QED  BY <2>1
<1> QED  BY <1>2, <1>3, <1>6, <1>7

-----------------------------------------------------------------------------
\* The value of a polynomial.

\* The value at x of the polynomial with coefficients p, as the sum of its terms.
Terms(p, x) == [k \in DOMAIN p |-> Times(p[k], Power(x, k - 1))]
At(p, x) == Total(Terms(p, x))
AtTo(p, x, k) == SumTo(Terms(p, x), k)

\* The terms of a polynomial and the sums of the first ones.
LEMMA TermsAre ==
  ASSUME NEW n \in Nat, NEW p \in Vectors(n), NEW x \in Elements
  PROVE  /\ Terms(p, x) \in Vectors(n)
         /\ \A k \in 1 .. n : /\ p[k] \in Elements /\ Power(x, k - 1) \in Elements
                              /\ Terms(p, x)[k] = Times(p[k], Power(x, k - 1))
         /\ AtTo(p, x, 0) = 0 /\ AtTo(p, x, n) = At(p, x) /\ At(p, x) \in Elements
         /\ \A k \in 0 .. n : AtTo(p, x, k) \in Elements
         /\ \A k \in 1 .. n : AtTo(p, x, k) = Plus(AtTo(p, x, k - 1), Times(p[k], Power(x, k - 1)))
<1>1. DOMAIN p = 1 .. n
  BY DEF Vectors
<1>2. ASSUME NEW k \in 1 .. n
      PROVE  /\ p[k] \in Elements /\ Power(x, k - 1) \in Elements
             /\ Times(p[k], Power(x, k - 1)) \in Elements
             /\ Terms(p, x)[k] = Times(p[k], Power(x, k - 1))
  <2>1. p[k] \in Elements /\ k - 1 \in Nat
    BY DEF Vectors
  <2>2. Power(x, k - 1) \in Elements
    BY <2>1, PowerTyped
  <2> QED  BY <1>1, <2>1, <2>2, Typed DEF Terms
<1>3. Terms(p, x) \in Vectors(n)
  BY <1>1, <1>2 DEF Terms, Vectors
<1>4. /\ SumTo(Terms(p, x), 0) = 0 /\ SumTo(Terms(p, x), n) = Total(Terms(p, x))
      /\ \A k \in 0 .. n : SumTo(Terms(p, x), k) \in Elements
      /\ \A k \in 1 .. n : SumTo(Terms(p, x), k) = Plus(SumTo(Terms(p, x), k - 1), Terms(p, x)[k])
  BY <1>3, Sums
<1>5. n \in 0 .. n
  OBVIOUS
<1> QED  BY <1>2, <1>3, <1>4, <1>5 DEF AtTo, At

\* One step of Horner's rule.
LEMMA HornerStep ==
  ASSUME NEW a \in Elements, NEW c \in Elements, NEW u \in Elements, NEW w \in Elements, NEW x \in Elements
  PROVE  Plus(Times(Plus(Times(a, x), c), w), u) = Plus(Times(a, Times(x, w)), Plus(u, Times(c, w)))
<1>1. /\ a \in Int /\ a % P = a
      /\ c \in Int /\ c % P = c
      /\ u \in Int /\ u % P = u
      /\ w \in Int /\ w % P = w
      /\ x \in Int /\ x % P = x
  BY OwnResidue, ZeroOne
<1>2. /\ a * x \in Int /\ Times(a, x) = (a * x) % P
      /\ x * w \in Int /\ Times(x, w) = (x * w) % P
      /\ c * w \in Int /\ Times(c, w) = (c * w) % P
  BY <1>1, Residues, SMTT(30)
<1>3. /\ (a * x) + c \in Int /\ Plus(Times(a, x), c) = ((a * x) + c) % P
      /\ a * (x * w) \in Int /\ Times(a, Times(x, w)) = (a * (x * w)) % P
      /\ u + (c * w) \in Int /\ Plus(u, Times(c, w)) = (u + (c * w)) % P
  BY <1>1, <1>2, Residues, SMTT(30)
<1>4. ((a * x) + c) * w \in Int /\ Times(Plus(Times(a, x), c), w) = (((a * x) + c) * w) % P
  BY <1>1, <1>3, Residues, SMTT(30)
<1>5. (((a * x) + c) * w) + u \in Int /\ Plus(Times(Plus(Times(a, x), c), w), u) = ((((a * x) + c) * w) + u) % P
  BY <1>1, <1>4, Residues, SMTT(30)
<1>6. (a * (x * w)) + (u + (c * w)) \in Int /\ Plus(Times(a, Times(x, w)), Plus(u, Times(c, w))) = ((a * (x * w)) + (u + (c * w))) % P
  BY <1>1, <1>3, Residues, SMTT(30)
<1>7. /\ (((a * x) + c) * w) + u = (a * (x * w)) + (u + (c * w))
  BY <1>1
<1> QED  BY <1>5, <1>6, <1>7


\* Horner's rule finds the value of the polynomial.
LEMMA Horner ==
  ASSUME NEW n \in Nat, NEW p \in Vectors(n), NEW x \in Elements
  PROVE  EvaluateCoeffs(p, x) = At(p, x)
<1>0. p \in [1 .. n -> Elements] /\ Len(p) = n
  BY VectorIsSeq DEF Vectors
<1> DEFINE F == [k \in 1 .. n |-> [v \in Elements |-> Plus(Times(v, x), p[n + 1 - k])]]
<1>1. ASSUME NEW k \in 1 .. n PROVE n + 1 - k \in 1 .. n /\ p[n + 1 - k] \in Elements
  BY <1>0
<1>2. F \in [1 .. n -> [Elements -> Elements]]
  BY <1>1, Typed
<1>3. \A k \in 1 .. n, v \in Elements : F[k][v] = Plus(Times(v, x), p[n + 1 - k])
  OBVIOUS
<1> HIDE DEF F
<1>4. PICK t : Iterates(n, Elements, 0, F, t)
  BY <1>2, ZeroOne, Recursion
<1>5. t \in [0 .. n -> Elements] /\ t[0] = 0 /\ \A k \in 1 .. n : t[k] = Plus(Times(t[k - 1], x), p[n + 1 - k])
  BY <1>3, <1>4 DEF Iterates
<1>6. t = [k \in 0 .. n |-> IF k = 0 THEN 0 ELSE Plus(Times(t[k - 1], x), p[n + 1 - k])]
  BY <1>5
<1>7. PICK a : /\ a = [k \in 0 .. n |-> IF k = 0 THEN 0 ELSE Plus(Times(a[k - 1], x), p[n + 1 - k])]
               /\ EvaluateCoeffs(p, x) = a[n]
  BY <1>0, <1>6 DEF EvaluateCoeffs
<1>8. a[0] = 0 /\ \A k \in 1 .. n : a[k] = Plus(Times(a[k - 1], x), p[n + 1 - k])
  <2>1. a[0] = 0
    BY <1>7
  <2>2. ASSUME NEW k \in 1 .. n PROVE a[k] = Plus(Times(a[k - 1], x), p[n + 1 - k])
    BY <1>7
  <2> QED  BY <2>1, <2>2
<1> DEFINE S == {k \in 0 .. n : /\ a[k] \in Elements
                                /\ Plus(Times(a[k], Power(x, n - k)), AtTo(p, x, n - k)) = At(p, x)}
<1>9. 0 \in S
  <2>1. n - 0 = n /\ 0 \in 0 .. n
    OBVIOUS
  <2>2. Power(x, n) \in Elements /\ At(p, x) \in Elements /\ AtTo(p, x, n) = At(p, x)
    BY PowerTyped, TermsAre
  <2>3. Times(0, Power(x, n)) = 0 /\ Plus(0, At(p, x)) = At(p, x)
    BY <2>2, Ring, ZeroOne
  <2> QED  BY <1>8, <2>1, <2>2, <2>3, ZeroOne
<1>10. \A k \in 1 .. n : k - 1 \in S => k \in S
  <2> TAKE k \in 1 .. n
  <2> HAVE k - 1 \in S
  <2> DEFINE m == n - k
             w == Power(x, m)
             u == AtTo(p, x, m)
             c == p[m + 1]
             b == a[k - 1]
  <2>1. m \in Nat /\ m + 1 \in 1 .. n /\ m \in 0 .. n /\ n - (k - 1) = m + 1 /\ n + 1 - k = m + 1 /\ (m + 1) - 1 = m /\ k \in 0 .. n
    OBVIOUS
  <2>2. b \in Elements /\ Plus(Times(b, Power(x, m + 1)), AtTo(p, x, m + 1)) = At(p, x)
    BY <2>1
  <2>3. a[k] = Plus(Times(b, x), c)
    BY <1>8, <2>1
  <2> HIDE DEF m
  <2>4. w \in Elements /\ u \in Elements /\ c \in Elements
    BY <2>1, PowerTyped, TermsAre
  <2>5. Power(x, m + 1) = Times(x, w)
    BY <2>1, PowerIs
  <2>6. AtTo(p, x, m + 1) = Plus(u, Times(c, w))
    <3>1. AtTo(p, x, m + 1) = Plus(AtTo(p, x, (m + 1) - 1), Times(p[m + 1], Power(x, (m + 1) - 1)))
      BY <2>1, TermsAre
    <3> QED  BY <2>1, <3>1
  <2>7. a[k] \in Elements
    BY <2>2, <2>3, <2>4, Typed
  <2> HIDE DEF w, u, c, b
  <2>8. Plus(Times(a[k], w), u) = At(p, x)
    BY <2>2, <2>3, <2>4, <2>5, <2>6, HornerStep
  <2> QED  BY <2>1, <2>7, <2>8 DEF m, w, u
<1>11. n \in S
  <2> HIDE DEF S
  <2> QED  BY <1>9, <1>10, Up
<1>12. a[n] \in Elements /\ Plus(Times(a[n], Power(x, n - n)), AtTo(p, x, n - n)) = At(p, x)
  BY <1>11
<1>13. n - n = 0 /\ Power(x, 0) = 1 /\ AtTo(p, x, 0) = 0
  BY PowerIs, TermsAre
<1>14. Plus(Times(a[n], 1), 0) = a[n]
  BY <1>12, Ring, ZeroOne
<1> QED  BY <1>7, <1>12, <1>13, <1>14

\* Terms of combinations.
LEMMA TermStep ==
  ASSUME NEW a \in Elements, NEW b \in Elements, NEW c \in Elements, NEW w \in Elements
  PROVE  Times(Plus(a, Times(c, b)), w) = Plus(Times(a, w), Times(c, Times(b, w)))
<1>1. /\ a \in Int /\ a % P = a
      /\ b \in Int /\ b % P = b
      /\ c \in Int /\ c % P = c
      /\ w \in Int /\ w % P = w
  BY OwnResidue, ZeroOne
<1>2. /\ c * b \in Int /\ Times(c, b) = (c * b) % P
      /\ a * w \in Int /\ Times(a, w) = (a * w) % P
      /\ b * w \in Int /\ Times(b, w) = (b * w) % P
  BY <1>1, Residues, SMTT(30)
<1>3. /\ a + (c * b) \in Int /\ Plus(a, Times(c, b)) = (a + (c * b)) % P
      /\ c * (b * w) \in Int /\ Times(c, Times(b, w)) = (c * (b * w)) % P
  BY <1>1, <1>2, Residues, SMTT(30)
<1>4. (a + (c * b)) * w \in Int /\ Times(Plus(a, Times(c, b)), w) = ((a + (c * b)) * w) % P
  BY <1>1, <1>3, Residues, SMTT(30)
<1>5. (a * w) + (c * (b * w)) \in Int /\ Plus(Times(a, w), Times(c, Times(b, w))) = ((a * w) + (c * (b * w))) % P
  BY <1>1, <1>2, <1>3, Residues, SMTT(30)
<1>6. /\ (a + (c * b)) * w = (a * w) + (c * (b * w))
  BY <1>1
<1> QED  BY <1>4, <1>5, <1>6


\* The first n coefficients of r are those of p and c times those of q.
Combines(r, p, c, q, n) == \A k \in 1 .. n : r[k] = Plus(p[k], Times(c, q[k]))

\* The value of a combination is the combination of the values.
LEMMA AtCombines ==
  ASSUME NEW n \in Nat, NEW p \in Vectors(n), NEW q \in Vectors(n), NEW r \in Vectors(n), NEW c \in Elements,
         NEW x \in Elements, Combines(r, p, c, q, n)
  PROVE  At(r, x) = Plus(At(p, x), Times(c, At(q, x)))
<1>1. Terms(p, x) \in Vectors(n) /\ Terms(q, x) \in Vectors(n) /\ Terms(r, x) \in Vectors(n)
  BY TermsAre
<1>2. \A k \in 1 .. n : Terms(r, x)[k] = Plus(Terms(p, x)[k], Times(c, Terms(q, x)[k]))
  <2> TAKE k \in 1 .. n
  <2> DEFINE w == Power(x, k - 1)
  <2>1. /\ p[k] \in Elements /\ q[k] \in Elements /\ w \in Elements
        /\ Terms(p, x)[k] = Times(p[k], w) /\ Terms(q, x)[k] = Times(q[k], w) /\ Terms(r, x)[k] = Times(r[k], w)
    BY TermsAre
  <2>2. r[k] = Plus(p[k], Times(c, q[k]))
    BY DEF Combines
  <2> HIDE DEF w
  <2> QED  BY <2>1, <2>2, TermStep
<1> QED  BY <1>1, <1>2, TotalCombines DEF At

\* A term of a multiple by a linear factor.
LEMMA LinearStep ==
  ASSUME NEW y \in Elements, NEW r \in Elements, NEW u \in Elements, NEW a \in Elements, NEW b \in Elements, NEW w \in Elements
  PROVE  Plus(Minus(y, Times(r, u)), Times(Minus(a, Times(r, b)), w)) = Minus(Plus(y, Times(a, w)), Times(r, Plus(u, Times(b, w))))
<1>1. /\ y \in Int /\ y % P = y
      /\ r \in Int /\ r % P = r
      /\ u \in Int /\ u % P = u
      /\ a \in Int /\ a % P = a
      /\ b \in Int /\ b % P = b
      /\ w \in Int /\ w % P = w
  BY OwnResidue, ZeroOne
<1>2. /\ r * u \in Int /\ Times(r, u) = (r * u) % P
      /\ r * b \in Int /\ Times(r, b) = (r * b) % P
      /\ a * w \in Int /\ Times(a, w) = (a * w) % P
      /\ b * w \in Int /\ Times(b, w) = (b * w) % P
  BY <1>1, Residues, SMTT(30)
<1>3. /\ y - (r * u) \in Int /\ Minus(y, Times(r, u)) = (y - (r * u)) % P
      /\ a - (r * b) \in Int /\ Minus(a, Times(r, b)) = (a - (r * b)) % P
      /\ y + (a * w) \in Int /\ Plus(y, Times(a, w)) = (y + (a * w)) % P
      /\ u + (b * w) \in Int /\ Plus(u, Times(b, w)) = (u + (b * w)) % P
  BY <1>1, <1>2, Residues, SMTT(30)
<1>4. (a - (r * b)) * w \in Int /\ Times(Minus(a, Times(r, b)), w) = ((a - (r * b)) * w) % P
  BY <1>1, <1>3, Residues, SMTT(30)
<1>5. (y - (r * u)) + ((a - (r * b)) * w) \in Int /\ Plus(Minus(y, Times(r, u)), Times(Minus(a, Times(r, b)), w)) = ((y - (r * u)) + ((a - (r * b)) * w)) % P
  BY <1>1, <1>3, <1>4, Residues, SMTT(30)
<1>6. r * (u + (b * w)) \in Int /\ Times(r, Plus(u, Times(b, w))) = (r * (u + (b * w))) % P
  BY <1>1, <1>3, Residues, SMTT(30)
<1>7. (y + (a * w)) - (r * (u + (b * w))) \in Int /\ Minus(Plus(y, Times(a, w)), Times(r, Plus(u, Times(b, w)))) = ((y + (a * w)) - (r * (u + (b * w)))) % P
  BY <1>1, <1>3, <1>6, Residues, SMTT(30)
<1>8. /\ (y - (r * u)) + ((a - (r * b)) * w) = (y + (a * w)) - (r * (u + (b * w)))
  BY <1>1
<1> QED  BY <1>5, <1>7, <1>8

\* A term shifted by one place.
LEMMA LinearTerm ==
  ASSUME NEW x \in Elements, NEW l \in Elements, NEW a \in Elements, NEW v \in Elements
  PROVE  Times(x, Plus(l, Times(a, v))) = Plus(Times(x, l), Times(a, Times(x, v)))
<1>1. /\ x \in Int /\ x % P = x
      /\ l \in Int /\ l % P = l
      /\ a \in Int /\ a % P = a
      /\ v \in Int /\ v % P = v
  BY OwnResidue, ZeroOne
<1>2. /\ a * v \in Int /\ Times(a, v) = (a * v) % P
      /\ x * l \in Int /\ Times(x, l) = (x * l) % P
      /\ x * v \in Int /\ Times(x, v) = (x * v) % P
  BY <1>1, Residues, SMTT(30)
<1>3. /\ l + (a * v) \in Int /\ Plus(l, Times(a, v)) = (l + (a * v)) % P
      /\ a * (x * v) \in Int /\ Times(a, Times(x, v)) = (a * (x * v)) % P
  BY <1>1, <1>2, Residues, SMTT(30)
<1>4. x * (l + (a * v)) \in Int /\ Times(x, Plus(l, Times(a, v))) = (x * (l + (a * v))) % P
  BY <1>1, <1>3, Residues, SMTT(30)
<1>5. (x * l) + (a * (x * v)) \in Int /\ Plus(Times(x, l), Times(a, Times(x, v))) = ((x * l) + (a * (x * v))) % P
  BY <1>1, <1>2, <1>3, Residues, SMTT(30)
<1>6. /\ x * (l + (a * v)) = (x * l) + (a * (x * v))
  BY <1>1
<1> QED  BY <1>4, <1>5, <1>6

\* The two terms of a linear factor.
LEMMA LinearEnd ==
  ASSUME NEW x \in Elements, NEW r \in Elements, NEW v \in Elements
  PROVE  Minus(Times(x, v), Times(r, v)) = Times(Minus(x, r), v)
<1>1. /\ x \in Int /\ x % P = x
      /\ r \in Int /\ r % P = r
      /\ v \in Int /\ v % P = v
  BY OwnResidue, ZeroOne
<1>2. /\ x * v \in Int /\ Times(x, v) = (x * v) % P
      /\ r * v \in Int /\ Times(r, v) = (r * v) % P
      /\ x - r \in Int /\ Minus(x, r) = (x - r) % P
  BY <1>1, Residues, SMTT(30)
<1>3. /\ (x * v) - (r * v) \in Int /\ Minus(Times(x, v), Times(r, v)) = ((x * v) - (r * v)) % P
      /\ (x - r) * v \in Int /\ Times(Minus(x, r), v) = ((x - r) * v) % P
  BY <1>1, <1>2, Residues, SMTT(30)
<1>4. /\ (x * v) - (r * v) = (x - r) * v
  BY <1>1
<1> QED  BY <1>3, <1>4


\* A linear factor multiplies the value.
LEMMA AtLinear ==
  ASSUME NEW n \in Nat, NEW p \in Vectors(n), NEW r \in Elements, NEW x \in Elements
  PROVE  /\ TimesLinear(p, r) \in Vectors(n + 1)
         /\ At(TimesLinear(p, r), x) = Times(Minus(x, r), At(p, x))
<1> DEFINE T == TimesLinear(p, r)
           A(k) == Coeff(p, k - 2)
           B(k) == Coeff(p, k - 1)
<1>0. p \in [1 .. n -> Elements] /\ Len(p) = n /\ DOMAIN p = 1 .. n
  BY VectorIsSeq DEF Vectors
<1>1. ASSUME NEW k \in 1 .. (n + 1)
      PROVE  /\ A(k) = (IF k = 1 THEN 0 ELSE p[k - 1]) /\ A(k) \in Elements
             /\ B(k) = (IF k = n + 1 THEN 0 ELSE p[k]) /\ B(k) \in Elements
  <2>1. (k - 2) + 1 = k - 1 /\ (k - 1) + 1 = k /\ (k - 1 \in 1 .. n <=> k # 1) /\ (k \in 1 .. n <=> k # n + 1)
    OBVIOUS
  <2> QED  BY <1>0, <2>1, ZeroOne DEF Coeff
<1>2. T = [k \in 1 .. (n + 1) |-> Minus(A(k), Times(r, B(k)))]
  BY <1>0 DEF TimesLinear
<1> HIDE DEF A, B
<1>3. T \in Vectors(n + 1) /\ \A k \in 1 .. (n + 1) : T[k] = Minus(A(k), Times(r, B(k)))
  <2>1. \A k \in 1 .. (n + 1) : Minus(A(k), Times(r, B(k))) \in Elements
    BY <1>1, Typed
  <2> QED  BY <1>2, <2>1 DEF Vectors
<1> HIDE DEF T
<1> DEFINE L(k) == IF k = 0 THEN 0 ELSE AtTo(p, x, k - 1)
           R(k) == IF k = n + 1 THEN AtTo(p, x, n) ELSE AtTo(p, x, k)
           S == {k \in 0 .. (n + 1) : AtTo(T, x, k) = Minus(Times(x, L(k)), Times(r, R(k)))}
<1>4. /\ AtTo(p, x, 0) = 0 /\ AtTo(p, x, n) = At(p, x) /\ At(p, x) \in Elements
      /\ \A k \in 0 .. n : AtTo(p, x, k) \in Elements
      /\ \A k \in 1 .. n : AtTo(p, x, k) = Plus(AtTo(p, x, k - 1), Times(p[k], Power(x, k - 1)))
  BY TermsAre
<1>5. n + 1 \in Nat /\ AtTo(T, x, 0) = 0 /\ AtTo(T, x, n + 1) = At(T, x)
      /\ \A k \in 1 .. (n + 1) : /\ Power(x, k - 1) \in Elements
                                 /\ AtTo(T, x, k) = Plus(AtTo(T, x, k - 1), Times(T[k], Power(x, k - 1)))
  <2>1. n + 1 \in Nat
    OBVIOUS
  <2> QED  BY <1>3, <2>1, TermsAre
<1>6. 0 \in S
  <2>1. L(0) = 0 /\ R(0) = 0
    BY <1>4
  <2>2. Times(x, 0) = 0 /\ Times(r, 0) = 0 /\ Minus(0, 0) = 0
    BY Ring, ZeroOne
  <2> QED  BY <1>5, <2>1, <2>2
<1>7. \A k \in 1 .. (n + 1) : k - 1 \in S => k \in S
  <2> TAKE k \in 1 .. (n + 1)
  <2> HAVE k - 1 \in S
  <2> DEFINE w == Power(x, k - 1)
             y == Times(x, L(k - 1))
             u == R(k - 1)
  <2>1. AtTo(T, x, k) = Plus(Minus(y, Times(r, u)), Times(Minus(A(k), Times(r, B(k))), w))
    BY <1>3, <1>5
  <2>2. w \in Elements /\ A(k) \in Elements /\ B(k) \in Elements
    BY <1>1, <1>5
  <2>3. L(k - 1) \in Elements /\ y \in Elements
    <3>1. k - 1 = 0 \/ (k - 1) - 1 \in 0 .. n
      OBVIOUS
    <3> QED  BY <1>4, <3>1, ZeroOne, Typed
  <2>4. u \in Elements /\ R(k) = Plus(u, Times(B(k), w))
    <3>1. u = AtTo(p, x, k - 1) /\ k - 1 \in 0 .. n
      OBVIOUS
    <3>2. CASE k = n + 1
      <4>1. Times(0, w) = 0 /\ Plus(u, 0) = u
        BY <1>4, <2>2, <3>1, Ring
      <4> QED  BY <1>1, <1>4, <3>1, <3>2, <4>1
    <3>3. CASE k # n + 1
      <4>1. k \in 1 .. n
        BY <3>3
      <4>2. B(k) = p[k]
        BY <1>1, <3>3
      <4> QED  BY <1>4, <3>1, <3>3, <4>1, <4>2
    <3> QED  BY <3>2, <3>3
  <2>5. Times(x, L(k)) = Plus(y, Times(A(k), w))
    <3>1. CASE k = 1
      <4>1. A(k) = 0 /\ L(k) = 0 /\ L(k - 1) = 0
        BY <1>1, <1>4, <3>1
      <4>2. Times(x, 0) = 0 /\ Times(0, w) = 0 /\ Plus(0, 0) = 0
        BY <2>2, Ring, ZeroOne
      <4> QED  BY <4>1, <4>2
    <3>2. CASE k # 1
      <4> DEFINE j == k - 2
                 v == Power(x, j)
                 l == AtTo(p, x, j)
      <4>1. j \in Nat /\ j + 1 = k - 1 /\ k - 1 \in 1 .. n /\ (k - 1) - 1 = j /\ j \in 0 .. n /\ k # 0 /\ k - 1 # 0
        BY <3>2
      <4>2. A(k) = p[k - 1]
        BY <1>1, <3>2
      <4>3. L(k) = AtTo(p, x, k - 1) /\ L(k - 1) = l
        BY <4>1
      <4> HIDE DEF j
      <4>4. w = Times(x, v) /\ v \in Elements
        BY <4>1, PowerIs, PowerTyped
      <4>5. AtTo(p, x, k - 1) = Plus(l, Times(A(k), v)) /\ l \in Elements
        BY <1>4, <4>1, <4>2
      <4> HIDE DEF v, l, w, L
      <4> QED  BY <2>2, <4>3, <4>4, <4>5, LinearTerm
    <3> QED  BY <3>1, <3>2
  <2>6. k \in 0 .. (n + 1)
    OBVIOUS
  <2> DEFINE a == A(k)
             b == B(k)
  <2> HIDE DEF w, y, u, a, b
  <2>7. Plus(Minus(y, Times(r, u)), Times(Minus(a, Times(r, b)), w)) = Minus(Plus(y, Times(a, w)), Times(r, Plus(u, Times(b, w))))
    <3>1. a \in Elements /\ b \in Elements /\ w \in Elements /\ y \in Elements /\ u \in Elements
      BY <2>2, <2>3, <2>4 DEF a, b
    <3> QED  BY <3>1, LinearStep
  <2> HIDE DEF L, R
  <2>8. AtTo(T, x, k) = Minus(Times(x, L(k)), Times(r, R(k)))
    BY <2>1, <2>4, <2>5, <2>7 DEF a, b
  <2> QED  BY <2>6, <2>8
<1>8. n + 1 \in S
  <2> HIDE DEF S
  <2>1. n + 1 \in Nat /\ n + 1 \in 0 .. (n + 1)
    OBVIOUS
  <2> QED  BY <1>6, <1>7, <2>1, Up
<1>9. L(n + 1) = At(p, x) /\ R(n + 1) = At(p, x)
  <2>1. (n + 1) - 1 = n /\ n + 1 # 0
    OBVIOUS
  <2> QED  BY <1>4, <2>1
<1>10. At(T, x) = Minus(Times(x, At(p, x)), Times(r, At(p, x)))
  BY <1>5, <1>8, <1>9
<1> QED  BY <1>3, <1>4, <1>10, LinearEnd DEF T

\* Products of products.
LEMMA PairStep ==
  ASSUME NEW s \in Elements, NEW t \in Elements, NEW a \in Elements, NEW b \in Elements
  PROVE  Times(Times(s, t), Times(a, b)) = Times(Times(s, a), Times(t, b))
<1>1. /\ s \in Int /\ s % P = s
      /\ t \in Int /\ t % P = t
      /\ a \in Int /\ a % P = a
      /\ b \in Int /\ b % P = b
  BY OwnResidue, ZeroOne
<1>2. /\ s * t \in Int /\ Times(s, t) = (s * t) % P
      /\ a * b \in Int /\ Times(a, b) = (a * b) % P
      /\ s * a \in Int /\ Times(s, a) = (s * a) % P
      /\ t * b \in Int /\ Times(t, b) = (t * b) % P
  BY <1>1, Residues, SMTT(30)
<1>3. /\ (s * t) * (a * b) \in Int /\ Times(Times(s, t), Times(a, b)) = ((s * t) * (a * b)) % P
      /\ (s * a) * (t * b) \in Int /\ Times(Times(s, a), Times(t, b)) = ((s * a) * (t * b)) % P
  BY <1>1, <1>2, Residues, SMTT(30)
<1>4. /\ (s * t) * (a * b) = (s * a) * (t * b)
  BY <1>1
<1> QED  BY <1>3, <1>4


\* The product of a vector with a zero, of one without, and of the products
\* of two vectors.
LEMMA ProductZero ==
  ASSUME NEW n \in Nat, NEW s \in Vectors(n), NEW i \in 1 .. n, s[i] = 0
  PROVE  Product(s) = 0
<1>1. /\ ProductTo(s, n) = Product(s)
      /\ \A k \in 0 .. n : ProductTo(s, k) \in Elements
      /\ \A k \in 1 .. n : ProductTo(s, k) = Times(ProductTo(s, k - 1), s[k]) /\ s[k] \in Elements
  BY Products DEF Vectors
<1> DEFINE S == {k \in 0 .. n : k >= i => ProductTo(s, k) = 0}
<1>2. 0 \in S
  OBVIOUS
<1>3. \A k \in 1 .. n : k - 1 \in S => k \in S
  <2> TAKE k \in 1 .. n
  <2> HAVE k - 1 \in S
  <2>1. ProductTo(s, k - 1) \in Elements
    BY <1>1
  <2>2. CASE k = i
    <3>1. Times(ProductTo(s, k - 1), 0) = 0
      BY <2>1, Ring
    <3> QED  BY <1>1, <2>2, <3>1
  <2>3. CASE k > i
    <3>1. ProductTo(s, k - 1) = 0 /\ Times(0, s[k]) = 0
      BY <1>1, <2>3, Ring
    <3> QED  BY <1>1, <3>1
  <2>4. CASE k < i
    BY <2>4
  <2> QED  BY <2>2, <2>3, <2>4
<1>4. n \in S
  <2> HIDE DEF S
  <2> QED  BY <1>2, <1>3, Up
<1> QED  BY <1>1, <1>4

\* The product of invertible values is invertible.
LEMMA ProductNonzero ==
  ASSUME NEW n \in Nat, NEW s \in Vectors(n), \A k \in 1 .. n : s[k] # 0
  PROVE  Product(s) \in Elements \ {0}
<1>1. /\ ProductTo(s, n) = Product(s) /\ ProductTo(s, 0) = 1
      /\ \A k \in 1 .. n : ProductTo(s, k) = Times(ProductTo(s, k - 1), s[k]) /\ s[k] \in Elements \ {0}
  BY Products DEF Vectors
<1> DEFINE S == {k \in 0 .. n : ProductTo(s, k) \in Elements \ {0}}
<1>2. 0 \in S
  BY <1>1, ZeroOne
<1>3. \A k \in 1 .. n : k - 1 \in S => k \in S
  BY <1>1, NoZeroDivisor
<1>4. n \in S
  <2> HIDE DEF S
  <2> QED  BY <1>2, <1>3, Up
<1> QED  BY <1>1, <1>4

\* The product of products is the product of the two.
LEMMA ProductOfProducts ==
  ASSUME NEW n \in Nat, NEW s \in Vectors(n), NEW t \in Vectors(n), NEW u \in Vectors(n),
         \A k \in 1 .. n : u[k] = Times(s[k], t[k])
  PROVE  Product(u) = Times(Product(s), Product(t))
<1>1. /\ ProductTo(s, n) = Product(s) /\ ProductTo(s, 0) = 1
      /\ \A k \in 0 .. n : ProductTo(s, k) \in Elements
      /\ \A k \in 1 .. n : ProductTo(s, k) = Times(ProductTo(s, k - 1), s[k]) /\ s[k] \in Elements
  BY Products DEF Vectors
<1>2. /\ ProductTo(t, n) = Product(t) /\ ProductTo(t, 0) = 1
      /\ \A k \in 0 .. n : ProductTo(t, k) \in Elements
      /\ \A k \in 1 .. n : ProductTo(t, k) = Times(ProductTo(t, k - 1), t[k]) /\ t[k] \in Elements
  BY Products DEF Vectors
<1>3. /\ ProductTo(u, n) = Product(u) /\ ProductTo(u, 0) = 1
      /\ \A k \in 1 .. n : ProductTo(u, k) = Times(ProductTo(u, k - 1), u[k])
  BY Products
<1> DEFINE S == {k \in 0 .. n : ProductTo(u, k) = Times(ProductTo(s, k), ProductTo(t, k))}
<1>4. 0 \in S
  <2>1. Times(1, 1) = 1
    BY Ring, ZeroOne
  <2> QED  BY <1>1, <1>2, <1>3, <2>1
<1>5. \A k \in 1 .. n : k - 1 \in S => k \in S
  <2> TAKE k \in 1 .. n
  <2> HAVE k - 1 \in S
  <2>1. ProductTo(u, k) = Times(Times(ProductTo(s, k - 1), ProductTo(t, k - 1)), Times(s[k], t[k]))
    BY <1>3
  <2>2. /\ ProductTo(s, k - 1) \in Elements /\ ProductTo(t, k - 1) \in Elements
        /\ s[k] \in Elements /\ t[k] \in Elements
    BY <1>1, <1>2
  <2>3. ProductTo(u, k) = Times(Times(ProductTo(s, k - 1), s[k]), Times(ProductTo(t, k - 1), t[k]))
    BY <2>1, <2>2, PairStep
  <2> QED  BY <1>1, <1>2, <2>3
<1>6. n \in S
  <2> HIDE DEF S
  <2> QED  BY <1>4, <1>5, Up
<1> QED  BY <1>1, <1>2, <1>3, <1>6

\* The value of a sum of multiples of polynomials is that of the values.
LEMMA AtTotal ==
  ASSUME NEW n \in Nat, NEW m \in Nat, NEW B \in [1 .. m -> Vectors(n)], NEW c \in Vectors(m),
         NEW q \in Vectors(n), NEW x \in Elements,
         \A k \in 1 .. n : q[k] = Total([i \in 1 .. m |-> Times(c[i], B[i][k])])
  PROVE  /\ [i \in 1 .. m |-> Times(c[i], At(B[i], x))] \in Vectors(m)
         /\ At(q, x) = Total([i \in 1 .. m |-> Times(c[i], At(B[i], x))])
<1> DEFINE R(k) == [i \in 1 .. m |-> Times(c[i], B[i][k])]
           W == [i \in 1 .. m |-> Times(c[i], At(B[i], x))]
           Q(j) == [k \in 1 .. n |-> SumTo(R(k), j)]
<1>1. ASSUME NEW i \in 1 .. m
      PROVE  /\ c[i] \in Elements /\ B[i] \in Vectors(n) /\ At(B[i], x) \in Elements
             /\ \A k \in 1 .. n : B[i][k] \in Elements
  BY TermsAre DEF Vectors
<1>2. W \in Vectors(m) /\ \A i \in 1 .. m : W[i] = Times(c[i], At(B[i], x))
  <2>1. \A i \in 1 .. m : Times(c[i], At(B[i], x)) \in Elements
    BY <1>1, Typed
  <2> QED  BY <2>1 DEF Vectors
<1>3. ASSUME NEW k \in 1 .. n
      PROVE R(k) \in Vectors(m) /\ \A i \in 1 .. m : R(k)[i] = Times(c[i], B[i][k])
  <2>1. \A i \in 1 .. m : Times(c[i], B[i][k]) \in Elements
    BY <1>1, Typed
  <2> QED  BY <2>1 DEF Vectors
<1>4. \A k \in 1 .. n : q[k] = Total(R(k))
  OBVIOUS
<1> HIDE DEF R, W
<1>5. ASSUME NEW k \in 1 .. n
      PROVE  /\ SumTo(R(k), 0) = 0 /\ SumTo(R(k), m) = q[k]
             /\ \A j \in 0 .. m : SumTo(R(k), j) \in Elements
             /\ \A j \in 1 .. m : SumTo(R(k), j) = Plus(SumTo(R(k), j - 1), R(k)[j])
  BY <1>3, <1>4, Sums
<1>6. /\ SumTo(W, 0) = 0 /\ SumTo(W, m) = Total(W)
      /\ \A j \in 1 .. m : SumTo(W, j) = Plus(SumTo(W, j - 1), W[j])
  BY <1>2, Sums
<1>7. \A j \in 0 .. m : Q(j) \in Vectors(n) /\ \A k \in 1 .. n : Q(j)[k] = SumTo(R(k), j)
  BY <1>5 DEF Vectors
<1> HIDE DEF Q
<1> DEFINE S == {j \in 0 .. m : At(Q(j), x) = SumTo(W, j)}
<1>8. 0 \in S
  <2>1. 0 \in 0 .. m
    OBVIOUS
  <2>2. Terms(Q(0), x) \in Vectors(n) /\ \A k \in 1 .. n : Terms(Q(0), x)[k] = Times(Q(0)[k], Power(x, k - 1)) /\ Power(x, k - 1) \in Elements
    BY <1>7, <2>1, TermsAre
  <2>3. \A k \in 1 .. n : Terms(Q(0), x)[k] = 0
    <3> TAKE k \in 1 .. n
    <3>1. Q(0)[k] = SumTo(R(k), 0)
      BY <1>7, <2>1
    <3>2. SumTo(R(k), 0) = 0
      BY <1>5
    <3>3. Times(0, Power(x, k - 1)) = 0
      BY <2>2, Ring
    <3> QED  BY <2>2, <3>1, <3>2, <3>3
  <2>4. At(Q(0), x) = 0
    BY <2>2, <2>3, TotalZero DEF At
  <2> QED  BY <1>6, <2>1, <2>4
<1>9. \A j \in 1 .. m : j - 1 \in S => j \in S
  <2> TAKE j \in 1 .. m
  <2> HAVE j - 1 \in S
  <2>1. j \in 0 .. m /\ j - 1 \in 0 .. m
    OBVIOUS
  <2>2. Q(j) \in Vectors(n) /\ Q(j - 1) \in Vectors(n) /\ B[j] \in Vectors(n) /\ c[j] \in Elements
    BY <1>1, <1>7, <2>1
  <2>3. \A k \in 1 .. n : Q(j)[k] = Plus(Q(j - 1)[k], Times(c[j], B[j][k]))
    BY <1>3, <1>5, <1>7, <2>1
  <2>4. At(Q(j), x) = Plus(At(Q(j - 1), x), Times(c[j], At(B[j], x)))
    <3> DEFINE qq == Q(j)
               pp == Q(j - 1)
               bb == B[j]
               cc == c[j]
    <3>1. qq \in Vectors(n) /\ pp \in Vectors(n) /\ bb \in Vectors(n) /\ cc \in Elements
      BY <2>2
    <3>2. Combines(qq, pp, cc, bb, n)
      BY <2>3 DEF Combines
    <3> HIDE DEF qq, pp, bb, cc
    <3>3. At(qq, x) = Plus(At(pp, x), Times(cc, At(bb, x)))
      BY <3>1, <3>2, AtCombines
    <3> QED  BY <3>3 DEF qq, pp, bb, cc
  <2> QED  BY <1>2, <1>6, <2>1, <2>4
<1>10. m \in S
  <2> HIDE DEF S
  <2> QED  BY <1>8, <1>9, Up
<1>11. Q(m) = q
  <2>1. m \in 0 .. m
    OBVIOUS
  <2>2. \A k \in 1 .. n : Q(m)[k] = q[k]
    BY <1>5, <1>7, <2>1
  <2> QED  BY <1>7, <2>1, <2>2 DEF Vectors
<1>12. At(q, x) = Total(W)
  BY <1>6, <1>10, <1>11
<1> QED  BY <1>2, <1>12 DEF W

-----------------------------------------------------------------------------
\* Interpolation over 0 .. n-1.

\* The factors of the i-th Lagrange polynomial at x.
Factors(n, i, x) == [j \in 1 .. n |-> IF j - 1 = i THEN 1 ELSE Minus(x, j - 1)]

\* The points are elements, and the factors typed.
LEMMA FactorsAre ==
  ASSUME NEW n \in Nat, n <= P, NEW i \in 0 .. (n - 1), NEW x \in Elements
  PROVE  /\ \A j \in 1 .. n : j - 1 \in Elements
         /\ i \in Elements
         /\ Factors(n, i, x) \in Vectors(n)
         /\ \A j \in 1 .. n : Factors(n, i, x)[j] = IF j - 1 = i THEN 1 ELSE Minus(x, j - 1)
<1>1. \A j \in 1 .. n : j - 1 \in Elements
  BY ElementsAreNat DEF Elements
<1>2. i \in Elements
  BY ElementsAreNat DEF Elements
<1>3. \A j \in 1 .. n : (IF j - 1 = i THEN 1 ELSE Minus(x, j - 1)) \in Elements
  BY <1>1, Typed, ZeroOne
<1> QED  BY <1>1, <1>2, <1>3 DEF Factors, Vectors

\* The i-th basis polynomial takes the product of the factors.
LEMMA BasisIs ==
  ASSUME NEW n \in Nat, n <= P, NEW i \in 0 .. (n - 1)
  PROVE  /\ LagrangeBasis(n, i) \in Vectors(n)
         /\ \A x \in Elements : At(LagrangeBasis(n, i), x) = Product(Factors(n, i, x))
<1> DEFINE V == UNION {Vectors(m) : m \in Nat}
           F == [k \in 1 .. n |-> [v \in V |-> IF k - 1 = i THEN v ELSE TimesLinear(v, k - 1)]]
           Size(k) == IF k <= i THEN k + 1 ELSE k
<1>0. \A j \in 1 .. n : j - 1 \in Elements
  BY FactorsAre, ZeroOne
<1>1. ASSUME NEW r \in Elements, NEW v \in V PROVE TimesLinear(v, r) \in V
  <2>1. PICK m \in Nat : v \in Vectors(m)
    OBVIOUS
  <2>2. TimesLinear(v, r) \in Vectors(m + 1) /\ m + 1 \in Nat
    BY <2>1, AtLinear, ZeroOne
  <2> QED  BY <2>2
<1>2. <<1>> \in Vectors(1) /\ <<1>> \in V
  <2>1. <<1>> \in Vectors(1)
    BY ZeroOne DEF Vectors
  <2> QED  BY <2>1
<1>3. F \in [1 .. n -> [V -> V]]
  <2> HIDE DEF V
  <2> QED  BY <1>0, <1>1
<1>4. \A k \in 1 .. n, v \in V : F[k][v] = IF k - 1 = i THEN v ELSE TimesLinear(v, k - 1)
  <2> HIDE DEF V
  <2> QED  OBVIOUS
<1> HIDE DEF F
<1>5. PICK t : Iterates(n, V, <<1>>, F, t)
  <2> HIDE DEF V
  <2> QED  BY <1>2, <1>3, Recursion
<1>6. /\ t[0] = <<1>> /\ t \in [0 .. n -> V]
      /\ \A k \in 1 .. n : t[k] = IF k - 1 = i THEN t[k - 1] ELSE TimesLinear(t[k - 1], k - 1)
  <2> HIDE DEF V
  <2> QED  BY <1>4, <1>5 DEF Iterates
<1>7. t = [j \in 0 .. n |-> IF j = 0 THEN <<1>>
                            ELSE IF j - 1 = i THEN t[j - 1] ELSE TimesLinear(t[j - 1], j - 1)]
  <2> HIDE DEF V
  <2>1. \A j \in 0 .. n : t[j] = IF j = 0 THEN <<1>>
                            ELSE IF j - 1 = i THEN t[j - 1] ELSE TimesLinear(t[j - 1], j - 1)
    <3> TAKE j \in 0 .. n
    <3>1. CASE j = 0
      BY <1>6, <3>1
    <3>2. CASE j # 0
      <4>1. j \in 1 .. n
        BY <3>2
      <4>2. t[j] = IF j - 1 = i THEN t[j - 1] ELSE TimesLinear(t[j - 1], j - 1)
        BY <1>6, <4>1
      <4> QED  BY <3>2, <4>2
    <3> QED  BY <3>1, <3>2
  <2> QED  BY <1>6, <2>1
<1>8. PICK s : /\ s = [j \in 0 .. n |-> IF j = 0 THEN <<1>>
                                 ELSE IF j - 1 = i THEN s[j - 1] ELSE TimesLinear(s[j - 1], j - 1)]
               /\ LagrangeBasis(n, i) = s[n]
  BY <1>7 DEF LagrangeBasis
<1>9. /\ s[0] = <<1>>
      /\ \A k \in 1 .. n : s[k] = IF k - 1 = i THEN s[k - 1] ELSE TimesLinear(s[k - 1], k - 1)
  <2>1. s[0] = <<1>>
    BY <1>8
  <2>2. ASSUME NEW k \in 1 .. n PROVE s[k] = IF k - 1 = i THEN s[k - 1] ELSE TimesLinear(s[k - 1], k - 1)
    BY <1>8
  <2> QED  BY <2>1, <2>2
<1> HIDE DEF V
<1> DEFINE S == {k \in 0 .. n : /\ s[k] \in Vectors(Size(k))
                                /\ \A x \in Elements : At(s[k], x) = ProductTo(Factors(n, i, x), k)}
<1>10. 0 \in S
  <2>1. Size(0) = 1 /\ 0 \in 0 .. n
    OBVIOUS
  <2>2. ASSUME NEW x \in Elements PROVE At(<<1>>, x) = ProductTo(Factors(n, i, x), 0)
    <3>1. ProductTo(Factors(n, i, x), 0) = 1
      BY FactorsAre, Products
    <3>2. Terms(<<1>>, x) \in Vectors(1) /\ Terms(<<1>>, x)[1] = Times(1, Power(x, 0))
      <4>1. Terms(<<1>>, x) \in Vectors(1) /\ Terms(<<1>>, x)[1] = Times(<<1>>[1], Power(x, 1 - 1))
        BY <1>2, TermsAre
      <4> QED  BY <4>1
    <3>3. Times(1, Power(x, 0)) = 1
      BY PowerIs, Ring, ZeroOne
    <3>4. Total(Terms(<<1>>, x)) = Terms(<<1>>, x)[1]
      BY <3>2, TotalSingle
    <3> QED  BY <3>1, <3>2, <3>3, <3>4 DEF At
  <2> QED  BY <1>2, <1>9, <2>1, <2>2
<1>11. \A k \in 1 .. n : k - 1 \in S => k \in S
  <2> TAKE k \in 1 .. n
  <2> HAVE k - 1 \in S
  <2>1. k \in 0 .. n /\ k - 1 \in Elements /\ Size(k - 1) \in Nat
    BY <1>0
  <2>2. s[k - 1] \in Vectors(Size(k - 1)) /\ \A x \in Elements : At(s[k - 1], x) = ProductTo(Factors(n, i, x), k - 1)
    OBVIOUS
  <2>3. ASSUME NEW x \in Elements
        PROVE  /\ ProductTo(Factors(n, i, x), k - 1) \in Elements
               /\ ProductTo(Factors(n, i, x), k) = Times(ProductTo(Factors(n, i, x), k - 1), Factors(n, i, x)[k])
               /\ Factors(n, i, x)[k] = IF k - 1 = i THEN 1 ELSE Minus(x, k - 1)
    <3>1. Factors(n, i, x) \in Vectors(n) /\ Factors(n, i, x)[k] = IF k - 1 = i THEN 1 ELSE Minus(x, k - 1)
      BY FactorsAre
    <3> HIDE DEF S
    <3>2. k - 1 \in 0 .. n
      OBVIOUS
    <3> QED  BY <3>1, <3>2, Products
  <2>4. CASE k - 1 = i
    <3>1. Size(k) = Size(k - 1) /\ s[k] = s[k - 1]
      BY <1>9, <2>4
    <3>2. ASSUME NEW x \in Elements PROVE At(s[k], x) = ProductTo(Factors(n, i, x), k)
      <4>1. ProductTo(Factors(n, i, x), k) = Times(ProductTo(Factors(n, i, x), k - 1), 1)
        BY <2>3, <2>4
      <4>2. Times(ProductTo(Factors(n, i, x), k - 1), 1) = ProductTo(Factors(n, i, x), k - 1)
        BY <2>3, Ring
      <4> QED  BY <2>2, <3>1, <4>1, <4>2
    <3> QED  BY <2>1, <2>2, <3>1, <3>2
  <2>5. CASE k - 1 # i
    <3>1. Size(k) = Size(k - 1) + 1 /\ s[k] = TimesLinear(s[k - 1], k - 1)
      BY <1>9, <2>5
    <3>2. s[k] \in Vectors(Size(k))
      BY <2>1, <2>2, <3>1, AtLinear, ZeroOne
    <3>3. ASSUME NEW x \in Elements PROVE At(s[k], x) = ProductTo(Factors(n, i, x), k)
      <4>1. At(s[k], x) = Times(Minus(x, k - 1), At(s[k - 1], x))
        BY <2>1, <2>2, <3>1, AtLinear
      <4>2. ProductTo(Factors(n, i, x), k) = Times(At(s[k - 1], x), Minus(x, k - 1))
        BY <2>2, <2>3, <2>5
      <4>3. At(s[k - 1], x) \in Elements /\ Minus(x, k - 1) \in Elements
        BY <2>1, <2>2, TermsAre, Typed
      <4> QED  BY <4>1, <4>2, <4>3, Ring
    <3> QED  BY <2>1, <3>2, <3>3
  <2> QED  BY <2>4, <2>5
<1>12. n \in S
  <2> HIDE DEF S
  <2> QED  BY <1>10, <1>11, Up
<1>13. Size(n) = n
  OBVIOUS
<1>14. ASSUME NEW x \in Elements PROVE ProductTo(Factors(n, i, x), n) = Product(Factors(n, i, x))
  BY FactorsAre, Products
<1> QED  BY <1>8, <1>12, <1>13, <1>14

\* The scale of the i-th basis polynomial is invertible.
LEMMA ScaleIs ==
  ASSUME NEW n \in Nat, n <= P, NEW i \in 0 .. (n - 1)
  PROVE  Product(Factors(n, i, i)) \in Elements \ {0}
<1>1. i \in Elements /\ \A j \in 1 .. n : j - 1 \in Elements
  BY FactorsAre, ZeroOne
<1>2. Factors(n, i, i) \in Vectors(n)
  BY <1>1, FactorsAre
<1>3. ASSUME NEW j \in 1 .. n PROVE Factors(n, i, i)[j] # 0
  <2>1. Factors(n, i, i)[j] = IF j - 1 = i THEN 1 ELSE Minus(i, j - 1)
    BY <1>1, FactorsAre
  <2>2. Minus(i, j - 1) = 0 <=> i = j - 1
    BY <1>1, Ring
  <2> QED  BY <2>1, <2>2, ZeroOne
<1> QED  BY <1>2, <1>3, ProductNonzero

\* Scaled multiples.
LEMMA ScaleStep ==
  ASSUME NEW b \in Elements, NEW t \in Elements, NEW s \in Elements
  PROVE  Times(Times(b, t), s) = Times(Times(t, s), b)
<1>1. /\ b \in Int /\ b % P = b
      /\ t \in Int /\ t % P = t
      /\ s \in Int /\ s % P = s
  BY OwnResidue, ZeroOne
<1>2. /\ b * t \in Int /\ Times(b, t) = (b * t) % P
      /\ t * s \in Int /\ Times(t, s) = (t * s) % P
  BY <1>1, Residues, SMTT(30)
<1>3. /\ (b * t) * s \in Int /\ Times(Times(b, t), s) = ((b * t) * s) % P
      /\ (t * s) * b \in Int /\ Times(Times(t, s), b) = ((t * s) * b) % P
  BY <1>1, <1>2, Residues, SMTT(30)
<1>4. /\ (b * t) * s = (t * s) * b
  BY <1>1
<1> QED  BY <1>3, <1>4


\* What the interpolation over 0 .. n-1 is at every point.
LEMMA NaiveIs ==
  ASSUME NEW n \in Nat, n <= P, NEW t \in Vectors(n), NEW x \in Elements
  PROVE  /\ InterpolateLagrangeNaive(t) \in Vectors(n)
         /\ [i \in 1 .. n |-> Times(Times(t[i], Inv(Product(Factors(n, i - 1, i - 1)))),
                                    Product(Factors(n, i - 1, x)))] \in Vectors(n)
         /\ At(InterpolateLagrangeNaive(t), x) =
              Total([i \in 1 .. n |-> Times(Times(t[i], Inv(Product(Factors(n, i - 1, i - 1)))),
                                            Product(Factors(n, i - 1, x)))])
<1> DEFINE sc(i) == Inv(Product(Factors(n, i, i)))
           c == [i \in 1 .. n |-> Times(t[i], sc(i - 1))]
           B == [i \in 1 .. n |-> LagrangeBasis(n, i - 1)]
           q == InterpolateLagrangeNaive(t)
<1>0. t \in [1 .. n -> Elements] /\ Len(t) = n
  BY VectorIsSeq DEF Vectors
<1>1. ASSUME NEW i \in 1 .. n
      PROVE  /\ i - 1 \in 0 .. (n - 1) /\ sc(i - 1) \in Elements /\ t[i] \in Elements
             /\ B[i] = LagrangeBasis(n, i - 1) /\ B[i] \in Vectors(n)
             /\ At(B[i], x) = Product(Factors(n, i - 1, x))
  <2>1. i - 1 \in 0 .. (n - 1)
    OBVIOUS
  <2>2. sc(i - 1) \in Elements
    BY <2>1, ScaleIs, InverseIs
  <2> QED  BY <1>0, <2>1, <2>2, BasisIs
<1>2. q = [k \in 1 .. n |-> Total([i \in 1 .. n |-> Times(Times(LagrangeBasis(n, i - 1)[k], t[i]), sc(i - 1))])]
  BY <1>0 DEF InterpolateLagrangeNaive, Factors
<1>3. c \in Vectors(n) /\ \A i \in 1 .. n : c[i] = Times(t[i], sc(i - 1))
  BY <1>1, Typed DEF Vectors
<1>4. B \in [1 .. n -> Vectors(n)]
  BY <1>1
<1> HIDE DEF sc, c, B
<1>5. ASSUME NEW k \in 1 .. n
      PROVE  /\ [i \in 1 .. n |-> Times(Times(LagrangeBasis(n, i - 1)[k], t[i]), sc(i - 1))]
                  = [i \in 1 .. n |-> Times(c[i], B[i][k])]
             /\ [i \in 1 .. n |-> Times(c[i], B[i][k])] \in Vectors(n)
  <2>1. ASSUME NEW i \in 1 .. n
        PROVE  /\ Times(Times(LagrangeBasis(n, i - 1)[k], t[i]), sc(i - 1)) = Times(c[i], B[i][k])
               /\ Times(c[i], B[i][k]) \in Elements
    <3>1. B[i][k] \in Elements /\ B[i][k] = LagrangeBasis(n, i - 1)[k] /\ t[i] \in Elements /\ sc(i - 1) \in Elements
      BY <1>1 DEF Vectors
    <3>2. c[i] \in Elements
      BY <1>3 DEF Vectors
    <3> DEFINE b == B[i][k]
               v == t[i]
               w == sc(i - 1)
    <3>3. b \in Elements /\ v \in Elements /\ w \in Elements /\ c[i] = Times(v, w) /\ LagrangeBasis(n, i - 1)[k] = b
      BY <1>3, <3>1
    <3> HIDE DEF b, v, w
    <3>4. Times(Times(b, v), w) = Times(Times(v, w), b) /\ Times(c[i], b) \in Elements
      BY <3>2, <3>3, ScaleStep, Typed
    <3> QED  BY <3>3, <3>4 DEF b, v, w
  <2> QED  BY <2>1 DEF Vectors
<1>6. ASSUME NEW k \in 1 .. n
      PROVE  q[k] = Total([i \in 1 .. n |-> Times(c[i], B[i][k])]) /\ q[k] \in Elements
  <2>1. q[k] = Total([i \in 1 .. n |-> Times(c[i], B[i][k])])
    BY <1>2, <1>5
  <2> DEFINE row == [i \in 1 .. n |-> Times(c[i], B[i][k])]
  <2>2. row \in Vectors(n)
    BY <1>5
  <2> HIDE DEF row
  <2>3. Total(row) \in Elements
    <3>1. SumTo(row, n) = Total(row) /\ SumTo(row, n) \in Elements
      <4>1. n \in 0 .. n
        OBVIOUS
      <4> QED  BY <2>2, <4>1, Sums
    <3> QED  BY <3>1
  <2> QED  BY <2>1, <2>3 DEF row
<1>7. q \in Vectors(n)
  BY <1>2, <1>6 DEF Vectors
<1> HIDE DEF q
<1> DEFINE W == [i \in 1 .. n |-> Times(c[i], At(B[i], x))]
<1>8. W \in Vectors(n) /\ At(q, x) = Total(W)
  BY <1>3, <1>4, <1>6, <1>7, AtTotal
<1>9. W = [i \in 1 .. n |-> Times(Times(t[i], sc(i - 1)), Product(Factors(n, i - 1, x)))]
  BY <1>1, <1>3
<1> QED  BY <1>7, <1>8, <1>9 DEF q, sc

\* A scale undone.
LEMMA ScaledBack ==
  ASSUME NEW t \in Elements, NEW s \in Elements, NEW d \in Elements
  PROVE  Times(Times(t, s), d) = Times(t, Times(d, s))
<1>1. /\ t \in Int /\ t % P = t
      /\ s \in Int /\ s % P = s
      /\ d \in Int /\ d % P = d
  BY OwnResidue, ZeroOne
<1>2. /\ t * s \in Int /\ Times(t, s) = (t * s) % P
      /\ d * s \in Int /\ Times(d, s) = (d * s) % P
  BY <1>1, Residues, SMTT(30)
<1>3. /\ (t * s) * d \in Int /\ Times(Times(t, s), d) = ((t * s) * d) % P
      /\ t * (d * s) \in Int /\ Times(t, Times(d, s)) = (t * (d * s)) % P
  BY <1>1, <1>2, Residues, SMTT(30)
<1>4. /\ (t * s) * d = t * (d * s)
  BY <1>1
<1> QED  BY <1>3, <1>4


\* The interpolation takes the given value at each of its points.
LEMMA NaiveMeets ==
  ASSUME NEW n \in Nat, n <= P, NEW t \in Vectors(n), NEW z \in 0 .. (n - 1)
  PROVE  At(InterpolateLagrangeNaive(t), z) = t[z + 1]
<1> DEFINE W == [i \in 1 .. n |-> Times(Times(t[i], Inv(Product(Factors(n, i - 1, i - 1)))),
                                        Product(Factors(n, i - 1, z)))]
<1>1. z \in Elements /\ z + 1 \in 1 .. n /\ (z + 1) - 1 = z
  BY ElementsAreNat DEF Elements
<1>2. W \in Vectors(n) /\ At(InterpolateLagrangeNaive(t), z) = Total(W)
  BY <1>1, NaiveIs
<1>3. ASSUME NEW i \in 1 .. n PROVE t[i] \in Elements /\ i - 1 \in 0 .. (n - 1) /\ i - 1 \in Elements
  BY ElementsAreNat DEF Vectors, Elements
<1>4. ASSUME NEW i \in 1 .. n, i # z + 1 PROVE W[i] = 0
  <2>1. i - 1 \in 0 .. (n - 1) /\ i - 1 # z /\ i - 1 \in Elements /\ t[i] \in Elements
    BY <1>3, <1>4
  <2>2. Factors(n, i - 1, z) \in Vectors(n) /\ Factors(n, i - 1, z)[z + 1] = Minus(z, z)
    BY <1>1, <2>1, FactorsAre
  <2>3. Minus(z, z) = 0
    BY <1>1, Ring
  <2>4. Product(Factors(n, i - 1, z)) = 0
    BY <1>1, <2>2, <2>3, ProductZero
  <2> DEFINE v == Times(t[i], Inv(Product(Factors(n, i - 1, i - 1))))
  <2>5. v \in Elements
    <3>1. Inv(Product(Factors(n, i - 1, i - 1))) \in Elements
      BY <2>1, ScaleIs, InverseIs
    <3> QED  BY <2>1, <3>1, Typed
  <2>6. W[i] = Times(v, 0)
    BY <2>4
  <2> HIDE DEF v
  <2> QED  BY <2>5, <2>6, Ring
<1>5. W[z + 1] = t[z + 1]
  <2> DEFINE d == Product(Factors(n, z, z))
  <2>1. d \in Elements \ {0}
    BY ScaleIs
  <2>2. W[z + 1] = Times(Times(t[z + 1], Inv(d)), d)
    BY <1>1
  <2> HIDE DEF d
  <2>3. Inv(d) \in Elements /\ Times(d, Inv(d)) = 1
    BY <2>1, InverseIs
  <2>4. t[z + 1] \in Elements
    BY <1>1, <1>3
  <2>5. Times(Times(t[z + 1], Inv(d)), d) = Times(t[z + 1], Times(d, Inv(d)))
    BY <2>1, <2>3, <2>4, ScaledBack
  <2>6. Times(t[z + 1], 1) = t[z + 1]
    BY <2>4, Ring
  <2> QED  BY <2>2, <2>3, <2>5, <2>6
<1> HIDE DEF W
<1>6. Total(W) = W[z + 1]
  BY <1>1, <1>2, <1>4, TotalSingle
<1> QED  BY <1>2, <1>5, <1>6

-----------------------------------------------------------------------------
\* The verdict of the batch verifier.

\* A batch that is under way or decided is one of the requests, and the
\* verdict on it is that of its links.
BatchInv ==
  /\ step \in {"batch", "batch_ok", "violated"} => deep \in BatchRequests
  /\ step = "batch_ok" => \A l \in DOMAIN deep.links : LinkResult(deep, deep.links[l]) = "ok"
  /\ step = "violated" => \E l \in DOMAIN deep.links : LinkResult(deep, deep.links[l]) = "violated"

\* The links of a batch, as the assumption has them.
LEMMA LinksAre ==
  ASSUME NEW r \in BatchRequests
  PROVE  /\ Len(r.trace) <= P /\ DOMAIN r.links \subseteq Nat
         /\ \A l \in DOMAIN r.links :
              /\ r.links[l].columns \in Seq(Nat) /\ r.links[l].shifts \in Seq(Nat)
              /\ Len(r.links[l].shifts) = Len(r.links[l].columns)
              /\ r.links[l].deep_point \in Elements /\ r.links[l].denominator \in Elements
<1> DEFINE V == [columns : Seq(Nat), shifts : Seq(Nat), deep_point : Elements,
                 numerator : Seq(Elements), denominator : Elements]
           s == r.links
<1>1. /\ s \in Seq(V) /\ Len(r.trace) <= P
      /\ \A l \in DOMAIN s : Len(s[l].shifts) = Len(s[l].columns)
  BY LinkAssumption
<1>2. \A v \in V : /\ v.columns \in Seq(Nat) /\ v.shifts \in Seq(Nat)
                   /\ v.deep_point \in Elements /\ v.denominator \in Elements
  OBVIOUS
<1> HIDE DEF V
<1>3. DOMAIN s \subseteq Nat /\ \A l \in DOMAIN s : s[l] \in V
  <2> HIDE DEF s
  <2> QED  BY <1>1
<1> QED  BY <1>1, <1>2, <1>3

\* A decision comes from the links.
LEMMA VerifyKeepsBatch ==
  ASSUME BatchInv, NEW open \in BOOLEAN, VerifyDeepBatch(open)
  PROVE  BatchInv'
<1> DEFINE bits == BitsPerBatch(Len(deep.queries))
           bad == {l \in DOMAIN deep.links : LinkResult(deep, deep.links[l]) # "ok"}
           first == CHOOSE l \in bad : \A m \in bad : l <= m
           good == \A q \in DOMAIN deep.queries : ~OutOfBounds(deep, q)
<1>1. step = "batch" /\ UNCHANGED deep /\ deep \in BatchRequests
  BY DEF VerifyDeepBatch, BatchInv
<1>2. \/ step' = "depleted"
      \/ step' = IF ~good THEN "column"
                 ELSE IF bad # {} THEN LinkResult(deep, deep.links[first])
                 ELSE IF open THEN "batch_ok" ELSE "owsl_halt"
  BY DEF VerifyDeepBatch
<1>3. bad # {} => first \in bad
  <2>1. bad \subseteq Nat
    <3>1. DOMAIN deep.links \subseteq Nat
      BY <1>1, LinksAre
    <3> QED  BY <3>1
  <2> HIDE DEF bad
  <2>2. bad # {} => \E m \in bad : \A n \in bad : m <= n
    BY <2>1, Least
  <2> QED  BY <2>2
<1>4. bad = {} => \A l \in DOMAIN deep.links : LinkResult(deep, deep.links[l]) = "ok"
  OBVIOUS
<1>5. first \in bad => /\ first \in DOMAIN deep.links
                       /\ LinkResult(deep, deep.links[first]) # "ok"
  <2> DEFINE f == first
  <2> HIDE DEF f
  <2>1. f \in bad => f \in DOMAIN deep.links /\ LinkResult(deep, deep.links[f]) # "ok"
    OBVIOUS
  <2> QED  BY <2>1 DEF f
<1>6. LinkResult(deep, deep.links[first]) \in {"column", "point", "violated", "ok"}
  BY LinkStatus
<1> HIDE DEF good, first
<1>7. step' = "batch_ok" => bad = {}
  <2> HIDE DEF bad
  <2> QED  BY <1>2, <1>6
<1>8. step' = "violated" => bad # {} /\ step' = LinkResult(deep, deep.links[first])
  <2> HIDE DEF bad
  <2> QED  BY <1>2, <1>6
<1>9. step' # "batch"
  <2> HIDE DEF bad
  <2> QED  BY <1>2, <1>6
<1>10. step' = "batch_ok" => \A l \in DOMAIN deep'.links : LinkResult(deep', deep'.links[l]) = "ok"
  BY <1>1, <1>4, <1>7
<1>11. step' = "violated" => \E l \in DOMAIN deep'.links : LinkResult(deep', deep'.links[l]) = "violated"
  <2> HIDE DEF bad
  <2> QED  BY <1>1, <1>3, <1>5, <1>8
<1>12. step' \in {"batch", "batch_ok", "violated"} => deep' \in BatchRequests
  BY <1>1
<1> QED  BY <1>10, <1>11, <1>12 DEF BatchInv

\* Nobody else decides a batch.
LEMMA BatchStep == BatchInv /\ [Next]_vars => BatchInv'
<1> SUFFICES ASSUME BatchInv, [Next]_vars PROVE BatchInv'
  OBVIOUS
<1>1. ASSUME UNCHANGED deep, UNCHANGED step PROVE BatchInv'
  BY <1>1 DEF BatchInv
<1>2. ASSUME UNCHANGED deep, step' \notin {"batch", "batch_ok", "violated"} PROVE BatchInv'
  BY <1>2 DEF BatchInv
<1>3. CASE UNCHANGED deepVars
  BY <1>1, <1>3 DEF deepVars
<1>4. CASE DeepNext
  <2>1. CASE GateDenies
    BY <1>2, <2>1 DEF GateDenies
  <2>2. CASE ComputeDeepQuotient
    <3>1. PICK ws : step' = QuotientResult(deep, ws).status
      BY <2>2 DEF ComputeDeepQuotient
    <3>2. step' \in {"quotient", "column", "interpolation", "degree"}
      BY <3>1, StatusIsNone
    <3>3. UNCHANGED deep
      BY <2>2 DEF ComputeDeepQuotient
    <3> QED  BY <1>2, <3>2, <3>3
  <2>3. CASE QuotientAbsent
    BY <1>2, <2>3 DEF QuotientAbsent
  <2>4. CASE WireFri
    BY <1>2, <2>4 DEF WireFri
  <2>5. CASE ProveFri
    BY <1>1, <2>5 DEF ProveFri, deepVars
  <2>6. CASE VerifyFri
    <3>1. step' \in {"accepted", "rejected"} /\ UNCHANGED deep
      BY <2>6 DEF VerifyFri
    <3> QED  BY <1>2, <3>1
  <2>7. CASE NextBatch
    BY <2>7 DEF NextBatch, BatchInv
  <2>8. ASSUME NEW side \in Sides, NEW bits \in Bits, Consume(side, bits) PROVE BatchInv'
    BY <1>1, <2>8 DEF Consume
  <2>9. ASSUME NEW side \in Sides, Reset(side) PROVE BatchInv'
    BY <1>1, <2>9 DEF Reset
  <2>10. ASSUME NEW open \in BOOLEAN, VerifyDeepBatch(open) PROVE BatchInv'
    BY <2>10, VerifyKeepsBatch
  <2> QED  BY <1>4, <2>1, <2>2, <2>3, <2>4, <2>5, <2>6, <2>7, <2>8, <2>9, <2>10 DEF DeepNext
<1> QED  BY <1>3, <1>4 DEF Next, PlainFri, vars

\* A batch is a request from the start.
LEMMA BatchInitially == Init => BatchInv
BY DEF Init, DeepInit, BatchInv

\* A column of a trace is a vector of its rows.
LEMMA ColumnIs ==
  ASSUME NEW trace \in Seq(Seq(Elements)), NEW w \in Nat, \A i \in DOMAIN trace : Len(trace[i]) = w,
         NEW c \in Nat, c < w
  PROVE  /\ Column(trace, c) \in Vectors(Len(trace)) /\ Len(Column(trace, c)) = Len(trace)
         /\ \A r \in 1 .. Len(trace) : Column(trace, c)[r] = trace[r][c + 1]
<1> DEFINE n == Len(trace)
           t == Column(trace, c)
<1>1. n \in Nat /\ DOMAIN trace = 1 .. n
  OBVIOUS
<1>2. t = [r \in 1 .. n |-> trace[r][c + 1]]
  BY DEF Column
<1>3. \A r \in 1 .. n : trace[r][c + 1] \in Elements
  <2> TAKE r \in 1 .. n
  <2>1. trace[r] \in Seq(Elements) /\ Len(trace[r]) = w
    OBVIOUS
  <2> DEFINE row == trace[r]
  <2>2. row \in Seq(Elements) /\ c + 1 \in 1 .. Len(row)
    BY <2>1
  <2> HIDE DEF row
  <2>3. row[c + 1] \in Elements
    BY <2>2
  <2> QED  BY <2>3 DEF row
<1> HIDE DEF t, n
<1>4. t \in [1 .. n -> Elements]
  BY <1>2, <1>3
<1>5. Len(t) = n
  BY <1>1, <1>4
<1> QED  BY <1>2, <1>4, <1>5 DEF Vectors, n, t

\* What a link between rows adds up.
Cell(trace, link, i) == trace[link.deep_point + link.shifts[i] + 1][link.columns[i] + 1]
RowSum(trace, link) == Total([i \in DOMAIN link.columns |-> Cell(trace, link, i)])

\* Shifted by k, the interpolation of a column tells the cell k rows later.
LEMMA ShiftedIsCell ==
  ASSUME NEW trace \in Seq(Seq(Elements)), NEW w \in Nat, \A i \in DOMAIN trace : Len(trace[i]) = w,
         Len(trace) <= P, NEW c \in Nat, c < w, NEW z \in Elements, NEW k \in Nat, z + k < Len(trace)
  PROVE  /\ EvaluateShifted(trace, c, z, k) = trace[z + k + 1][c + 1]
         /\ trace[z + k + 1][c + 1] \in Elements
<1> DEFINE n == Len(trace)
           t == Column(trace, c)
           y == z + k
<1>1. n \in Nat /\ z \in Nat
  BY ElementsAreNat
<1>2. t \in Vectors(n) /\ \A r \in 1 .. n : t[r] = trace[r][c + 1]
  BY ColumnIs
<1>3. y \in Nat /\ y < n /\ n <= P
  BY <1>1
<1> HIDE DEF t, n, y
<1>4. y \in 0 .. (n - 1) /\ y + 1 \in 1 .. n /\ y \in Elements
  BY <1>1, <1>3, ElementsAreNat DEF Elements
<1>5. Plus(z, k) = y
  BY <1>4, OwnResidue DEF Plus, y
<1>6. InterpolateLagrangeNaive(t) \in Vectors(n)
  BY <1>1, <1>2, <1>3, <1>4, NaiveIs
<1>7. EvaluateCoeffs(InterpolateLagrangeNaive(t), y) = At(InterpolateLagrangeNaive(t), y)
  BY <1>1, <1>4, <1>6, Horner
<1>8. At(InterpolateLagrangeNaive(t), y) = t[y + 1]
  BY <1>1, <1>2, <1>3, <1>4, NaiveMeets
<1>9. EvaluateShifted(trace, c, z, k) = t[y + 1]
  BY <1>5, <1>7, <1>8 DEF EvaluateShifted, EvaluateColumn, t
<1>10. t[y + 1] \in Elements /\ t[y + 1] = trace[y + 1][c + 1]
  BY <1>2, <1>4 DEF Vectors
<1> QED  BY <1>9, <1>10 DEF y

\* A link between rows whose columns are there is judged by its sum.
LEMMA LinkTells ==
  ASSUME NEW r \in BatchRequests, NEW l \in DOMAIN r.links, OnRows(r.trace, r.links[l]),
         LinkResult(r, r.links[l]) \in {"ok", "violated"}
  PROVE  LinkResult(r, r.links[l]) = "ok" <=> RowSum(r.trace, r.links[l]) = 0
<1> DEFINE link == r.links[l]
           trace == r.trace
           w == r.num_columns
           cols == link.columns
           shifts == link.shifts
           z == link.deep_point
           den == link.denominator
           m == Len(cols)
           evals == [i \in DOMAIN cols |-> EvaluateShifted(trace, cols[i], z, shifts[i])]
<1>1. /\ trace \in Seq(Seq(Elements)) /\ w \in Nat
      /\ \A i \in DOMAIN trace : Len(trace[i]) = w
  BY FriClientsAssumption
<1>2. /\ Len(trace) <= P /\ cols \in Seq(Nat) /\ shifts \in Seq(Nat) /\ Len(shifts) = m
      /\ z \in Elements /\ den \in Elements
  BY LinksAre
<1>3. link.numerator = <<>> /\ \A i \in DOMAIN cols : z + shifts[i] < Len(trace)
  BY DEF OnRows
<1>4. /\ \A i \in DOMAIN cols : ~(cols[i] >= w)
      /\ den # 0
      /\ LinkResult(r, link) = "ok" <=> EvaluateAirConstraint(trace, link) = 0
  BY DEF LinkResult
<1>5. EvaluateAirConstraint(trace, link) = Times(Total(evals), Inv(den))
  BY <1>3 DEF EvaluateAirConstraint
<1>6. m \in Nat /\ DOMAIN cols = 1 .. m
  BY <1>2
<1>7. ASSUME NEW i \in 1 .. m
      PROVE  /\ EvaluateShifted(trace, cols[i], z, shifts[i]) = Cell(trace, link, i)
             /\ Cell(trace, link, i) \in Elements
  <2>1. cols[i] \in Nat /\ shifts[i] \in Nat
    BY <1>2, <1>6
  <2>2. cols[i] < w
    <3> DEFINE a == cols[i]
               b == w
    <3>1. a \in Nat /\ b \in Nat /\ ~(a >= b)
      BY <1>1, <1>4, <1>6, <2>1
    <3> HIDE DEF a, b
    <3>2. a < b
      BY <3>1
    <3> QED  BY <3>2 DEF a, b
  <2>3. z + shifts[i] < Len(trace)
    BY <1>3, <1>6
  <2> DEFINE a == cols[i]
             k == shifts[i]
  <2>4. a \in Nat /\ k \in Nat /\ a < w /\ z + k < Len(trace)
    BY <2>1, <2>2, <2>3
  <2> HIDE DEF a, k, z, w, trace
  <2>5. /\ EvaluateShifted(trace, a, z, k) = trace[z + k + 1][a + 1]
        /\ trace[z + k + 1][a + 1] \in Elements
    BY <1>1, <1>2, <2>4, ShiftedIsCell
  <2> QED  BY <2>5 DEF a, k, z, trace, Cell
<1>8. evals = [i \in DOMAIN cols |-> Cell(trace, link, i)] /\ evals \in Vectors(m)
  BY <1>6, <1>7 DEF Vectors
<1>9. RowSum(trace, link) = Total(evals)
  BY <1>8 DEF RowSum
<1>10. Total(evals) \in Elements
  <2> HIDE DEF evals, m
  <2>1. m \in 0 .. m
    BY <1>6
  <2> QED  BY <1>6, <1>8, <2>1, Sums
<1> DEFINE s == Total(evals)
<1> HIDE DEF s, den
<1>11. Times(s, Inv(den)) = 0 <=> s = 0
  <2>1. Inv(den) \in Elements /\ Times(den, Inv(den)) = 1
    BY <1>2, <1>4, InverseIs
  <2>2. Inv(den) # 0
    <3>1. Times(den, 0) = 0
      BY <1>2, Ring
    <3> QED  BY <2>1, <3>1, ZeroOne
  <2>3. s \in Elements
    BY <1>10 DEF s
  <2>4. Times(0, Inv(den)) = 0
    BY <2>1, Ring
  <2> QED  BY <2>1, <2>2, <2>3, <2>4, NoZeroDivisor
<1>12. LinkResult(r, link) = "ok" <=> Times(s, Inv(den)) = 0
  BY <1>4, <1>5 DEF s, den
<1>13. RowSum(trace, link) = s
  BY <1>9 DEF s
<1> QED  BY <1>11, <1>12, <1>13

\* The invariant gives the verdict.
LEMMA BatchTells == BatchInv => BatchVerdict
<1> SUFFICES ASSUME BatchInv, step \in {"batch_ok", "violated"},
                    \A l \in DOMAIN deep.links : OnRows(deep.trace, deep.links[l])
             PROVE  step # "violated" <=> \A l \in DOMAIN deep.links : RowSum(deep.trace, deep.links[l]) = 0
  BY DEF BatchVerdict, RowSum, Cell
<1>1. deep \in BatchRequests
  BY DEF BatchInv
<1>2. CASE step = "batch_ok"
  <2>1. ASSUME NEW l \in DOMAIN deep.links PROVE RowSum(deep.trace, deep.links[l]) = 0
    <3>1. LinkResult(deep, deep.links[l]) = "ok"
      BY <1>2 DEF BatchInv
    <3>2. OnRows(deep.trace, deep.links[l])
      OBVIOUS
    <3> QED  BY <1>1, <3>1, <3>2, LinkTells
  <2> QED  BY <1>2, <2>1
<1>3. CASE step = "violated"
  <2>1. PICK l \in DOMAIN deep.links : LinkResult(deep, deep.links[l]) = "violated"
    BY <1>3 DEF BatchInv
  <2>2. OnRows(deep.trace, deep.links[l])
    OBVIOUS
  <2>3. RowSum(deep.trace, deep.links[l]) # 0
    BY <1>1, <2>1, <2>2, LinkTells
  <2> QED  BY <1>3, <2>3
<1> QED  BY <1>2, <1>3

\* The batch verifier passes links between rows exactly if every one of them
\* adds up to zero (deep_ali.rs, verify_deep_batch).
THEOREM BatchVerdictIsRight == Spec => []BatchVerdict
<1>1. Spec => []BatchInv
  BY BatchInitially, BatchStep, PTL DEF Spec
<1> QED  BY <1>1, BatchTells, PTL

-----------------------------------------------------------------------------
\* Powers and roots of unity.

\* A factor moved.
LEMMA ThreeStep ==
  ASSUME NEW a \in Elements, NEW b \in Elements, NEW c \in Elements
  PROVE  /\ Times(Times(a, b), c) = Times(b, Times(a, c))
         /\ Times(a, Times(b, c)) = Times(Times(a, b), c)
         /\ Times(a, Times(b, c)) = Times(b, Times(a, c))
<1>1. /\ a \in Int /\ a % P = a
      /\ b \in Int /\ b % P = b
      /\ c \in Int /\ c % P = c
  BY OwnResidue, ZeroOne
<1>2. /\ a * b \in Int /\ Times(a, b) = (a * b) % P
      /\ a * c \in Int /\ Times(a, c) = (a * c) % P
      /\ b * c \in Int /\ Times(b, c) = (b * c) % P
  BY <1>1, Residues, SMTT(30)
<1>3. /\ (a * b) * c \in Int /\ Times(Times(a, b), c) = ((a * b) * c) % P
      /\ b * (a * c) \in Int /\ Times(b, Times(a, c)) = (b * (a * c)) % P
      /\ a * (b * c) \in Int /\ Times(a, Times(b, c)) = (a * (b * c)) % P
  BY <1>1, <1>2, Residues, SMTT(30)
<1>4. /\ (a * b) * c = b * (a * c)
      /\ a * (b * c) = (a * b) * c
      /\ a * (b * c) = b * (a * c)
  BY <1>1
<1> QED  BY <1>3, <1>4


\* Exponents add.
LEMMA PowerAdds ==
  ASSUME NEW a \in Elements, NEW m \in Nat, NEW n \in Nat
  PROVE  Power(a, m + n) = Times(Power(a, m), Power(a, n))
<1> DEFINE S == {k \in 0 .. n : Power(a, m + k) = Times(Power(a, m), Power(a, k))}
<1>1. 0 \in S
  <2>1. m + 0 = m /\ Power(a, 0) = 1 /\ Power(a, m) \in Elements
    BY PowerIs, PowerTyped
  <2>2. Times(Power(a, m), 1) = Power(a, m)
    BY <2>1, Ring
  <2> QED  BY <2>1, <2>2
<1>2. \A k \in 1 .. n : k - 1 \in S => k \in S
  <2> TAKE k \in 1 .. n
  <2> HAVE k - 1 \in S
  <2> DEFINE j == k - 1
             b == Power(a, m)
             c == Power(a, j)
  <2>1. j \in Nat /\ j + 1 = k /\ (m + j) + 1 = m + k /\ m + j \in Nat /\ k \in 0 .. n
    OBVIOUS
  <2>2. Power(a, m + j) = Times(b, c)
    OBVIOUS
  <2> HIDE DEF j
  <2>3. Power(a, m + k) = Times(a, Power(a, m + j)) /\ Power(a, k) = Times(a, c)
    BY <2>1, PowerIs
  <2>4. b \in Elements /\ c \in Elements
    BY <2>1, PowerTyped
  <2> HIDE DEF b, c
  <2>5. Power(a, m + k) = Times(b, Power(a, k))
    BY <2>2, <2>3, <2>4, ThreeStep
  <2> QED  BY <2>1, <2>5 DEF b
<1>3. n \in S
  <2> HIDE DEF S
  <2> QED  BY <1>1, <1>2, Up
<1> QED  BY <1>3

\* Exponents multiply, and powers of one are one.
LEMMA PowerPower ==
  ASSUME NEW a \in Elements, NEW m \in Nat, NEW n \in Nat
  PROVE  Power(Power(a, m), n) = Power(a, m * n)
<1> DEFINE b == Power(a, m)
           S == {k \in 0 .. n : Power(b, k) = Power(a, m * k)}
<1>0. b \in Elements
  BY PowerTyped
<1>1. 0 \in S
  <2>1. m * 0 = 0 /\ Power(b, 0) = 1 /\ Power(a, 0) = 1
    BY <1>0, PowerIs
  <2> QED  BY <2>1
<1>2. \A k \in 1 .. n : k - 1 \in S => k \in S
  <2> TAKE k \in 1 .. n
  <2> HAVE k - 1 \in S
  <2> DEFINE j == k - 1
             e == m * j
  <2>1. j \in Nat /\ j + 1 = k /\ k \in 0 .. n
    OBVIOUS
  <2>2. e \in Nat /\ m * k = m + e
    <3>1. \A u, v \in Nat : u * v \in Nat /\ u * (v + 1) = u + u * v
      OBVIOUS
    <3> HIDE DEF j
    <3> QED  BY <2>1, <3>1
  <2>3. Power(b, j) = Power(a, e)
    OBVIOUS
  <2> HIDE DEF j, e, b
  <2>4. Power(b, k) = Times(b, Power(b, j))
    BY <1>0, <2>1, PowerIs
  <2>5. Power(a, m + e) = Times(Power(a, m), Power(a, e))
    BY <2>2, PowerAdds
  <2>6. Power(b, k) = Power(a, m * k)
    BY <2>2, <2>3, <2>4, <2>5 DEF b
  <2> QED  BY <2>1, <2>6
<1>3. n \in S
  <2> HIDE DEF S
  <2> QED  BY <1>1, <1>2, Up
<1> QED  BY <1>3

\* Powers of one.
LEMMA OneStays == \A n \in Nat : Power(1, n) = 1
<1> TAKE n \in Nat
<1>1. \A v \in {1} : Times(1, v) \in {1}
  BY Ring, ZeroOne
<1>2. Power(1, n) \in {1}
  <2> DEFINE V == {1}
  <2>1. 1 \in V /\ \A v \in V : Times(1, v) \in V
    BY <1>1
  <2> HIDE DEF V
  <2>2. Power(1, n) \in V
    BY <2>1, PowerStays
  <2> QED  BY <2>2 DEF V
<1> QED  BY <1>2

\* A factor that is not zero cancels.
LEMMA Cancels ==
  ASSUME NEW a \in Elements \ {0}, NEW b \in Elements, NEW c \in Elements, Times(a, b) = Times(a, c)
  PROVE  b = c
<1>1. Inv(a) \in Elements /\ Times(a, Inv(a)) = 1
  BY InverseIs
<1>2. Times(Inv(a), Times(a, b)) = Times(Times(a, Inv(a)), b) /\ Times(Inv(a), Times(a, c)) = Times(Times(a, Inv(a)), c)
  <2> DEFINE i == Inv(a)
  <2>1. i \in Elements /\ a \in Elements
    BY <1>1
  <2> HIDE DEF i
  <2>2. Times(i, a) = Times(a, i)
    BY <2>1, Ring
  <2>3. Times(i, Times(a, b)) = Times(Times(i, a), b) /\ Times(i, Times(a, c)) = Times(Times(i, a), c)
    BY <2>1, ThreeStep
  <2> QED  BY <2>2, <2>3 DEF i
<1>3. Times(1, b) = b /\ Times(1, c) = c
  BY Ring
<1> QED  BY <1>1, <1>2, <1>3

\* The generator has the order of the group.
LEMMA GeneratorOrder == Power(Generator, P - 1) = 1
<1> DEFINE g == Generator
           D == 0 .. (P - 1)
           V == 1 .. (P - 1)
           f == [k \in D |-> Power(g, k)]
<1>1. g \in Elements /\ g # 0 /\ P - 1 \in Nat /\ P \in Int /\ P > 2
  BY FieldAssumption DEF Elements
<1>2. Elements \ {0} = V
  BY <1>1 DEF Elements
<1>3. f \in [D -> V]
  <2>1. ASSUME NEW k \in D PROVE Power(g, k) \in V
    <3>1. k \in Nat
      OBVIOUS
    <3> HIDE DEF g
    <3>2. Power(g, k) \in Elements \ {0}
      BY <1>1, <3>1, PowerTyped
    <3> QED  BY <1>2, <3>2
  <2> QED  BY <2>1
<1>4. /\ IsFiniteSet(D) /\ Cardinality(D) = P
      /\ IsFiniteSet(V) /\ Cardinality(V) = P - 1
  <2>1. 0 \in Int /\ 1 \in Int /\ P - 1 \in Int /\ ~(0 > P - 1) /\ ~(1 > P - 1) /\ (P - 1) - 0 + 1 = P /\ (P - 1) - 1 + 1 = P - 1
    BY <1>1
  <2>2. IsFiniteSet(D) /\ Cardinality(D) = IF 0 > P - 1 THEN 0 ELSE (P - 1) - 0 + 1
    BY <2>1, FS_Interval
  <2>3. IsFiniteSet(V) /\ Cardinality(V) = IF 1 > P - 1 THEN 0 ELSE (P - 1) - 1 + 1
    BY <2>1, FS_Interval
  <2> QED  BY <2>1, <2>2, <2>3
<1>5. Cardinality(V) < Cardinality(D)
  BY <1>1, <1>4
<1>6. \E x, y \in D : x # y /\ f[x] = f[y]
  <2> HIDE DEF D, V, f
  <2> QED  BY <1>3, <1>4, <1>5, FS_PigeonHole
<1>7. \E x, y \in D : x < y /\ f[x] = f[y]
  <2>1. PICK x, y \in D : x # y /\ f[x] = f[y]
    BY <1>6
  <2>2. x < y \/ y < x
    BY <1>1, <2>1
  <2> QED  BY <2>1, <2>2
<1>8. PICK x, y \in D : x < y /\ f[x] = f[y]
  BY <1>7
<1> DEFINE k == y - x
<1>9. x \in Nat /\ k \in Nat /\ x + k = y /\ k \in 1 .. (P - 1) /\ Power(g, x) = Power(g, y)
  BY <1>1, <1>8
<1> HIDE DEF g, k
<1>10. Power(g, x + k) = Times(Power(g, x), Power(g, k))
  BY <1>1, <1>9, PowerAdds
<1>11. Power(g, x) \in Elements \ {0} /\ Power(g, k) \in Elements
  BY <1>1, <1>9, PowerTyped
<1>12. Times(Power(g, x), 1) = Power(g, x)
  BY <1>11, Ring
<1>13. Power(g, k) = 1
  BY <1>9, <1>10, <1>11, <1>12, ZeroOne, Cancels
<1>14. k \notin 1 .. (P - 2)
  BY <1>13, FieldAssumption DEF g
<1>15. k = P - 1
  BY <1>1, <1>9, <1>14
<1> QED  BY <1>13, <1>15 DEF g

\* Minus one.
MinusOne == Minus(0, 1)

\* Minus one is no one, its square is one, and it is the only other root of one.
LEMMA MinusOneIs ==
  /\ MinusOne \in Elements \ {0} /\ MinusOne # 1 /\ Times(MinusOne, MinusOne) = 1
  /\ \A x \in Elements : Times(x, x) = 1 => x = 1 \/ x = MinusOne
  /\ \A x \in Elements : Times(MinusOne, x) = Minus(0, x)
<1>1. /\ 0 \in Int /\ 1 \in Int /\ 0 % P = 0 /\ 1 % P = 1 /\ 0 - 1 \in Int
      /\ (0 - 1) * (0 - 1) = 1
  BY OwnResidue, ZeroOne
<1>2. MinusOne = (0 - 1) % P
  BY <1>1, Residues DEF MinusOne
<1>3. MinusOne \in Elements
  BY ZeroOne, Typed DEF MinusOne
<1>4. Times(MinusOne, MinusOne) = 1
  <2>1. Times((0 - 1) % P, (0 - 1) % P) = ((0 - 1) * (0 - 1)) % P
    BY <1>1, Residues, SMTT(30)
  <2> QED  BY <1>1, <1>2, <2>1
<1>5. MinusOne # 0
  <2>1. Times(0, 0) = 0
    BY Ring, ZeroOne
  <2> QED  BY <1>4, <2>1, ZeroOne
<1>6. MinusOne # 1
  <2>1. MinusOne = P - 1
    <3>1. (0 - 1) = (-1) * P + (P - 1) /\ P - 1 \in Elements /\ -1 \in Int
      BY FieldAssumption DEF Elements
    <3> QED  BY <1>1, <1>2, <3>1, ModUnique
  <2> QED  BY <2>1, FieldAssumption
<1>7. ASSUME NEW x \in Elements PROVE Times(MinusOne, x) = Minus(0, x)
  <2>1. x \in Int /\ x % P = x /\ (0 - 1) * x = 0 - x
    BY OwnResidue
  <2>2. Times((0 - 1) % P, x % P) = ((0 - 1) * x) % P /\ Minus(0 % P, x % P) = (0 - x) % P
    BY <1>1, <2>1, Residues, SMTT(30)
  <2> QED  BY <1>1, <1>2, <2>1, <2>2
<1>8. ASSUME NEW x \in Elements, Times(x, x) = 1, x # 1, x # MinusOne PROVE FALSE
  <2>1. x \in Int /\ x % P = x
    BY OwnResidue
  <2>2. Minus(x, 1) = (x - 1) % P /\ Minus(x, MinusOne) = (x - (0 - 1)) % P /\ x - 1 \in Int /\ x - (0 - 1) \in Int
    BY <1>1, <1>2, <2>1, Residues, SMTT(30)
  <2>3. Times(Minus(x, 1), Minus(x, MinusOne)) = ((x - 1) * (x - (0 - 1))) % P
    BY <2>2, Residues, SMTT(30)
  <2>4. Times(x, x) = (x * x) % P /\ x * x \in Int
    BY <2>1, Residues, SMTT(30)
  <2>5. Minus(Times(x, x), 1) = ((x * x) - 1) % P
    BY <1>1, <2>4, Residues, SMTT(30)
  <2>6. (x - 1) * (x - (0 - 1)) = (x * x) - 1
    BY <2>1
  <2>7. Times(Minus(x, 1), Minus(x, MinusOne)) = Minus(1, 1)
    BY <1>8, <2>3, <2>5, <2>6
  <2>8. Minus(1, 1) = 0 /\ Minus(x, 1) # 0 /\ Minus(x, MinusOne) # 0
    BY <1>3, <1>8, Ring, ZeroOne
  <2>9. Minus(x, 1) \in Elements \ {0} /\ Minus(x, MinusOne) \in Elements \ {0}
    BY <1>3, <2>8, Typed, ZeroOne
  <2> QED  BY <2>7, <2>8, <2>9, NoZeroDivisor
<1> QED  BY <1>3, <1>4, <1>5, <1>6, <1>7, <1>8

\* The primitive roots of unity of order 2^K.
IsRoot(w, K) == w \in Elements \ {0} /\ IF K = 0 THEN w = 1 ELSE Power(w, Two(K - 1)) = MinusOne

\* Half of a power of two.
LEMMA TwoHalves ==
  ASSUME NEW K \in 1 .. 30
  PROVE  /\ K - 1 \in 0 .. 30 /\ K \in 0 .. 30
         /\ Two(K - 1) \in Nat /\ Two(K - 1) > 0 /\ Two(K) \in Nat /\ Two(K) = Two(K - 1) + Two(K - 1)
<1>1. K - 1 \in 0 .. 30 /\ K \in 0 .. 30 /\ K > 0
  OBVIOUS
<1>2. Two(K - 1) \in Nat /\ Two(K - 1) > 0 /\ Two(K) \in Nat /\ Two(K) = 2 * Two(K - 1)
  BY <1>1, PowersOfTwo
<1> DEFINE t == Two(K - 1)
<1> HIDE DEF t
<1>3. t \in Nat => 2 * t = t + t
  OBVIOUS
<1> QED  BY <1>1, <1>2, <1>3 DEF t

\* The roots the code computes are primitive.
LEMMA PrimitiveIsRoot ==
  ASSUME NEW K \in 1 .. 30, (P - 1) % Two(K) = 0
  PROVE  IsRoot(PrimitiveRoot(Two(K)), K)
<1> DEFINE n == Two(K)
           h == Two(K - 1)
           e == (P - 1) \div n
           w == PrimitiveRoot(n)
<1>0. h \in Nat /\ h > 0 /\ n \in Nat /\ n = h + h
  BY TwoHalves
<1>2. P \in Nat /\ P - 1 \in Nat /\ P > 2
  BY FieldAssumption
<1>3. (P - 1) % n = 0
  OBVIOUS
<1>4. w = Power(Generator, e)
  BY DEF PrimitiveRoot
<1> HIDE DEF n, h
<1>1. h \in Nat /\ h > 0 /\ n \in Nat /\ n = h + h /\ n > 0
  BY <1>0
<1>5. e \in Nat /\ P - 1 = n * e
  <2>1. \A a \in Nat, b \in Nat \ {0} : a % b = 0 => a \div b \in Nat /\ a = b * (a \div b)
    OBVIOUS
  <2> QED  BY <1>1, <1>2, <1>3, <2>1
<1> HIDE DEF e, w
<1> DEFINE x == e * h
<1>6. x \in Nat /\ P - 1 = x + x
  <2>1. \A ee, hh \in Nat : ee * hh \in Nat /\ (hh + hh) * ee = ee * hh + ee * hh
    OBVIOUS
  <2>2. e * h \in Nat /\ (h + h) * e = e * h + e * h
    BY <1>1, <1>5, <2>1
  <2> QED  BY <1>1, <1>5, <2>2
<1> HIDE DEF x
<1>7. x \in 1 .. (P - 2)
  BY <1>2, <1>6
<1>8. Generator \in Elements /\ Generator # 0
  BY FieldAssumption DEF Elements
<1>9. Power(w, h) = Power(Generator, x)
  BY <1>1, <1>4, <1>5, <1>8, PowerPower DEF x
<1> DEFINE y == Power(Generator, x)
<1>10. y \in Elements /\ y # 1
  BY <1>6, <1>7, <1>8, PowerTyped, FieldAssumption
<1>11. Times(y, y) = 1
  <2>1. Power(Generator, x + x) = Times(y, y)
    BY <1>6, <1>8, PowerAdds
  <2> QED  BY <1>6, <2>1, GeneratorOrder
<1> HIDE DEF y
<1>12. y = MinusOne
  BY <1>10, <1>11, MinusOneIs
<1>13. w \in Elements \ {0}
  BY <1>4, <1>5, <1>8, PowerTyped
<1>14. K # 0
  OBVIOUS
<1> QED  BY <1>9, <1>12, <1>13, <1>14 DEF IsRoot, y, w, n, h

\* The square of a root.
LEMMA Square == ASSUME NEW a \in Elements PROVE Times(a, a) = Power(a, 2) /\ Power(a, 1) = a
<1>1. Power(a, 0) = 1 /\ Power(a, 0 + 1) = Times(a, Power(a, 0)) /\ Power(a, 1 + 1) = Times(a, Power(a, 1))
  <2>1. 0 \in Nat /\ 1 \in Nat
    OBVIOUS
  <2> QED  BY <2>1, PowerIs
<1>2. Times(a, 1) = a /\ 0 + 1 = 1 /\ 1 + 1 = 2
  BY Ring, ZeroOne
<1> QED  BY <1>1, <1>2

\* Squaring a primitive root halves its order.
LEMMA RootSquares ==
  ASSUME NEW K \in 1 .. 30, NEW w, IsRoot(w, K)
  PROVE  IsRoot(Times(w, w), K - 1)
<1>1. w \in Elements \ {0} /\ Power(w, Two(K - 1)) = MinusOne
  BY DEF IsRoot
<1>2. Times(w, w) \in Elements \ {0}
  BY <1>1, NoZeroDivisor
<1>3. CASE K = 1
  <2>1. Two(0) = 1 /\ K - 1 = 0
    BY <1>3, PowersOfTwo
  <2>2. w = MinusOne
    BY <1>1, <2>1, Square
  <2>3. Times(w, w) = 1
    BY <2>2, MinusOneIs
  <2> QED  BY <1>2, <2>1, <2>3 DEF IsRoot
<1>4. CASE K # 1
  <2>1. K - 1 \in 1 .. 30 /\ (K - 1) - 1 \in 0 .. 30 /\ K - 1 # 0
    BY <1>4
  <2> DEFINE L == K - 1
             q == Two(L - 1)
  <2>2. q \in Nat /\ Two(L) = q + q
    BY <2>1, TwoHalves
  <2> HIDE DEF q
  <2>3. Power(Power(w, 2), q) = Power(w, 2 * q) /\ 2 * q = q + q
    BY <1>1, <2>2, PowerPower
  <2>4. Times(w, w) = Power(w, 2)
    BY <1>1, Square
  <2>5. Power(Times(w, w), q) = MinusOne
    BY <1>1, <2>2, <2>3, <2>4
  <2> QED  BY <1>2, <2>1, <2>5 DEF IsRoot, q
<1> QED  BY <1>3, <1>4

\* Odd powers of minus one.
LEMMA MinusOneOdd == ASSUME NEW h \in Nat PROVE Power(MinusOne, 2 * h) = 1 /\ Power(MinusOne, 2 * h + 1) = MinusOne
<1> DEFINE m == MinusOne
<1>1. m \in Elements /\ Times(m, m) = 1 /\ Times(m, 1) = m
  BY MinusOneIs, Ring
<1> HIDE DEF m
<1>2. Power(m, 2) = 1
  BY <1>1, Square
<1>3. Power(Power(m, 2), h) = Power(m, 2 * h)
  BY <1>1, PowerPower
<1>4. Power(m, 2 * h) = 1
  BY <1>2, <1>3, OneStays
<1>5. Power(m, 2 * h + 1) = Times(m, Power(m, 2 * h))
  <2>1. 2 * h \in Nat
    OBVIOUS
  <2> QED  BY <1>1, <2>1, PowerIs
<1> QED  BY <1>1, <1>4, <1>5 DEF m

\* No smaller power of a primitive root is one.
LEMMA RootOrder ==
  \A K \in 0 .. 30 : \A w \in Elements : IsRoot(w, K) => \A k \in 1 .. (Two(K) - 1) : Power(w, k) # 1
<1> DEFINE T == {K \in 0 .. 30 : \A w \in Elements : IsRoot(w, K) => \A k \in 1 .. (Two(K) - 1) : Power(w, k) # 1}
<1>1. 0 \in T
  <2>1. Two(0) = 1
    BY PowersOfTwo
  <2> QED  BY <2>1
<1>2. \A K \in 1 .. 30 : K - 1 \in T => K \in T
  <2> TAKE K \in 1 .. 30
  <2> HAVE K - 1 \in T
  <2> DEFINE H == Two(K - 1)
  <2>1. H \in Nat /\ H > 0 /\ Two(K) = H + H /\ K \in 0 .. 30
    BY TwoHalves
  <2>2. \A w \in Elements : IsRoot(w, K - 1) => \A k \in 1 .. (H - 1) : Power(w, k) # 1
    OBVIOUS
  <2>3. ASSUME NEW w \in Elements, IsRoot(w, K), NEW k \in 1 .. (Two(K) - 1), Power(w, k) = 1
        PROVE  FALSE
    <3>1. Power(w, H) = MinusOne
      BY <2>3 DEF IsRoot
    <3> HIDE DEF H
    <3>2. k \in Nat /\ k > 0 /\ k < H + H
      BY <2>1, <2>3
    <3>3. PICK h \in Nat : k = 2 * h \/ k = 2 * h + 1
      <4>1. k \div 2 \in Nat /\ (k = 2 * (k \div 2) \/ k = 2 * (k \div 2) + 1)
        BY <3>2
      <4> QED  BY <4>1
    <3>4. CASE k = 2 * h
      <4>1. h \in 1 .. (H - 1)
        BY <2>1, <3>2, <3>4
      <4>2. Times(w, w) \in Elements /\ IsRoot(Times(w, w), K - 1)
        BY <2>3, RootSquares, Typed
      <4>3. Power(Times(w, w), h) = Power(w, k)
        BY <3>4, PowerPower, Square
      <4> QED  BY <2>2, <2>3, <4>1, <4>2, <4>3
    <3>5. CASE k = 2 * h + 1
      <4>1. Power(Power(w, k), H) = 1
        BY <2>1, <2>3, OneStays
      <4>2. Power(Power(w, k), H) = Power(w, k * H) /\ Power(Power(w, H), k) = Power(w, H * k) /\ k * H = H * k
        BY <2>1, <3>2, PowerPower
      <4>3. Power(MinusOne, k) = 1
        BY <3>1, <4>1, <4>2
      <4>4. Power(MinusOne, 2 * h + 1) = MinusOne
        BY MinusOneOdd
      <4> QED  BY <3>5, <4>3, <4>4, MinusOneIs
    <3> QED  BY <3>3, <3>4, <3>5
  <2> QED  BY <2>1, <2>3
<1>3. \A K \in 0 .. 30 : K \in T
  <2> HIDE DEF T
  <2> QED  BY <1>1, <1>2, Up
<1> QED  BY <1>3

\* The powers of a primitive root below its order are distinct, and that of
\* its order is one.
LEMMA RootsDistinct ==
  ASSUME NEW K \in 0 .. 30, NEW w, IsRoot(w, K)
  PROVE  /\ w \in Elements \ {0} /\ Power(w, Two(K)) = 1
         /\ \A i, j \in 0 .. (Two(K) - 1) : Power(w, i) = Power(w, j) => i = j
<1>1. w \in Elements \ {0}
  BY DEF IsRoot
<1>2. Power(w, Two(K)) = 1
  <2>1. CASE K = 0
    BY <2>1, OneStays, PowersOfTwo DEF IsRoot
  <2>2. CASE K # 0
    <3> DEFINE H == Two(K - 1)
    <3>1. K \in 1 .. 30
      BY <2>2
    <3>2. H \in Nat /\ Two(K) = H + H
      BY <3>1, TwoHalves
    <3>3. Power(w, H) = MinusOne
      BY <2>2 DEF IsRoot
    <3> HIDE DEF H
    <3>4. Power(w, H + H) = Times(Power(w, H), Power(w, H))
      BY <1>1, <3>2, PowerAdds
    <3> QED  BY <3>2, <3>3, <3>4, MinusOneIs
  <2> QED  BY <2>1, <2>2
<1>3. ASSUME NEW i \in 0 .. (Two(K) - 1), NEW j \in 0 .. (Two(K) - 1), i < j, Power(w, i) = Power(w, j)
      PROVE  FALSE
  <2> DEFINE n == Two(K)
             d == j - i
  <2>1. n \in Nat
    BY PowersOfTwo
  <2> HIDE DEF n
  <2>2. i \in Nat /\ d \in Nat /\ i + d = j /\ d \in 1 .. (n - 1)
    BY <1>3, <2>1 DEF n
  <2> HIDE DEF d
  <2>3. Power(w, i + d) = Times(Power(w, i), Power(w, d))
    BY <1>1, <2>2, PowerAdds
  <2>4. Power(w, i) \in Elements \ {0} /\ Power(w, d) \in Elements
    BY <1>1, <2>2, PowerTyped
  <2>5. Times(Power(w, i), 1) = Power(w, i)
    BY <2>4, Ring
  <2>6. Power(w, d) = 1
    BY <1>3, <2>2, <2>3, <2>4, <2>5, ZeroOne, Cancels
  <2> QED  BY <1>1, <2>2, <2>6, RootOrder DEF n
<1>4. ASSUME NEW i \in 0 .. (Two(K) - 1), NEW j \in 0 .. (Two(K) - 1), Power(w, i) = Power(w, j)
      PROVE  i = j
  <2>1. i \in Int /\ j \in Int
    OBVIOUS
  <2>2. i < j \/ j < i \/ i = j
    BY <2>1
  <2> QED  BY <1>3, <1>4, <2>2
<1> QED  BY <1>1, <1>2, <1>4

\* The power of a product.
LEMMA PowerTimes ==
  ASSUME NEW a \in Elements, NEW b \in Elements, NEW n \in Nat
  PROVE  Power(Times(a, b), n) = Times(Power(a, n), Power(b, n))
<1> DEFINE c == Times(a, b)
           S == {k \in 0 .. n : Power(c, k) = Times(Power(a, k), Power(b, k))}
<1>0. c \in Elements
  BY Typed
<1>1. 0 \in S
  <2>1. Power(a, 0) = 1 /\ Power(b, 0) = 1 /\ Power(c, 0) = 1 /\ Times(1, 1) = 1
    BY <1>0, PowerIs, Ring, ZeroOne
  <2> QED  BY <2>1
<1>2. \A k \in 1 .. n : k - 1 \in S => k \in S
  <2> TAKE k \in 1 .. n
  <2> HAVE k - 1 \in S
  <2> DEFINE j == k - 1
             s == Power(a, j)
             t == Power(b, j)
  <2>1. j \in Nat /\ j + 1 = k /\ k \in 0 .. n
    OBVIOUS
  <2>2. Power(c, j) = Times(s, t)
    OBVIOUS
  <2> HIDE DEF j
  <2>3. Power(c, k) = Times(c, Times(s, t)) /\ Power(a, k) = Times(a, s) /\ Power(b, k) = Times(b, t)
    <3> HIDE DEF c
    <3> QED  BY <1>0, <2>1, <2>2, PowerIs
  <2>4. s \in Elements /\ t \in Elements
    BY <2>1, PowerTyped
  <2> HIDE DEF s, t
  <2>5. Times(Times(a, b), Times(s, t)) = Times(Times(a, s), Times(b, t))
    BY <2>4, PairStep
  <2> QED  BY <2>1, <2>3, <2>5
<1>3. n \in S
  <2> HIDE DEF S
  <2> QED  BY <1>1, <1>2, Up
<1> QED  BY <1>3

\* The inverse of a primitive root is one, and its powers are inverse.
LEMMA InverseRoot ==
  ASSUME NEW K \in 0 .. 30, NEW w, IsRoot(w, K)
  PROVE  /\ IsRoot(Inv(w), K)
         /\ \A j \in Nat : Times(Power(w, j), Power(Inv(w), j)) = 1
<1> DEFINE v == Inv(w)
<1>1. w \in Elements \ {0}
  BY DEF IsRoot
<1>2. v \in Elements /\ Times(w, v) = 1
  BY <1>1, InverseIs
<1>3. v # 0
  <2>1. Times(w, 0) = 0
    BY <1>1, Ring
  <2> QED  BY <1>2, <2>1, ZeroOne
<1> HIDE DEF v
<1>4. ASSUME NEW j \in Nat PROVE Times(Power(w, j), Power(v, j)) = 1
  <2>1. Power(Times(w, v), j) = Times(Power(w, j), Power(v, j))
    BY <1>1, <1>2, PowerTimes
  <2> QED  BY <1>2, <2>1, OneStays
<1>5. CASE K = 0
  <2>1. w = 1
    BY <1>5 DEF IsRoot
  <2>2. Times(1, v) = v
    BY <1>2, Ring
  <2> QED  BY <1>2, <1>3, <1>4, <1>5, <2>1, <2>2 DEF IsRoot, v
<1>6. CASE K # 0
  <2> DEFINE H == Two(K - 1)
             x == Power(v, H)
  <2>1. K \in 1 .. 30
    BY <1>6
  <2>2. H \in Nat /\ Power(w, H) = MinusOne
    BY <1>6, <2>1, TwoHalves DEF IsRoot
  <2>3. Times(MinusOne, x) = 1 /\ x \in Elements
    BY <1>2, <1>4, <2>2, PowerTyped
  <2> HIDE DEF x
  <2>4. x = MinusOne
    BY <2>3, MinusOneIs, Cancels
  <2> QED  BY <1>2, <1>3, <1>4, <1>6, <2>4 DEF IsRoot, v, x
<1> QED  BY <1>5, <1>6

-----------------------------------------------------------------------------
\* What the transform computes.

\* The even and the odd coefficients of p.
AreHalves(p, e, o, h) == \A k \in 1 .. h : e[k] = p[2 * k - 1] /\ o[k] = p[2 * k]

\* Two more terms.
LEMMA HalvesStep ==
  ASSUME NEW E \in Elements, NEW O \in Elements, NEW x \in Elements, NEW a \in Elements, NEW b \in Elements, NEW w \in Elements
  PROVE  Plus(Plus(Plus(E, Times(x, O)), Times(a, w)), Times(b, Times(x, w))) = Plus(Plus(E, Times(a, w)), Times(x, Plus(O, Times(b, w))))
<1>1. /\ E \in Int /\ E % P = E
      /\ O \in Int /\ O % P = O
      /\ x \in Int /\ x % P = x
      /\ a \in Int /\ a % P = a
      /\ b \in Int /\ b % P = b
      /\ w \in Int /\ w % P = w
  BY OwnResidue, ZeroOne
<1>2. /\ x * O \in Int /\ Times(x, O) = (x * O) % P
      /\ a * w \in Int /\ Times(a, w) = (a * w) % P
      /\ x * w \in Int /\ Times(x, w) = (x * w) % P
      /\ b * w \in Int /\ Times(b, w) = (b * w) % P
  BY <1>1, Residues, SMTT(30)
<1>3. /\ E + (x * O) \in Int /\ Plus(E, Times(x, O)) = (E + (x * O)) % P
      /\ b * (x * w) \in Int /\ Times(b, Times(x, w)) = (b * (x * w)) % P
      /\ E + (a * w) \in Int /\ Plus(E, Times(a, w)) = (E + (a * w)) % P
      /\ O + (b * w) \in Int /\ Plus(O, Times(b, w)) = (O + (b * w)) % P
  BY <1>1, <1>2, Residues, SMTT(30)
<1>4. (E + (x * O)) + (a * w) \in Int /\ Plus(Plus(E, Times(x, O)), Times(a, w)) = ((E + (x * O)) + (a * w)) % P
  BY <1>1, <1>2, <1>3, Residues, SMTT(30)
<1>5. ((E + (x * O)) + (a * w)) + (b * (x * w)) \in Int /\ Plus(Plus(Plus(E, Times(x, O)), Times(a, w)), Times(b, Times(x, w))) = (((E + (x * O)) + (a * w)) + (b * (x * w))) % P
  BY <1>1, <1>3, <1>4, Residues, SMTT(30)
<1>6. x * (O + (b * w)) \in Int /\ Times(x, Plus(O, Times(b, w))) = (x * (O + (b * w))) % P
  BY <1>1, <1>3, Residues, SMTT(30)
<1>7. (E + (a * w)) + (x * (O + (b * w))) \in Int /\ Plus(Plus(E, Times(a, w)), Times(x, Plus(O, Times(b, w)))) = ((E + (a * w)) + (x * (O + (b * w)))) % P
  BY <1>1, <1>3, <1>6, Residues, SMTT(30)
<1>8. /\ ((E + (x * O)) + (a * w)) + (b * (x * w)) = (E + (a * w)) + (x * (O + (b * w)))
  BY <1>1
<1> QED  BY <1>5, <1>7, <1>8

\* The same at the negative.
LEMMA MinusHalves ==
  ASSUME NEW E \in Elements, NEW O \in Elements, NEW x \in Elements
  PROVE  /\ Plus(E, Times(Minus(0, x), O)) = Minus(E, Times(O, x))
         /\ Plus(E, Times(x, O)) = Plus(E, Times(O, x))
         /\ Times(Minus(0, x), Minus(0, x)) = Times(x, x)
<1>1. /\ E \in Int /\ E % P = E
      /\ O \in Int /\ O % P = O
      /\ x \in Int /\ x % P = x
      /\ 0 \in Int /\ 0 % P = 0
  BY OwnResidue, ZeroOne
<1>2. /\ 0 - x \in Int /\ Minus(0, x) = (0 - x) % P
      /\ O * x \in Int /\ Times(O, x) = (O * x) % P
      /\ x * O \in Int /\ Times(x, O) = (x * O) % P
      /\ x * x \in Int /\ Times(x, x) = (x * x) % P
  BY <1>1, Residues, SMTT(30)
<1>3. /\ (0 - x) * O \in Int /\ Times(Minus(0, x), O) = ((0 - x) * O) % P
      /\ E - (O * x) \in Int /\ Minus(E, Times(O, x)) = (E - (O * x)) % P
      /\ E + (x * O) \in Int /\ Plus(E, Times(x, O)) = (E + (x * O)) % P
      /\ E + (O * x) \in Int /\ Plus(E, Times(O, x)) = (E + (O * x)) % P
      /\ (0 - x) * (0 - x) \in Int /\ Times(Minus(0, x), Minus(0, x)) = ((0 - x) * (0 - x)) % P
  BY <1>1, <1>2, Residues, SMTT(30)
<1>4. E + ((0 - x) * O) \in Int /\ Plus(E, Times(Minus(0, x), O)) = (E + ((0 - x) * O)) % P
  BY <1>1, <1>3, Residues, SMTT(30)
<1>5. /\ E + ((0 - x) * O) = E - (O * x)
      /\ E + (x * O) = E + (O * x)
      /\ (0 - x) * (0 - x) = x * x
  BY <1>1
<1> QED  BY <1>2, <1>3, <1>4, <1>5


\* The value of a polynomial is that of its even half at the square, and the
\* argument times that of its odd half there.
LEMMA AtHalves ==
  ASSUME NEW h \in Nat, NEW p \in Vectors(h + h), NEW e \in Vectors(h), NEW o \in Vectors(h),
         NEW x \in Elements, AreHalves(p, e, o, h)
  PROVE  At(p, x) = Plus(At(e, Times(x, x)), Times(x, At(o, Times(x, x))))
<1> DEFINE y == Times(x, x)
           n == h + h
           S == {k \in 0 .. h : AtTo(p, x, 2 * k) = Plus(AtTo(e, y, k), Times(x, AtTo(o, y, k)))}
<1>1. y \in Elements /\ n \in Nat /\ p \in Vectors(n)
  BY Typed
<1> HIDE DEF y
<1>2. /\ AtTo(p, x, 0) = 0 /\ AtTo(p, x, n) = At(p, x)
      /\ \A k \in 0 .. n : AtTo(p, x, k) \in Elements
      /\ \A k \in 1 .. n : p[k] \in Elements /\ AtTo(p, x, k) = Plus(AtTo(p, x, k - 1), Times(p[k], Power(x, k - 1)))
  <2> HIDE DEF n
  <2> QED  BY <1>1, TermsAre
<1>3. /\ AtTo(e, y, 0) = 0 /\ AtTo(e, y, h) = At(e, y)
      /\ \A k \in 0 .. h : AtTo(e, y, k) \in Elements
      /\ \A k \in 1 .. h : e[k] \in Elements /\ AtTo(e, y, k) = Plus(AtTo(e, y, k - 1), Times(e[k], Power(y, k - 1)))
  BY <1>1, TermsAre
<1>4. /\ AtTo(o, y, 0) = 0 /\ AtTo(o, y, h) = At(o, y)
      /\ \A k \in 0 .. h : AtTo(o, y, k) \in Elements
      /\ \A k \in 1 .. h : o[k] \in Elements /\ AtTo(o, y, k) = Plus(AtTo(o, y, k - 1), Times(o[k], Power(y, k - 1)))
  BY <1>1, TermsAre
<1>5. 0 \in S
  <2>1. Times(x, 0) = 0 /\ Plus(0, 0) = 0 /\ 2 * 0 = 0
    BY Ring, ZeroOne
  <2> QED  BY <1>2, <1>3, <1>4, <2>1
<1>6. \A k \in 1 .. h : k - 1 \in S => k \in S
  <2> TAKE k \in 1 .. h
  <2> HAVE k - 1 \in S
  <2> DEFINE j == k - 1
             w == Power(y, j)
             E == AtTo(e, y, j)
             O == AtTo(o, y, j)
             a == e[k]
             b == o[k]
  <2>1. /\ j \in Nat /\ 2 * k - 1 \in 1 .. n /\ 2 * k \in 1 .. n /\ (2 * k) - 1 = 2 * k - 1 /\ (2 * k - 1) - 1 = 2 * j
        /\ 2 * k - 1 = 2 * j + 1 /\ 2 * j \in Nat /\ 2 * j \in 0 .. n /\ k \in 0 .. h /\ j \in 0 .. h
    OBVIOUS
  <2>2. AtTo(p, x, 2 * j) = Plus(E, Times(x, O))
    OBVIOUS
  <2>3. p[2 * k - 1] = a /\ p[2 * k] = b
    BY DEF AreHalves
  <2>4. w \in Elements /\ E \in Elements /\ O \in Elements /\ a \in Elements /\ b \in Elements
    <3> HIDE DEF j
    <3> QED  BY <1>1, <1>3, <1>4, <2>1, PowerTyped
  <2>5. Power(x, 2 * j) = w /\ Power(x, 2 * j + 1) = Times(x, w)
    <3> HIDE DEF j
    <3>1. Power(Power(x, 2), j) = Power(x, 2 * j)
      BY <2>1, PowerPower
    <3>2. Power(x, 2) = y
      BY Square DEF y
    <3>3. Power(x, 2 * j + 1) = Times(x, Power(x, 2 * j))
      BY <2>1, PowerIs
    <3> QED  BY <3>1, <3>2, <3>3
  <2>6. AtTo(p, x, 2 * k - 1) = Plus(Plus(E, Times(x, O)), Times(a, w))
    <3>1. AtTo(p, x, 2 * k - 1) = Plus(AtTo(p, x, (2 * k - 1) - 1), Times(p[2 * k - 1], Power(x, (2 * k - 1) - 1)))
      BY <1>2, <2>1
    <3> HIDE DEF j, w, E, O, a, b
    <3> QED  BY <2>1, <2>2, <2>3, <2>5, <3>1
  <2>7. AtTo(p, x, 2 * k) = Plus(Plus(Plus(E, Times(x, O)), Times(a, w)), Times(b, Times(x, w)))
    <3>1. AtTo(p, x, 2 * k) = Plus(AtTo(p, x, (2 * k) - 1), Times(p[2 * k], Power(x, (2 * k) - 1)))
      BY <1>2, <2>1
    <3> HIDE DEF j, w, E, O, a, b
    <3> QED  BY <2>1, <2>3, <2>5, <2>6, <3>1
  <2>8. AtTo(e, y, k) = Plus(E, Times(a, w)) /\ AtTo(o, y, k) = Plus(O, Times(b, w))
    BY <1>3, <1>4
  <2> HIDE DEF w, E, O, a, b, j
  <2>9. AtTo(p, x, 2 * k) = Plus(AtTo(e, y, k), Times(x, AtTo(o, y, k)))
    BY <2>4, <2>7, <2>8, HalvesStep
  <2> QED  BY <2>1, <2>9
<1>7. h \in S
  <2> HIDE DEF S
  <2> QED  BY <1>5, <1>6, Up
<1>8. 2 * h = n
  OBVIOUS
<1> QED  BY <1>2, <1>3, <1>4, <1>7, <1>8 DEF y

\* Bits are reversed one by one, the lowest first.
LEMMA ReverseIs ==
  ASSUME NEW x \in Nat, NEW n \in 0 .. 29
  PROVE  ReverseBits(x, 0) = 0 /\ ReverseBits(x, n + 1) = 2 * ReverseBits(x, n) + ((x \div Two(n)) % 2)
<1> DEFINE Bit(k) == (x \div Two(k - 1)) % 2
           Good(p, m) == /\ p[0] = 0 /\ \A k \in 1 .. m : p[k] = (2 * p[k - 1]) + Bit(k)
                         /\ ReverseBits(x, m) = p[m]
<1>1. ASSUME NEW m \in 0 .. 30 PROVE \E p : Good(p, m) /\ p \in [0 .. m -> Nat]
  <2>0. m \in Nat
    OBVIOUS
  <2> DEFINE F == [k \in 1 .. m |-> [v \in Nat |-> (2 * v) + ((x \div Two(k - 1)) % 2)]]
  <2>1. \A k \in 1 .. m : ((x \div Two(k - 1)) % 2) \in Nat
    <3> TAKE k \in 1 .. m
    <3> DEFINE d == x \div Two(k - 1)
    <3>1. d \in Int
      <4>1. k - 1 \in 0 .. 30
        OBVIOUS
      <4>2. Two(k - 1) \in Nat \ {0}
        BY <4>1, PowersOfTwo
      <4> QED  BY <4>2
    <3> HIDE DEF d
    <3>2. d % 2 \in Nat
      BY <3>1
    <3> QED  BY <3>2 DEF d
  <2> HIDE DEF Bit
  <2>2. F \in [1 .. m -> [Nat -> Nat]]
    BY <2>1
  <2>3. \A k \in 1 .. m, v \in Nat : F[k][v] = (2 * v) + ((x \div Two(k - 1)) % 2)
    OBVIOUS
  <2> HIDE DEF F
  <2>4. PICK t : Iterates(m, Nat, 0, F, t)
    BY <2>0, <2>2, Recursion
  <2>5. t \in [0 .. m -> Nat] /\ t[0] = 0 /\ \A k \in 1 .. m : t[k] = (2 * t[k - 1]) + Bit(k)
    <3>1. t \in [0 .. m -> Nat] /\ t[0] = 0 /\ \A k \in 1 .. m : t[k] = F[k][t[k - 1]]
      BY <2>4 DEF Iterates
    <3>2. ASSUME NEW k \in 1 .. m PROVE t[k] = (2 * t[k - 1]) + Bit(k)
      <4>1. t[k - 1] \in Nat
        BY <3>1
      <4> QED  BY <2>3, <3>1, <4>1 DEF Bit
    <3> QED  BY <3>1, <3>2
  <2>6. t = [k \in 0 .. m |-> IF k = 0 THEN 0 ELSE (2 * t[k - 1]) + Bit(k)]
    BY <2>5
  <2>7. PICK p : /\ p = [k \in 0 .. m |-> IF k = 0 THEN 0 ELSE (2 * p[k - 1]) + Bit(k)]
                 /\ ReverseBits(x, m) = p[m]
    BY <2>6 DEF ReverseBits, Bit, Two
  <2>8. p[0] = 0 /\ \A k \in 1 .. m : p[k] = (2 * p[k - 1]) + Bit(k)
    <3>1. p[0] = 0
      BY <2>7
    <3>2. ASSUME NEW k \in 1 .. m PROVE p[k] = (2 * p[k - 1]) + Bit(k)
      BY <2>7
    <3> QED  BY <3>1, <3>2
  <2> DEFINE S == {k \in 0 .. m : p[k] = t[k]}
  <2>9. 0 \in S
    <3>1. 0 \in 0 .. m
      BY <2>0
    <3> QED  BY <2>5, <2>8, <3>1
  <2>10. \A k \in 1 .. m : k - 1 \in S => k \in S
    <3> TAKE k \in 1 .. m
    <3> HAVE k - 1 \in S
    <3>1. p[k] = (2 * p[k - 1]) + Bit(k) /\ t[k] = (2 * t[k - 1]) + Bit(k) /\ p[k - 1] = t[k - 1]
      BY <2>5, <2>8
    <3> QED  BY <3>1
  <2> HIDE DEF S
  <2>11. \A k \in 0 .. m : k \in S
    BY <2>0, <2>9, <2>10, Up
  <2>12. m \in S
    BY <2>11
  <2>13. Good(t, m)
    BY <2>5, <2>7, <2>12 DEF S
  <2> QED  BY <2>5, <2>13
<1>2. PICK p : Good(p, n) /\ p \in [0 .. n -> Nat]
  <2>1. n \in 0 .. 30
    OBVIOUS
  <2> HIDE DEF Good
  <2> QED  BY <1>1, <2>1
<1>3. PICK q : Good(q, n + 1) /\ q \in [0 .. (n + 1) -> Nat]
  <2>1. n + 1 \in 0 .. 30
    OBVIOUS
  <2> HIDE DEF Good
  <2> QED  BY <1>1, <2>1
<1>4. PICK z : Good(z, 0)
  <2>1. 0 \in 0 .. 30
    OBVIOUS
  <2> HIDE DEF Good
  <2> QED  BY <1>1, <2>1
<1> HIDE DEF Bit
<1> DEFINE S == {k \in 0 .. n : p[k] = q[k]}
<1>5. 0 \in S
  BY <1>2, <1>3
<1>6. \A k \in 1 .. n : k - 1 \in S => k \in S
  <2> TAKE k \in 1 .. n
  <2> HAVE k - 1 \in S
  <2>1. k \in 1 .. (n + 1)
    OBVIOUS
  <2>2. p[k] = (2 * p[k - 1]) + Bit(k) /\ q[k] = (2 * q[k - 1]) + Bit(k) /\ p[k - 1] = q[k - 1]
    BY <1>2, <1>3, <2>1
  <2> QED  BY <2>2
<1> HIDE DEF S
<1>7. \A k \in 0 .. n : k \in S
  BY <1>5, <1>6, Up
<1>8. p[n] = q[n]
  BY <1>7 DEF S
<1>9. q[n + 1] = (2 * q[n]) + Bit(n + 1) /\ (n + 1) - 1 = n
  <2>1. n + 1 \in 1 .. (n + 1) /\ (n + 1) - 1 = n
    OBVIOUS
  <2>2. q[n + 1] = (2 * q[(n + 1) - 1]) + Bit(n + 1)
    BY <1>3, <2>1
  <2> QED  BY <2>1, <2>2
<1> QED  BY <1>2, <1>3, <1>4, <1>8, <1>9 DEF Bit

\* The reverse of twice a number, or one more, one bit longer.
LEMMA ReverseDouble ==
  ASSUME NEW L \in 0 .. 29, NEW b \in Nat, NEW e \in {0, 1}
  PROVE  ReverseBits(2 * b + e, L + 1) = e * Two(L) + ReverseBits(b, L)
<1> DEFINE x == 2 * b + e
           S == {l \in 0 .. L : ReverseBits(x, l + 1) = e * Two(l) + ReverseBits(b, l)}
<1>0. x \in Nat /\ e \in Nat
  OBVIOUS
<1>1. 0 \in S
  <2>0. 0 \in 0 .. 29 /\ 0 \in 0 .. 30
    OBVIOUS
  <2>1. Two(0) = 1 /\ ReverseBits(x, 0) = 0 /\ ReverseBits(b, 0) = 0
    <3> HIDE DEF x
    <3> QED  BY <1>0, <2>0, PowersOfTwo, ReverseIs
  <2>2. ReverseBits(x, 0 + 1) = 2 * ReverseBits(x, 0) + ((x \div Two(0)) % 2)
    BY <1>0, ReverseIs
  <2>3. (x \div 1) % 2 = e
    OBVIOUS
  <2> QED  BY <1>0, <2>1, <2>2, <2>3
<1>2. \A l \in 1 .. L : l - 1 \in S => l \in S
  <2> TAKE l \in 1 .. L
  <2> HAVE l - 1 \in S
  <2> DEFINE j == l - 1
             t == Two(j)
             T == Two(l)
             q == b \div t
             r == b % t
  <2>1. j \in Nat /\ j + 1 = l /\ l \in 0 .. L /\ l \in 0 .. 30 /\ j \in 0 .. 30 /\ l > 0 /\ l \in Nat /\ l \in 0 .. 29 /\ j \in 0 .. 29
    OBVIOUS
  <2>2. t \in Nat /\ t > 0 /\ T = 2 * t /\ T > 0 /\ T \in Nat
    BY <2>1, PowersOfTwo
  <2>3. ReverseBits(x, l) = e * t + ReverseBits(b, j)
    BY <2>1
  <2>4. ReverseBits(x, l + 1) = 2 * ReverseBits(x, l) + ((x \div T) % 2)
    BY <1>0, <2>1, ReverseIs
  <2>5. ReverseBits(b, l) = 2 * ReverseBits(b, j) + (q % 2)
    <3> HIDE DEF j, q
    <3>1. ReverseBits(b, j + 1) = 2 * ReverseBits(b, j) + ((b \div Two(j)) % 2)
      BY <2>1, ReverseIs
    <3> QED  BY <2>1, <3>1 DEF q
  <2>6. ReverseBits(b, j) \in Nat
    <3> HIDE DEF j
    <3>1. ReverseBits(b, j) \in 0 .. (Two(j) - 1)
      BY <2>1, ReverseTyped
    <3> QED  BY <2>2, <3>1
  <2> HIDE DEF t, T
  <2>7. b = t * q + r /\ q \in Int /\ r \in Nat /\ r < t
    BY <2>2, DivIs
  <2>8. x \div T = q
    <3> HIDE DEF q, r
    <3> DEFINE s == 2 * r + e
    <3>1. s \in Nat /\ s < T
      BY <2>2, <2>7
    <3>2. x = T * q + s
      <4> DEFINE u == t * q
      <4>1. u \in Int /\ T * q = 2 * u
        BY <2>2, <2>7
      <4> HIDE DEF u
      <4>2. b = u + r
        BY <2>7 DEF u
      <4> QED  BY <2>7, <4>1, <4>2
    <3> HIDE DEF s, x
    <3> QED  BY <2>2, <2>7, <3>1, <3>2, DivUnique
  <2>9. q % 2 \in Int
    BY <2>7
  <2> DEFINE d == q % 2
             R == ReverseBits(b, j)
             u == e * t
  <2>10. u \in Int /\ e * T = 2 * u
    BY <2>2
  <2> HIDE DEF d, R, u, x, q
  <2>11. ReverseBits(x, l + 1) = e * T + ReverseBits(b, l)
    <3>1. ReverseBits(x, l + 1) = 2 * (u + R) + d
      BY <2>3, <2>4, <2>8 DEF u, R, d
    <3>2. ReverseBits(b, l) = 2 * R + d
      BY <2>5 DEF R, d
    <3>3. R \in Int /\ d \in Int
      BY <2>6, <2>9 DEF R, d
    <3> QED  BY <2>10, <3>1, <3>2, <3>3
  <2> QED  BY <2>1, <2>11 DEF T
<1>3. L \in S
  <2>1. L \in Nat
    OBVIOUS
  <2> HIDE DEF S
  <2> QED  BY <1>1, <1>2, <2>1, Up
<1> QED  BY <1>3

\* Powers of two multiply.
LEMMA TwoAdds ==
  ASSUME NEW a \in 0 .. 30, NEW b \in 0 .. 30, a + b <= 30
  PROVE  Two(a + b) = Two(a) * Two(b)
<1> DEFINE S == {k \in 0 .. b : Two(a + k) = Two(a) * Two(k)}
<1>1. 0 \in S
  <2>1. Two(0) = 1 /\ a + 0 = a /\ Two(a) \in Nat
    BY PowersOfTwo
  <2> DEFINE t == Two(a)
  <2> HIDE DEF t
  <2>2. t \in Nat => t = t * 1
    OBVIOUS
  <2> QED  BY <2>1, <2>2 DEF t
<1>2. \A k \in 1 .. b : k - 1 \in S => k \in S
  <2> TAKE k \in 1 .. b
  <2> HAVE k - 1 \in S
  <2> DEFINE j == k - 1
             s == Two(a)
             t == Two(j)
             q == Two(a + j)
  <2>1. a + k \in 0 .. 30 /\ a + k > 0 /\ (a + k) - 1 = a + j /\ k \in 0 .. 30 /\ k > 0 /\ j \in 0 .. 30 /\ k \in 0 .. b
    OBVIOUS
  <2>2. q = s * t
    OBVIOUS
  <2>3. Two(a + k) = 2 * q /\ Two(k) = 2 * t /\ s \in Nat /\ t \in Nat
    BY <2>1, PowersOfTwo
  <2> HIDE DEF q, s, t, j
  <2>4. s * (2 * t) = 2 * (s * t)
    BY <2>3
  <2>5. Two(a + k) = s * Two(k)
    BY <2>2, <2>3, <2>4
  <2> QED  BY <2>1, <2>5 DEF s
<1>3. b \in S
  <2>1. b \in Nat
    OBVIOUS
  <2> HIDE DEF S
  <2> QED  BY <1>1, <1>2, <2>1, Up
<1> QED  BY <1>3

\* A polynomial of one coefficient.
LEMMA AtOne ==
  ASSUME NEW p \in Vectors(1), NEW x \in Elements
  PROVE  At(p, x) = p[1]
<1>1. /\ AtTo(p, x, 0) = 0 /\ AtTo(p, x, 1) = At(p, x) /\ p[1] \in Elements
      /\ AtTo(p, x, 1) = Plus(AtTo(p, x, 1 - 1), Times(p[1], Power(x, 1 - 1)))
  <2>1. 1 \in Nat /\ 1 \in 1 .. 1
    OBVIOUS
  <2> QED  BY <2>1, TermsAre
<1>2. 1 - 1 = 0 /\ Power(x, 0) = 1
  BY PowerIs
<1>3. Times(p[1], 1) = p[1] /\ Plus(0, p[1]) = p[1]
  BY <1>1, Ring
<1> QED  BY <1>1, <1>2, <1>3

\* Every 2^L-th coefficient, from the one after the first o.
Part(a, L, o, m) == [k \in 1 .. m |-> a[(o + Two(L) * (k - 1)) + 1]]

\* It is made of coefficients, and of the parts of half its size.
LEMMA PartIs ==
  ASSUME NEW K \in 0 .. 30, NEW L \in 0 .. K, NEW a \in Vectors(Two(K)), NEW o \in 0 .. (Two(L) - 1)
  PROVE  Part(a, L, o, Two(K - L)) \in Vectors(Two(K - L))
<1> DEFINE t == Two(L)
           m == Two(K - L)
           n == Two(K)
<1>1. L \in 0 .. 30 /\ K - L \in 0 .. 30 /\ L + (K - L) = K
  OBVIOUS
<1>2. t \in Nat /\ m \in Nat /\ n = t * m /\ n \in Nat
  <2>1. L + (K - L) <= 30
    OBVIOUS
  <2>2. Two(L + (K - L)) = Two(L) * Two(K - L)
    BY <1>1, <2>1, TwoAdds
  <2>3. t \in Nat /\ m \in Nat /\ n \in Nat
    BY <1>1, PowersOfTwo
  <2> QED  BY <1>1, <2>2, <2>3
<1>3. a \in [1 .. n -> Elements] /\ o \in 0 .. (t - 1)
  BY DEF Vectors
<1> HIDE DEF t, m, n
<1>4. ASSUME NEW k \in 1 .. m PROVE (o + t * (k - 1)) + 1 \in 1 .. n
  <2> DEFINE u == t * (k - 1)
  <2>1. u \in Nat /\ u + t <= n
    <3>1. PICK l \in Nat : m = (k - 1) + 1 + l
      <4>1. m - k \in Nat /\ m = (k - 1) + 1 + (m - k)
        BY <1>2
      <4> QED  BY <4>1
    <3>2. k - 1 \in Nat
      OBVIOUS
    <3>3. \A tt, jj, ll \in Nat : tt * ((jj + 1) + ll) = (tt * jj + tt) + tt * ll /\ tt * jj \in Nat /\ tt * ll \in Nat
      OBVIOUS
    <3>4. t * (((k - 1) + 1) + l) = (t * (k - 1) + t) + t * l /\ t * (k - 1) \in Nat /\ t * l \in Nat
      BY <1>2, <3>2, <3>3
    <3> QED  BY <1>2, <3>1, <3>4
  <2> HIDE DEF u
  <2>2. (o + u) + 1 \in 1 .. n
    BY <1>2, <1>3, <2>1
  <2> QED  BY <2>2 DEF u
<1>5. \A k \in 1 .. m : a[(o + t * (k - 1)) + 1] \in Elements
  BY <1>3, <1>4
<1> QED  BY <1>5 DEF Part, Vectors, t, m

\* Its halves.
LEMMA PartHalves ==
  ASSUME NEW L \in 0 .. 29, NEW h \in Nat, NEW o \in Nat, NEW a
  PROVE  AreHalves(Part(a, L, o, h + h), Part(a, L + 1, o, h), Part(a, L + 1, Two(L) + o, h), h)
<1> DEFINE t == Two(L)
<1>1. t \in Nat /\ Two(L + 1) = t + t
  <2>1. L + 1 \in 1 .. 30 /\ (L + 1) - 1 = L
    OBVIOUS
  <2> QED  BY <2>1, TwoHalves
<1> HIDE DEF t
<1>2. ASSUME NEW k \in 1 .. h
      PROVE  /\ Part(a, L + 1, o, h)[k] = Part(a, L, o, h + h)[2 * k - 1]
             /\ Part(a, L + 1, t + o, h)[k] = Part(a, L, o, h + h)[2 * k]
  <2> DEFINE j == k - 1
             u == t * j
  <2>1. 2 * k - 1 \in 1 .. (h + h) /\ 2 * k \in 1 .. (h + h) /\ j \in Nat /\ (2 * k - 1) - 1 = 2 * j /\ (2 * k) - 1 = 2 * j + 1
    OBVIOUS
  <2> HIDE DEF j
  <2>2. u \in Nat /\ t * (2 * j) = u + u /\ t * (2 * j + 1) = (u + u) + t /\ (t + t) * j = u + u
    <3>1. \A tt, jj \in Nat : tt * jj \in Nat /\ tt * (2 * jj) = tt * jj + tt * jj
                              /\ tt * (2 * jj + 1) = (tt * jj + tt * jj) + tt /\ (tt + tt) * jj = tt * jj + tt * jj
      OBVIOUS
    <3> QED  BY <1>1, <2>1, <3>1
  <2> HIDE DEF u
  <2>3. Part(a, L + 1, o, h)[k] = a[(o + (u + u)) + 1] /\ Part(a, L + 1, t + o, h)[k] = a[((t + o) + (u + u)) + 1]
    BY <1>1, <2>2 DEF Part, j
  <2>4. Part(a, L, o, h + h)[2 * k - 1] = a[(o + (u + u)) + 1] /\ Part(a, L, o, h + h)[2 * k] = a[(o + ((u + u) + t)) + 1]
    <3>1. Part(a, L, o, h + h)[2 * k - 1] = a[(o + t * ((2 * k - 1) - 1)) + 1] /\ Part(a, L, o, h + h)[2 * k] = a[(o + t * ((2 * k) - 1)) + 1]
      BY <2>1 DEF Part, t
    <3> QED  BY <2>1, <2>2, <3>1
  <2>5. (t + o) + (u + u) = o + ((u + u) + t)
    BY <1>1, <2>2
  <2> QED  BY <2>3, <2>4, <2>5
<1> QED  BY <1>2 DEF AreHalves, t

\* The place j of block c; what a butterfly with factor x makes of two places.
IsPlace(g, k, c, j) == g = Two(k) * c + j
IsButterfly(b, a, g, h, x) ==
  /\ b[g + 1] = Plus(a[g + 1], Times(a[(g + h) + 1], x))
  /\ b[(g + h) + 1] = Minus(a[g + 1], Times(a[(g + h) + 1], x))

\* What a round of butterflies makes of the two halves of a block.
LEMMA ButterfliesAre ==
  ASSUME NEW K \in 0 .. 30, NEW k \in 1 .. K, NEW a \in Vectors(Two(K)), NEW omega \in Elements,
         NEW c \in 0 .. (Two(K - k) - 1), NEW j \in 0 .. (Two(k - 1) - 1), NEW g, IsPlace(g, k, c, j)
  PROVE  IsButterfly(Butterflies(a, 2^k, omega), a, g, Two(k - 1), Power(Power(omega, Two(K - k)), j))
<1> DEFINE n == Two(K)
           h == Two(k - 1)
           m == Two(K - k)
           w == h + h
           root == Power(omega, m)
<1>1. k \in 1 .. 30 /\ k \in 0 .. 30 /\ K - k \in 0 .. 30 /\ (K - k) + k = K /\ k + (K - k) = K
  OBVIOUS
<1>2. h \in Nat /\ h > 0 /\ Two(k) = w /\ n \in Nat /\ m \in Nat /\ n = m * Two(k)
  <2>1. (K - k) + k <= 30
    OBVIOUS
  <2>2. Two((K - k) + k) = Two(K - k) * Two(k)
    BY <1>1, <2>1, TwoAdds
  <2>3. m \in Nat /\ n \in Nat
    BY <1>1, PowersOfTwo
  <2>4. h \in Nat /\ h > 0 /\ Two(k) = w
    BY <1>1, TwoHalves
  <2> QED  BY <1>1, <2>2, <2>3, <2>4
<1>3. a \in [1 .. n -> Elements] /\ c \in 0 .. (m - 1) /\ j \in 0 .. (h - 1) /\ g = w * c + j
  BY <1>2 DEF Vectors, IsPlace
<1>4. 2^k = w
  BY <1>2 DEF Two
<1>5. n = m * w
  BY <1>2
<1> HIDE DEF n, h, m
<1>6. w \in Nat /\ w > 0 /\ w \div 2 = h
  BY <1>2
<1>7. n \div w = m
  <2>1. n = w * m + 0
    <3>1. \A x, y \in Nat : x * y = y * x + 0
      OBVIOUS
    <3> HIDE DEF w
    <3> QED  BY <1>2, <1>5, <1>6, <3>1
  <2> HIDE DEF w
  <2> QED  BY <1>2, <1>6, <2>1, DivUnique
<1>8. Len(a) = n /\ DOMAIN a = 1 .. n
  BY <1>2, <1>3
<1>9. Butterflies(a, 2^k, omega) =
        [i \in 1 .. n |->
           IF (i - 1) % w < h
           THEN Plus(a[i], Times(a[i + h], Power(root, (i - 1) % w)))
           ELSE Minus(a[i - h], Times(a[i], Power(root, ((i - 1) % w) - h)))]
  <2> HIDE DEF w
  <2> QED  BY <1>4, <1>6, <1>7, <1>8 DEF Butterflies
<1> DEFINE u == w * c
<1>10. u \in Nat /\ u + w <= n
  <2>1. PICK l \in Nat : m = (c + 1) + l
    <3>1. (m - 1) - c \in Nat /\ m = (c + 1) + ((m - 1) - c)
      BY <1>2, <1>3
    <3> QED  BY <3>1
  <2>2. \A ww, cc, ll \in Nat : ((cc + 1) + ll) * ww = (ww * cc + ww) + ll * ww /\ ww * cc \in Nat /\ ll * ww \in Nat
    OBVIOUS
  <2>3. c \in Nat
    BY <1>2, <1>3
  <2> HIDE DEF w
  <2>4. ((c + 1) + l) * w = (w * c + w) + l * w /\ w * c \in Nat /\ l * w \in Nat
    BY <1>6, <2>2, <2>3
  <2> QED  BY <1>2, <1>5, <1>6, <2>1, <2>4
<1>11. c \in Int /\ g = u + j
  BY <1>3
<1> HIDE DEF u, w, root
<1>12. g + 1 \in 1 .. n /\ (g + h) + 1 \in 1 .. n /\ (g + 1) - 1 = g /\ ((g + h) + 1) - 1 = g + h /\ j < h /\ ~(h + j < h)
       /\ (g + 1) + h = (g + h) + 1 /\ ((g + h) + 1) - h = g + 1 /\ (h + j) - h = j /\ j \in Nat /\ h + j \in Nat
       /\ j < w /\ h + j < w /\ g = u + j /\ g + h = u + (h + j)
  BY <1>2, <1>3, <1>10, <1>11 DEF w
<1>13. g % w = j /\ (g + h) % w = h + j
  <2>1. g = w * c + j /\ g + h = w * c + (h + j)
    BY <1>12 DEF u
  <2>2. g % w = j
    BY <1>6, <1>11, <1>12, <2>1, DivUnique
  <2> DEFINE r == h + j
  <2>3. r \in Nat /\ r < w /\ g + h = w * c + r
    BY <1>12, <2>1
  <2> HIDE DEF r
  <2>4. (g + h) % w = r
    <3> DEFINE i == g + h
    <3>1. i = w * c + r
      BY <2>3
    <3> HIDE DEF i
    <3>2. i % w = r
      BY <1>6, <1>11, <2>3, <3>1, DivUnique
    <3> QED  BY <3>2 DEF i
  <2> QED  BY <2>2, <2>4 DEF r
<1> DEFINE b == Butterflies(a, 2^k, omega)
<1>14. b[g + 1] = Plus(a[g + 1], Times(a[(g + h) + 1], Power(root, j)))
  <2> DEFINE i == g + 1
  <2>1. i \in 1 .. n /\ (i - 1) % w = j /\ j < h /\ i + h = (g + h) + 1
    BY <1>12, <1>13
  <2> HIDE DEF i
  <2>2. b[i] = Plus(a[i], Times(a[i + h], Power(root, (i - 1) % w)))
    BY <1>9, <2>1
  <2> QED  BY <2>1, <2>2 DEF i
<1>15. b[(g + h) + 1] = Minus(a[g + 1], Times(a[(g + h) + 1], Power(root, j)))
  <2> DEFINE i == (g + h) + 1
  <2>1. i \in 1 .. n /\ (i - 1) % w = h + j /\ ~(h + j < h) /\ i - h = g + 1 /\ (h + j) - h = j
    BY <1>12, <1>13
  <2> HIDE DEF i
  <2>2. b[i] = Minus(a[i - h], Times(a[i], Power(root, ((i - 1) % w) - h)))
    BY <1>9, <2>1
  <2>3. b[i] = Minus(a[g + 1], Times(a[i], Power(root, j)))
    BY <2>1, <2>2
  <2> QED  BY <2>3 DEF i
<1> QED  BY <1>14, <1>15 DEF h, root, m, IsButterfly

\* After k rounds, the place j of a block has the value of that block's part
\* of the polynomial at the j-th power of a root of the block's size.
StageMeets(s, a, omega, K, k) ==
  \A c \in 0 .. (Two(K - k) - 1), j \in 0 .. (Two(k) - 1) :
    s[(Two(k) * c + j) + 1] = At(Part(a, K - k, ReverseBits(c, K - k), Two(k)), Power(Power(omega, Two(K - k)), j))

\* A round of butterflies goes on to blocks of twice the size.
LEMMA StageStep ==
  ASSUME NEW K \in 0 .. 30, NEW k \in 1 .. K, NEW a \in Vectors(Two(K)), NEW s \in Vectors(Two(K)),
         NEW omega, IsRoot(omega, K), StageMeets(s, a, omega, K, k - 1)
  PROVE  StageMeets(Butterflies(s, 2^k, omega), a, omega, K, k)
<1> DEFINE L == K - k
           t == Two(L)
           h == Two(k - 1)
           r == Power(omega, t)
           v == Butterflies(s, 2^k, omega)
<1>1. /\ L \in 0 .. 29 /\ L \in 0 .. 30 /\ L + 1 \in 0 .. 30 /\ L + 1 \in 1 .. 30 /\ (L + 1) - 1 = L
      /\ K - (k - 1) = L + 1 /\ k \in 1 .. 30 /\ K - (L + 1) = k - 1 /\ K - L = k /\ L + 1 \in 0 .. K /\ L \in 0 .. K
      /\ L + (k - 1) = K - 1 /\ k - 1 \in 0 .. 30 /\ K # 0
  OBVIOUS
<1>2. t \in Nat /\ t > 0 /\ Two(L + 1) = t + t /\ h \in Nat /\ h > 0 /\ Two(k) = h + h
  <2> HIDE DEF L
  <2>1. Two(L + 1) = Two((L + 1) - 1) + Two((L + 1) - 1)
    BY <1>1, TwoHalves
  <2> QED  BY <1>1, <2>1, TwoHalves, PowersOfTwo
<1>3. omega \in Elements /\ r \in Elements
  <2>1. omega \in Elements
    BY DEF IsRoot
  <2> HIDE DEF t
  <2> QED  BY <1>2, <2>1, PowerTyped
<1>4. Power(r, h) = MinusOne
  <2>1. Power(r, h) = Power(omega, t * h)
    <3> HIDE DEF t, h
    <3> QED  BY <1>2, <1>3, PowerPower
  <2>2. Two(L + (k - 1)) = t * h
    <3> HIDE DEF L
    <3>1. L + (k - 1) <= 30
      BY <1>1
    <3> QED  BY <1>1, <3>1, TwoAdds
  <2>3. Power(omega, Two(K - 1)) = MinusOne
    BY <1>1 DEF IsRoot
  <2> QED  BY <1>1, <2>1, <2>2, <2>3
<1>5. Power(omega, t + t) = Times(r, r)
  <2> HIDE DEF t
  <2> QED  BY <1>2, <1>3, PowerAdds
<1>6. ASSUME NEW c \in 0 .. (t - 1), NEW j \in 0 .. (h - 1), NEW g, g = (h + h) * c + j
      PROVE  LET p == Part(a, L, ReverseBits(c, L), h + h)
             IN /\ v[g + 1] = At(p, Power(r, j))
                /\ v[(g + h) + 1] = At(p, Power(r, h + j))
  <2> DEFINE o == ReverseBits(c, L)
             p == Part(a, L, o, h + h)
             e == Part(a, L + 1, o, h)
             d == Part(a, L + 1, t + o, h)
             x == Power(r, j)
             E == At(e, Times(x, x))
             O == At(d, Times(x, x))
  <2>1. c \in Nat /\ j \in Nat /\ 2 * c \in 0 .. ((t + t) - 1) /\ 2 * c + 1 \in 0 .. ((t + t) - 1)
    BY <1>2
  <2>2. o \in 0 .. (t - 1) /\ o \in Nat
    <3> HIDE DEF L
    <3>1. o \in 0 .. (t - 1)
      BY <1>1, <2>1, ReverseTyped
    <3> QED  BY <1>2, <3>1
  <2>3. ReverseBits(2 * c, L + 1) = o /\ ReverseBits(2 * c + 1, L + 1) = t + o
    <3> HIDE DEF L
    <3>1. ReverseBits(2 * c + 0, L + 1) = 0 * t + o /\ ReverseBits(2 * c + 1, L + 1) = 1 * t + o
      BY <1>1, <2>1, ReverseDouble
    <3> HIDE DEF t, o
    <3> QED  BY <1>2, <2>1, <2>2, <3>1
  <2> HIDE DEF o
  <2>4. p \in Vectors(h + h) /\ e \in Vectors(h) /\ d \in Vectors(h) /\ AreHalves(p, e, d, h)
    <3>1. Part(a, L, o, Two(K - L)) \in Vectors(Two(K - L))
      <4> HIDE DEF L
      <4> QED  BY <1>1, <2>2, PartIs
    <3>2. o \in 0 .. (Two(L + 1) - 1) /\ t + o \in 0 .. (Two(L + 1) - 1)
      <4> HIDE DEF t
      <4> QED  BY <1>2, <2>2
    <3>3. Part(a, L + 1, o, Two(K - (L + 1))) \in Vectors(Two(K - (L + 1)))
      <4> HIDE DEF L
      <4> QED  BY <1>1, <3>2, PartIs
    <3>4. Part(a, L + 1, t + o, Two(K - (L + 1))) \in Vectors(Two(K - (L + 1)))
      <4> HIDE DEF L, t
      <4> QED  BY <1>1, <3>2, PartIs
    <3>5. AreHalves(p, e, d, h)
      <4> HIDE DEF L, h
      <4> QED  BY <1>1, <1>2, <2>2, PartHalves DEF t
    <3> HIDE DEF L
    <3> QED  BY <1>1, <1>2, <3>1, <3>3, <3>4, <3>5
  <2> HIDE DEF p, e, d
  <2>5. x \in Elements /\ Times(x, x) \in Elements
    <3> HIDE DEF r
    <3> QED  BY <1>3, <2>1, PowerTyped, Typed
  <2>6. Power(Power(omega, Two(L + 1)), j) = Times(x, x)
    <3> HIDE DEF r
    <3>1. Power(Times(r, r), j) = Times(Power(r, j), Power(r, j))
      BY <1>3, <2>1, PowerTimes
    <3> QED  BY <1>2, <1>5, <3>1
  <2>7. h * (2 * c) + j = g /\ h * (2 * c + 1) + j = g + h /\ g \in Int
    <3> HIDE DEF h
    <3>1. \A hh, cc \in Nat : hh * (2 * cc) = (hh + hh) * cc /\ hh * (2 * cc + 1) = (hh + hh) * cc + hh /\ (hh + hh) * cc \in Nat
      OBVIOUS
    <3>2. h * (2 * c) = (h + h) * c /\ h * (2 * c + 1) = (h + h) * c + h /\ (h + h) * c \in Nat
      BY <1>2, <2>1, <3>1
    <3> DEFINE u == (h + h) * c
    <3> HIDE DEF u
    <3>3. g = u + j /\ u \in Nat /\ h * (2 * c) = u /\ h * (2 * c + 1) = u + h
      BY <1>6, <3>2 DEF u
    <3> QED  BY <1>2, <2>1, <3>3
  <2>8. s[g + 1] = E /\ s[(g + h) + 1] = O
    <3>1. \A cc \in 0 .. (Two(L + 1) - 1), jj \in 0 .. (h - 1) :
            s[(h * cc + jj) + 1] = At(Part(a, L + 1, ReverseBits(cc, L + 1), h), Power(Power(omega, Two(L + 1)), jj))
      <4> HIDE DEF L
      <4> QED  BY <1>1 DEF StageMeets
    <3> HIDE DEF h, t, x, L
    <3>2. s[(h * (2 * c) + j) + 1] = At(Part(a, L + 1, ReverseBits(2 * c, L + 1), h), Power(Power(omega, Two(L + 1)), j))
      BY <1>2, <2>1, <3>1
    <3>3. s[(h * (2 * c + 1) + j) + 1] = At(Part(a, L + 1, ReverseBits(2 * c + 1, L + 1), h), Power(Power(omega, Two(L + 1)), j))
      BY <1>2, <2>1, <3>1
    <3> QED  BY <2>3, <2>6, <2>7, <3>2, <3>3 DEF e, d
  <2>9. v[g + 1] = Plus(E, Times(O, x)) /\ v[(g + h) + 1] = Minus(E, Times(O, x))
    <3>1. g = Two(k) * c + j
      BY <1>2, <1>6
    <3>2. IsPlace(g, k, c, j)
      BY <3>1 DEF IsPlace
    <3>3. IsButterfly(Butterflies(s, 2^k, omega), s, g, Two(k - 1), Power(Power(omega, Two(K - k)), j))
      BY <1>3, <3>2, ButterfliesAre
    <3> HIDE DEF E, O
    <3> QED  BY <2>8, <3>3 DEF IsButterfly
  <2>10. E \in Elements /\ O \in Elements
    <3> HIDE DEF x
    <3> QED  BY <1>2, <2>4, <2>5, TermsAre
  <2>11. At(p, x) = Plus(E, Times(x, O))
    <3> HIDE DEF h, x
    <3> QED  BY <1>2, <2>4, <2>5, AtHalves
  <2>12. Power(r, h + j) = Minus(0, x)
    <3> HIDE DEF h, r
    <3>1. Power(r, h + j) = Times(Power(r, h), x)
      BY <1>2, <1>3, <2>1, PowerAdds
    <3> HIDE DEF x
    <3> QED  BY <1>4, <2>5, <3>1, MinusOneIs
  <2> DEFINE z == Minus(0, x)
  <2>13. z \in Elements /\ Times(z, z) = Times(x, x)
    <3> HIDE DEF x
    <3> QED  BY <2>5, <2>10, MinusHalves, Typed, ZeroOne
  <2>14. At(p, z) = Plus(E, Times(z, O))
    <3>1. At(p, z) = Plus(At(e, Times(z, z)), Times(z, At(d, Times(z, z))))
      <4> HIDE DEF h, z
      <4> QED  BY <1>2, <2>4, <2>13, AtHalves
    <3> HIDE DEF z, x
    <3> QED  BY <2>13, <3>1
  <2>15. Plus(E, Times(z, O)) = Minus(E, Times(O, x)) /\ Plus(E, Times(x, O)) = Plus(E, Times(O, x))
    <3> HIDE DEF E, O, x
    <3> QED  BY <2>5, <2>10, MinusHalves
  <2> HIDE DEF x, E, O, z
  <2>16. v[g + 1] = At(p, x) /\ v[(g + h) + 1] = At(p, Power(r, h + j))
    BY <2>9, <2>11, <2>12, <2>14, <2>15 DEF z
  <2> QED  BY <2>16 DEF p, o, x
<1>7. ASSUME NEW c \in 0 .. (Two(K - k) - 1), NEW i \in 0 .. (Two(k) - 1)
      PROVE  v[(Two(k) * c + i) + 1] = At(Part(a, K - k, ReverseBits(c, K - k), Two(k)), Power(Power(omega, Two(K - k)), i))
  <2>1. c \in 0 .. (t - 1) /\ i \in 0 .. ((h + h) - 1) /\ (h + h) * c \in Int
    <3>1. c \in 0 .. (t - 1) /\ i \in 0 .. ((h + h) - 1) /\ c \in Int
      BY <1>2, <1>7
    <3> HIDE DEF h
    <3> QED  BY <1>2, <3>1
  <2>2. CASE i < h
    <3> DEFINE g == (h + h) * c + i
    <3>1. i \in 0 .. (h - 1)
      BY <1>2, <2>1, <2>2
    <3>2. v[g + 1] = At(Part(a, L, ReverseBits(c, L), h + h), Power(r, i))
      <4> HIDE DEF v, L, t, h, r
      <4> QED  BY <1>6, <2>1, <3>1
    <3> QED  BY <1>2, <3>2
  <2>3. CASE ~(i < h)
    <3> DEFINE j == i - h
               u == (h + h) * c
               g == u + j
    <3>1. j \in 0 .. (h - 1) /\ h + j = i
      BY <1>2, <2>1, <2>3
    <3>2. v[(g + h) + 1] = At(Part(a, L, ReverseBits(c, L), h + h), Power(r, h + j))
      <4> HIDE DEF v, L, t, h, r, j
      <4> QED  BY <1>6, <2>1, <3>1
    <3>3. g + h = u + i
      <4> HIDE DEF u, h
      <4> QED  BY <1>2, <2>1, <3>1 DEF u
    <3> HIDE DEF j, g
    <3> QED  BY <1>2, <3>1, <3>2, <3>3
  <2> QED  BY <2>2, <2>3
<1> QED  BY <1>7 DEF StageMeets

\* The values of p at the powers of w.
ValuesAt(v, p, w, n) == \A j \in 0 .. (n - 1) : v[j + 1] = At(p, Power(w, j))

\* The transform evaluates at the powers of the root (deep_ali.rs, fft_in_place).
LEMMA FftMeets ==
  ASSUME NEW K \in 0 .. 30, NEW a \in Vectors(Two(K)), NEW omega, IsRoot(omega, K)
  PROVE  FftInPlace(a, omega) \in Vectors(Two(K)) /\ ValuesAt(FftInPlace(a, omega), a, omega, Two(K))
<1> DEFINE n == Two(K)
           V == Vectors(n)
           first == [i \in 1 .. n |-> a[ReverseBits(i - 1, K) + 1]]
           F == [k \in 1 .. K |-> [v \in V |-> Butterflies(v, 2^k, omega)]]
<1>0. omega \in Elements
  BY DEF IsRoot
<1>1. n \in Nat /\ n > 0 /\ K \in Nat
  BY PowersOfTwo
<1>2. a \in [1 .. n -> Elements]
  BY DEF Vectors
<1>3. Log2(n) = K
  BY LogOfPower
<1>4. \A i \in 1 .. n : ReverseBits(i - 1, K) + 1 \in 1 .. n /\ ReverseBits(i - 1, K) \in 0 .. (n - 1)
  <2> TAKE i \in 1 .. n
  <2>1. i - 1 \in Nat
    OBVIOUS
  <2>2. ReverseBits(i - 1, K) \in 0 .. (n - 1)
    BY <2>1, ReverseTyped
  <2> HIDE DEF n
  <2> QED  BY <1>1, <2>2
<1>5. \A k \in 1 .. K : \A v \in V : Butterflies(v, 2^k, omega) \in V
  BY <1>0, ButterfliesTyped
<1> HIDE DEF n
<1>6. first \in V
  BY <1>2, <1>4 DEF Vectors
<1>7. Len(a) = n /\ DOMAIN a = 1 .. n
  BY <1>1, <1>2
<1> HIDE DEF V
<1>8. F \in [1 .. K -> [V -> V]]
  BY <1>5
<1>9. \A k \in 1 .. K, v \in V : F[k][v] = Butterflies(v, 2^k, omega)
  OBVIOUS
<1> HIDE DEF F, first
<1>10. PICK t : Iterates(K, V, first, F, t)
  BY <1>1, <1>6, <1>8, Recursion
<1>11. t \in [0 .. K -> V] /\ t[0] = first
       /\ \A k \in 1 .. K : t[k] = Butterflies(t[k - 1], 2^k, omega)
  <2>1. t \in [0 .. K -> V] /\ t[0] = first /\ \A k \in 1 .. K : t[k] = F[k][t[k - 1]]
    BY <1>10 DEF Iterates
  <2>2. ASSUME NEW k \in 1 .. K PROVE t[k] = Butterflies(t[k - 1], 2^k, omega)
    <3>1. k - 1 \in 0 .. K
      OBVIOUS
    <3>2. t[k - 1] \in V
      BY <2>1, <3>1
    <3> QED  BY <1>9, <2>1, <3>2
  <2> QED  BY <2>1, <2>2
<1>12. t = [k \in 0 .. K |-> IF k = 0 THEN first ELSE Butterflies(t[k - 1], 2^k, omega)]
  BY <1>11
<1>13. FftInPlace(a, omega) =
         LET level[k \in 0 .. K] == IF k = 0 THEN first ELSE Butterflies(level[k - 1], 2^k, omega)
         IN level[K]
  BY <1>3, <1>7 DEF FftInPlace, first
<1>14. PICK s : /\ s = [k \in 0 .. K |-> IF k = 0 THEN first ELSE Butterflies(s[k - 1], 2^k, omega)]
                /\ FftInPlace(a, omega) = s[K]
  BY <1>12, <1>13
<1>15. s[0] = first /\ \A k \in 1 .. K : s[k] = Butterflies(s[k - 1], 2^k, omega)
  <2>1. s[0] = first
    BY <1>1, <1>14
  <2>2. ASSUME NEW k \in 1 .. K PROVE s[k] = Butterflies(s[k - 1], 2^k, omega)
    BY <1>14
  <2> QED  BY <2>1, <2>2
<1> DEFINE S == {k \in 0 .. K : s[k] \in V /\ StageMeets(s[k], a, omega, K, k)}
<1>16. 0 \in S
  <2>1. 0 \in 0 .. K /\ K - 0 = K /\ Two(0) = 1 /\ K \in 0 .. K
    BY <1>1, PowersOfTwo
  <2>2. ASSUME NEW c \in 0 .. (n - 1), NEW j \in 0 .. (1 - 1)
        PROVE  first[(1 * c + j) + 1] = At(Part(a, K, ReverseBits(c, K), 1), Power(Power(omega, n), j))
    <3> DEFINE o == ReverseBits(c, K)
               p == Part(a, K, o, 1)
               x == Power(Power(omega, n), j)
    <3>1. (1 * c + j) + 1 = c + 1 /\ c + 1 \in 1 .. n /\ (c + 1) - 1 = c /\ c \in Nat /\ j \in Nat
      BY <1>1
    <3>2. o \in 0 .. (n - 1) /\ o \in Nat
      <4>1. ReverseBits((c + 1) - 1, K) \in 0 .. (n - 1)
        BY <1>4, <3>1
      <4> QED  BY <1>1, <3>1, <4>1
    <3>3. x \in Elements
      <4>1. Power(omega, n) \in Elements
        BY <1>0, <1>1, PowerTyped
      <4> QED  BY <3>1, <4>1, PowerTyped
    <3>4. first[c + 1] = a[o + 1]
      BY <3>1 DEF first
    <3>5. p \in Vectors(1)
      <4>1. K - K = 0
        BY <1>1
      <4>2. Part(a, K, o, Two(K - K)) \in Vectors(Two(K - K))
        <5> HIDE DEF o
        <5> QED  BY <2>1, <3>2, PartIs DEF n
      <4> QED  BY <2>1, <4>1, <4>2
    <3>6. p[1] = a[o + 1]
      <4> HIDE DEF o
      <4>1. p[1] = a[(o + Two(K) * (1 - 1)) + 1] /\ Two(K) \in Nat
        BY PowersOfTwo DEF Part
      <4> DEFINE q == Two(K)
      <4> HIDE DEF q
      <4>2. q \in Nat => (o + q * (1 - 1)) + 1 = o + 1
        BY <3>2
      <4> QED  BY <4>1, <4>2 DEF q
    <3> HIDE DEF p, x
    <3>7. At(p, x) = p[1]
      BY <3>3, <3>5, AtOne
    <3> QED  BY <3>1, <3>4, <3>6, <3>7 DEF p, x
  <2>3. StageMeets(first, a, omega, K, 0)
    BY <2>1, <2>2 DEF StageMeets, n
  <2> QED  BY <1>6, <1>15, <2>1, <2>3
<1>17. \A k \in 1 .. K : k - 1 \in S => k \in S
  <2> TAKE k \in 1 .. K
  <2> HAVE k - 1 \in S
  <2>1. s[k - 1] \in V /\ StageMeets(s[k - 1], a, omega, K, k - 1) /\ k \in 0 .. K
    OBVIOUS
  <2>2. s[k] = Butterflies(s[k - 1], 2^k, omega)
    BY <1>15
  <2> DEFINE u == s[k - 1]
  <2> HIDE DEF u
  <2>3. StageMeets(Butterflies(u, 2^k, omega), a, omega, K, k)
    BY <2>1, StageStep DEF u, V, n
  <2>4. Butterflies(u, 2^k, omega) \in V
    BY <1>5, <2>1 DEF u
  <2> QED  BY <2>1, <2>2, <2>3, <2>4 DEF u
<1>18. K \in S
  <2> HIDE DEF S
  <2> QED  BY <1>1, <1>16, <1>17, Up
<1> DEFINE f == FftInPlace(a, omega)
<1>19. f \in V /\ StageMeets(f, a, omega, K, K)
  BY <1>14, <1>18
<1> HIDE DEF f
<1>20. ASSUME NEW j \in 0 .. (n - 1) PROVE f[j + 1] = At(a, Power(omega, j))
  <2>1. K - K = 0 /\ Two(0) = 1 /\ 0 \in 0 .. (Two(0) - 1) /\ ReverseBits(0, 0) = 0
    <3>1. ReverseBits(0, 0) = 0
      BY ReverseIs
    <3> QED  BY <1>1, <3>1, PowersOfTwo
  <2>2. f[(n * 0 + j) + 1] = At(Part(a, 0, 0, n), Power(Power(omega, 1), j))
    BY <1>19, <2>1 DEF StageMeets, n
  <2>3. (n * 0 + j) + 1 = j + 1
    BY <1>1
  <2>4. Power(omega, 1) = omega
    BY <1>0, Square
  <2>5. Part(a, 0, 0, n) = a
    <3>1. \A k \in 1 .. n : (0 + 1 * (k - 1)) + 1 = k
      OBVIOUS
    <3>2. Part(a, 0, 0, n) = [k \in 1 .. n |-> a[k]]
      BY <2>1, <3>1 DEF Part
    <3> QED  BY <1>2, <3>2
  <2> QED  BY <2>2, <2>3, <2>4, <2>5
<1>21. ValuesAt(f, a, omega, n)
  BY <1>20 DEF ValuesAt
<1> QED  BY <1>19, <1>21 DEF f, V, n
=============================================================================
