# TLA+ models of tscp-anchor

This directory holds TLA+ specifications of tscp-anchor, the TLC
configurations that model-check them on small instances, and TLAPS proofs of
their main properties for every value of the constants.  Every definition is
translated from the source; `PROJECT.json` names the lines each one stands for.
Paths below are relative to `src/`.

    tlc -workers 2 -config MCOwslDaemon.cfg MCOwslDaemon.tla
    tlapm OwslDaemon_proofs.tla

## 1. The system

tscp-anchor is a prototype of "trustless computation": programs run in a small
deterministic kernel, a prover server answers proof requests as long as the
machine has enough entropy, and artifacts that an operator has ratified are
anchored as hashes on an Ethereum contract.  Around this core are
libraries for multilinear and FRI proofs, tools that check receipts, releases
and governance documents, and Lean developments.

### Components

| Component | State | Operations | What makes it correct |
|---|---|---|---|
| Entropy daemon, `src/owsl_ipc.py` | a sliding window of frames, a bounded list of anomalies, the status it last wrote | sample every 30 s, classify, write; stop on a signal; restart | a status permits work only if the reading behind it is above the floor and no critical anomaly is in sight; the gate reopens when it should |
| Status file, `src/owsl_ipc.py`, `crates/prover-server/src/owsl_bridge.rs` | the file, temporary files | write a temporary file and rename it; read | a reader never finds half a status |
| Bridge, `owsl_bridge.rs` | the last status | read the file, check age, hash and permission | any doubt is a denial |
| Prover server, `crates/prover-server/src/main.rs`, `edia/mod.rs` | a semaphore of 4 permits, a mutex around the agent, a counter of pending requests | handle a request: acquire, count, ask the gate, prove, answer; be dropped when the client goes | no permit is lost, the counter is exact, every request ends |
| Anchor contract, `contracts/TSCPAnchor.sol` | anchored hashes, committers, event log | authorize, revoke, commit | log and mapping agree, nothing is anchored twice |
| Anchoring pipeline, `scripts/ratify-tscp.mjs`, `scripts/scan-ratified.mjs`, `anchor-sepolia.mjs`, `.github/workflows/anchor.yml` | artifact files, receipts, submitted transactions | ratify, scan, query, commit, wait, record | only ratified text is anchored; what is ratified is anchored in the end; of several submissions of a hash one wins |
| Kernel and replay, `crates/tscp-kernel`, `crates/tscp-cli` | a state hash, receipts | dispatch an event, replay a log | events chain; an event is applied once; an accepted log replays to the same receipts |
| Sumcheck and multilinear oracle, `crates/oracle-layer/src/{oracle,folded,sumcheck}.rs`, `main.rs` | a folded table | prove a round, verify | honest proofs are accepted, altered ones are not |
| FRI, `crates/oracle-layer/src/{fri,fri_protocol,fri_query,merkle,fft,poly}.rs` | layers, Merkle trees | commit, fold, query, verify | folding keeps the degree bound; a layer that was altered is found by its queries |
| Quotient and constraints, `crates/oracle-layer/src/{quotient,constraint/*,constraint_oracle}.rs` | a trace | evaluate constraints, divide | the quotient is a polynomial iff the constraints hold |
| DEEP-ALI, `crates/prover-server/src/{deep_ali,deep_ali_fri,poly_ir}.rs` | a soundness budget | compute quotients, verify a batch | the budget only shrinks; the verdict needs every check |
| Proof envelope, `crates/tscp-protocol` | none | seal, open | versions agree |
| Telemetry verifier, `crates/tscp-verifier` | phase timers, the artifact, what it has read of `.git` | prove, verify, read the commit, emit | the artifact tells the verdict, the time and the commit |
| Batch and receipt tools, `anchor-agent.mjs`, `anchor-batch.mjs`, `scripts/*receipt*.mjs`, `scripts/*audit*.mjs` | manifests | build, normalize, verify | the verdict is that of the receipt |
| FRI verifier contract, `contracts/TSCPFriVerifier.sol` | mode, owner, authorized provers, gate, verified traces | set, authorize, transfer, verify | nothing is verified while the verification is a placeholder |
| FRI codec, `crates/tscp-verifier/src/oracle_bridge.rs`, `scripts/fri_proof_v1_reference.py` | none | encode, decode | decoding inverts encoding, and takes nothing else |
| Continuity runtime, `continuity-runtime-alpha` | a ledger | append, replay | records chain |
| Governance, custody, release tools, `scripts/validate_*.py`, `tscp-pl-reference`, `tscp-l3`, `release.py`, `crates/upgrade_driver.sh` | documents | validate, upgrade, roll back | a stage that fails stops the release |
| Lean developments, workflows, documents, recorded evidence | - | - | - |

### Interaction

    /proc/.../entropy_avail --> daemon --(temporary file, rename)--> status file
                                                                         |
       client --> prove_handler --(once per request)--> bridge ----------+
                    semaphore, EdiaAgent mutex
                              |
                              +--> sumcheck, self-check --> envelope --> client

    prover-server (DEEP quotient) --+
    tscp-verifier (telemetry) ------+--> fri_prove, fri_verify (oracle-layer)
          |         |
        .git    proof_bytes --> somebody who decodes and verifies

    operator --> ratify-tscp --> artifact <-- scan-ratified <-- push (workflow)
                      \                            /
                       +------> anchor-sepolia ----+--> TSCPAnchor on chain
                                   \--> anchor-receipts/

The daemon and the server share nothing but the status file.  The scripts share
the artifact files, the receipts directory, one wallet and the contract.

### What is hard

- The verdict of the daemon depends on the history of two bounded deques, one of
  which also expires, on slices of it, and on restarts that forget it.
- Writers of one status file share a temporary path, and may be interrupted
  anywhere between open and rename.
- A request handler is a future that may be dropped wherever it waits; permit,
  guard and mutex must be released for exactly what was acquired.
- The age limit of a status (60 s), the write interval (30 s) and the time by
  which a write is late decide together whether a live daemon keeps the gate open.
- Events reach a kernel late, twice or at another engine than they were built
  for; the log that is replayed may have been half written or edited.
- A prover and a verifier derive the same challenges from two transcripts that
  are written in different places; two programs decide the same question for the
  sumcheck, three for FRI.
- Folding a vector and halving a polynomial, two interpolations and two
  divisions compute the same thing by different ways, with the domain's order
  and the signs hidden in indices.
- A soundness budget is spent by two sides that must agree, and either may lose
  its account.
- The telemetry verifier reads `HEAD`, a ref and `packed-refs` one after the other
  while git moves them, and nests timers whose sum it reports.
- Ratification and anchoring run as separate processes over the same files and
  wallet, swallow exceptions, leave transactions behind when they die, and
  decide on files they read again later.

`PROJECT.json` lists these hazards one by one, each at its line, with the
properties that cover it or the reason why none does.

## 2. Modules

| Module | Models | Uses |
|---|---|---|
| `OwslLatch` | abstract: what the daemon promises | |
| `OwslDaemon` | the daemon | `OwslLatch` (refinement) |
| `StatusRegister` | abstract: an atomic register | |
| `StatusFile` | writing the status file | `StatusRegister` (refinement) |
| `Admission` | abstract: bounded admission | |
| `ProverServer` | the request handler | `Admission` (refinement) |
| `OwslSystem` | daemon, file, clock, bridge and server together | `OwslDaemon`, `ProverServer` (INSTANCE) |
| `AnchorContract` | `TSCPAnchor.sol` | |
| `AnchorPipeline` | ratification, scan, anchoring, chain | `AnchorContract` (INSTANCE) |
| `Kernel` | the transition kernel, the replay engine, the command line tool | |
| `Field` | the prime field, vectors, Fiat-Shamir samples | |
| `Mle` | multilinear extensions, folded columns, the constraint of a register | `Field` |
| `Sumcheck` | the end of `prove_handler`, the envelope, the library's sumcheck | `Mle` |
| `Polynomials` | transforms, interpolation, division | `Field` |
| `Fri` | folding, Merkle trees, prover and verifiers of FRI | `Polynomials` |
| `FriCodec` | the words of a proof, the decoder | `Field` |
| `DeepAli` | the DEEP quotient and its FRI, the batch verifier, the soundness account | `Fri` |
| `Telemetry` | the instrumented verifier, its artifact, a reader of its proof | `Fri`, `FriCodec` |
| `FriClients` | all users of FRI, one at a time | `DeepAli`, `Telemetry` |
| `MC...` | constants for TLC | |
| `..._proofs` | theorems and proofs; those of `StatusFile` stand in `OwslSystem_proofs`, of `AnchorContract` in `AnchorPipeline_proofs` | the module of that name |

Definitions named "Mutant of D" in their comment stand just before `D`.  They are
`D` with a plausible mistake and are used nowhere: they document, for each
property, a mistake in the code that the property would reveal.

### OwslDaemon

`frames` and `anomalies` are the two deques of `AnomalyDetector`; `status` is what
was last written; `avail` is the reading behind it, a history variable for the
properties.  `Sample` is one call of `_sample_and_write` with a value from
`/proc`, `SampleUnreadable` the same call when the read fails: it records one
critical anomaly for the failure and, because 0 stands for the reading, a
second one in `record`.  `Check` is `_check`, `Classify` is `classify`, and
`StatusOf` builds the status.  Timestamps are left out: at each sample any
prefix of the window may have expired, which covers every length of sleep.
`Permits` is what the bridge asks of a fresh status with a valid hash.

`OwslLatch` says what this amounts to: a critical reading closes the gate and
takes the credit away, each later non-critical anomaly gives one unit of credit
back, and the gate is open exactly if the credit is complete and the reading
was above the floor.  `LatchSpec` is the claim that the daemon implements it,
with `Credit`, the number of anomalies since the last critical one, and
`avail > CriticalBits` as the refinement mapping.

### StatusFile

Files are inodes, so that a writer may go on writing into a file somebody else
has renamed.  A writer opens (creating or truncating), writes, renames, may find
that its temporary file is gone (`ReplaceFails`), may crash, and is restarted
unless it is the one-shot `owsl_ipc.py test`.  Two overlapping writes on one inode
may leave a mixture of both.  `TmpOf` gives each writer its temporary path: own
paths for one Python daemon or the Rust function (whose name is unique per
call), a shared one for the daemon with `owsl_ipc.py test` at its side.

### ProverServer

One action per stretch of `prove_handler` between two points at which another
task can run: `Enter`/`Reject` (try_acquire), `LockForGuard`, `CloneCounter`,
`Increment` (EdiaGuard::acquire), `LockForRead`, `ReadPending`,
`PassGate`/`DenyGate`, `Respond`, and the destructors `DropGuard`, `DropPermit` in
the order Rust runs them.  `Cancel` drops the future where it waits.  The
computation between gate and response has no effect on the shared state and ends
in 200, 400 or 500.  `gate` changes at any time here; `OwslSystem` puts the
real gate in its place.

### OwslSystem

Composes the daemon with the server through the status file, here the register
that `StatusFile` implements.  `file` holds what a reader can tell: who wrote it,
whether the hash verifies, whether it permits.  `Tick` is the clock; `elapsed` (since
the status was written) and `slept` count ticks; a running daemon is at most
`Jitter` ticks late.  `SetBack` sets the wall clock back, at most `MaxBack` ticks in
all: the age the bridge computes is `elapsed - back`, and a status from the future
counts as fresh.  With
`WholeSeconds` the daemon's hash may fail to verify, because Python and Rust print
a whole number of seconds differently.  `Bootstrap` is `owsl_ipc.py test`.

### AnchorContract, AnchorPipeline

`AnchorContract` has one action per function of the contract.  In
`AnchorPipeline` each process is a run of `scan-ratified.mjs` or `ratify-tscp.mjs`
together with `anchor-sepolia.mjs`, the script both start
(`scan-ratified.mjs:71`, `ratify-tscp.mjs:31`).  Reading, querying, sending,
waiting and recording are separate steps; transactions wait in `mempool` and are
mined in any order, also after their sender has died, and after the owner has
revoked the wallet (`Revoke`).  A hash is the pair of file and text, since sha256
and keccak256 are taken to be injective; a text ratified by an operator is that
operator, because it carries the time of its ratification.  `Record` is what follows
the block: the script reads the artifact again with its contents as the path, which
throws, because no file is called like that (`PipelineAssumption`), so that neither
the anchor is embedded nor the receipt written.  `anchor-agent.mjs`, which would
write one, is run by hand against a node, a signer and a contract of its own, and is
not modelled.

### Kernel

Each engine has the fields of `ReplayEngine`.  `Apply` is `dispatch_event` when it
accepts; a rejection changes nothing, so it is no step of a live engine.
`built` keeps every event a caller has built: `Deliver` may hand it to any
engine, late or again.  The hash of a state is the sequence of what was hashed
into it, since the hash is taken to be injective; the ruleset version is not part
of it in the code, nor here.  The hash of an event stands for the event.
`SaveOpen` and `SaveWrite` are the two halves of `fs::write`, so a replay, a crash
(`Restart`) or both may come between; `Damage` loses, swaps or changes events of a
finished log.  The replay goes event by event (`ReplayApply`) until the first error
(`ReplayRejects`).  `origin` is a history variable: the receipts of the engine
that wrote the log a replay has read.

### Sumcheck

One job is one request past the gate, or one oracle of a constraint for the
library.  `Validate`, `Setup`, `Claim`, `Prove`, `BeginCheck`, `CheckRound`,
`SelfCheckFails` and `Ship` are the stretches of `prove_handler` from the columns to
the sealed envelope, `Open` is a client of some version, `VerifyTrace` is
`verify_sumcheck`.  `challenger` and `verifier` are the two transcripts of the handler;
a transcript is the sequence of what was observed, and `fs` holds what was drawn
from it: the same transcript answers the same, a new one answers anything.  So
every challenge is tried, and a challenge that is not bound to what it should be
bound to would differ between prover and verifier.  The self-check exists for a
prover that errs; therefore a job has an honest prover, or one whose claim and
rounds are anything.

### Fri, DeepAli, FriClients

`FriCommit`, `FriFold`, `FriQuery` and `FriFinish` are the stretches of `fri_prove`
between two samples; `CommitLayers` with `VerifyCommitment` and
`VerifyCommitmentTranscript` is the commit phase that is computed again;
`FriVerify` the verifier by queries.  The digest of a subtree is the number its
leaves spell, so `Compress` and `VerifyOpening` compute with digests only, as the
code does, and hashes are injective.  A faulty prover has one value of each fold, or
the last value, wrong, and commits to what it has.

`ComputeDeepQuotient` is `compute_deep_quotient` behind its gate, with every error
in the order it is found and with what was observed until then; `WireFri`,
`ProveFri` and `VerifyFri` are `deep_ali_fri.rs`.  `VerifyDeepBatch` is the batch verifier,
which nothing calls yet, with its three errors and the gate at the end.  `Consume` and
`Reset` work the accumulator of two sides.  Numbers above the order of the field do
not occur, so observing an integer is the identity there.

### Telemetry, FriCodec

`timer` and `vtimer` are the two `PhaseTimer`s with their active phases; `Tick` is the
clock.  `BeginProving` to `FinishVerify` are `prove_instrumented_internal` and
`verify_instrumented_with_proof`; `ReadHead`, `ReadRef` and `ReadPackedRefs` are the reads of
`provenance.rs`, between which `GitCommit` and `PackRefs` may move the repository;
`EmitArtifact` and `EmitFails` are the end of `prove_and_emit`.  `Deliver` hands the
encoded proof to a reader, with at most one word altered, lost or added, and forgets
the rest of the run; `Reread` decodes and verifies.  A word is one number of the
format; widths in bytes are left out.

## 3. What TLC checks

| Run | Bounds | Shows |
|---|---|---|
| `owsl_daemon` | thresholds 64/256, five readings, window 3, anomalies 4, status 3, lookback 2 | `PermitIsEarned`, `LatchSpec`, `WarningsReopen` |
| `owsl_daemon_sticky` | the same | `HealthyReopens` is violated |
| `status_file_own` | two writers, own paths, 2 statuses, 5 inodes | `ReplaceFindsFile`, `RegisterSpec` |
| `status_file_shared` | daemon and one-shot writer, one path, 4 inodes | `Repaired` |
| `prover_server` | 3 requests, 2 permits | `Accounting`, `AdmissionSpec`, `EveryRequestEnds` |
| `owsl_system` | 3 readings, window 3, histories of 1, 2 requests, 1 permit, age limit 4, interval 2, jitter 1, clock set back by 1 | `FreshWhileRunning`, `AdmittedOnHealth`, `DeadDaemonCloses` |
| `owsl_system_bootstrap` | the same, all hashes of the daemon verify, clock not set back | `BootstrapPermits` is violated |
| `anchor_pipeline` | 1 file, 1 scanner, 2 operators, 2 failures or revocations | `AnchoredIsRatified`, `OneCommitWins`, `RatifiedGetsAnchored` |
| `anchor_pipeline_receipt` | 1 file, 1 scanner, 1 operator, no failure | `AnchoredGetsReceipt` is violated |
| `kernel` | 2 engines of different versions, 2 contents, 2 events per engine | `ReceiptsChain`, `NoEventTwice`, `HashCommitsHistory`, `IntactLogReplays` |
| `sumcheck` | field of 3, columns of 0 to 4 values, traces of 1 and 2 rows, honest and lying provers, 2 client versions | `VerdictIsRight`, `VerifiersAgree`, `OracleTellsColumns`, `OpenedIsVerified`, `EveryJobIsAnswered` |
| `fri_clients` | field of 5, domains up to 4, up to 2 queries, 2 consumes of 0, 2 or 4 of 5 bits, clock to 2, 2 commits of the repository | `PolynomialsMeet`, `VerdictsDecide`, `DeepQuotientBinds`, `AccountIsKept`, `BatchVerdict`, `ArtifactTellsRun`, `CodecIsExact`, `RepoCommitWasTip`, `EveryJobEnds` |

The type invariants of `ProverServer`, `AnchorPipeline`, `Sumcheck` and `FriClients` are checked
by their runs and proved; those of `OwslDaemon`, `StatusFile`, `Kernel` and `AnchorContract`
are proved only (section 4), and so are `NeverTorn` of the status file and the agreement
of log and mapping of the anchor contract.

Some properties are conjunctions of named parts.  `Accounting` (`ProverServer`) joins
the permits, the counter of pending requests, its bound, what handlers log and the
mutex.  `VerdictIsRight` (`Sumcheck`): an honest prover is never turned away; a wrong
sum is accepted only by a lucky challenge; the two transcripts meet.
`OracleTellsColumns`: folding commutes with binding; the oracle extends the column;
one broken rule of a register is seen.  `VerdictsDecide` (`Fri`): recomputing accepts
exactly the right proofs; queries accept exactly the proofs whose queried paths
fold; the verifier draws the prover's challenges.  `PolynomialsMeet`: a fold halves the
polynomial; both interpolations agree with Lagrange's formula; the
vanishing polynomial divides a rule exactly if it holds in every row, by either
division.  `DeepQuotientBinds`: the quotient answers the queries, and is what FRI
commits to.  `AccountIsKept`: equal transcripts mean equal accounts; no bit is made or
lost.  `ArtifactTellsRun`: phases nest; a verdict is reported with its measurements or
without any.  `CodecIsExact`: words decode to the proof they encode, to no other, and
from no other words.  `AnchoredIsRatified`: only ratified text is anchored, and it is
what the file still holds unless two operators ratify at once; even then an anchored
file never holds a draft again, but one of the two texts or half of it.
`OneCommitWins`: log and mapping agree and nothing is logged twice, however often a
hash was submitted after a simulation that succeeded; one run at most is told that
its commit went through; and a run that is told of a revert has lost to a commit of
the same hash, unless something failed or the wallet was revoked.

**Why the bounds are enough.**  The daemon's run keeps the order of the code's
limits (lookback < status < history) and lets every deque overflow and every
slice cut; the readings lie below the floor, on it, in the warning band and at
two healthy levels a rate drop apart.  Two writers suffice for every overlap on
an inode that a rename makes; five inodes cover two paths, two open files and
the target.  Three requests on two permits give holding, waiting and rejected
requests at the same time.  In the composed run the proportions of the code
are kept (the age limit is two intervals), and a jitter of one tick stands for a
daemon that is half an interval late.  A clock set back by one tick makes a status one tick younger than it is
and, just after it was written, a status from the future.  The pipeline needs
three processes on one file: two operators, so that a text is overwritten while a
third process reads it, and a scan between them; with one operator nobody ever
reads half a file.  Two failures are a crash followed by an RPC error or a
revocation.  A scan's loop over several files has no state but the list of
those it has still to visit; with one file that list is empty after the first
visit, so that a scan goes on to the next file after a failure is proved for
every number of files (section 4) but not checked by the run.  The kernel needs two engines to
write and to replay, two contents for an event to be replaced by another, and two
events for an order, which are also both transition kinds.
In the field of three elements the sumcheck tries every claim, every round and
every challenge of two variables, so a lying prover is lucky and unlucky in each
round; the traces break no rule, one rule or several.  The field of five has
two-adic subgroups of two and four, so FRI folds once and twice and a transform has
two stages; a third stage, where all twiddle factors differ, is not reached.
The traces of 27 columns of three values, and every link of two cells, are checked
one by one.  `fri_clients` runs one client at a time, as each of them does; the plain
caller shares the variables of the telemetry job.  The git repository moves only while
it is read, and has a ref that is loose, packed or both, or a detached head.
Traces are as wide as their `num_columns` says, which the callers see to.
Bounds stand in guards where the code counts nothing: `MaxFailures` (failures are
the environment's), `MaxLength` (a log may grow for ever), `MaxBack`, `MaxClock`,
`MaxCommits`, `MaxConsumes`.

**Fairness.**  `OwslDaemon`: the service manager restarts the daemon and its loop
samples again.  `StatusFile`: weak fairness for opening and restarting; strong
fairness for write and rename, that is, crashes do not hit every attempt.
`ProverServer`: a runtime polls every task that is ready (weak), and tokio's mutex
hands the lock to waiters in order (strong fairness for locking; no fairness
for the gate, for clients or for cancellation).  `OwslSystem`: time goes on; nothing
forces the daemon to live.  `AnchorPipeline`: pushes trigger scans, running
scripts go on, the chain mines, the owner authorizes the wallet; no fairness for
ratification or for failures, whose number is finite.  `Sumcheck`: the handler is one
synchronous computation past the gate.  `FriClients`: a call that was made runs to its
end on its own thread (proving, verifying, the telemetry job); none for the
environment: git, damage, consumes.  Fairness of `ComputeDeepQuotient`,
`WireFri` and `VerifyDeepBatch` is left out, because TLC takes too long to decide whether
these actions are enabled; that they end is not checked.

### Disagreements found

1. *A failed read closes the gate for good* (`HealthyReopens`).  The comment at
   `src/owsl_ipc.py:264` says the unreadable branch exists so that the bridge
   does not block forever.  The branch records critical anomalies, healthy
   readings record none, and `classify` looks at the last five anomalies however old
   they are.  Only warnings or rate drops (`WarningsReopen`) or a restart clear it.
2. *The bootstrap status never opens the gate* (`BootstrapPermits`), against the
   docstring at `src/owsl_ipc.py:345`: it has no content hash, and the bridge
   denies a status without one.
3. *No receipt after anchoring* (`AnchoredGetsReceipt`), against
   `tscp/impl/TSCP-IMPL-ANCHOR-0001.json:59`: `anchor-sepolia.mjs:39` uses the artifact's
   contents as a path and throws after the commit; later runs skip the hash.

A comment that lags behind its code, without a property of its own:
`contracts/TSCPFriVerifier.sol:7` still describes placeholders that return true, while they
revert, as lines 14 and 82 say.

`NeverTorn` and `ReplaceFindsFile` are claimed for writers with paths of their own
only.  A daemon and an `owsl_ipc.py test` that overlap share a temporary path, and
then a reader may find an incomplete status, which the bridge denies, and the
daemon may die of `FileNotFoundError`.  `Repaired` is what holds in that case.

## 4. What is proved

All proofs hold for every value of the constants that meets the named
assumptions of the modules.

**ProverServer_proofs** (assumptions: `Requests` finite, `Free` no request,
`MaxPermits` positive).  `TypeOK` says `permits \in 0..MaxPermits`, which is
not inductive alone: a return could push the permits over the maximum.  The
inductive invariant joins the types with the three accounting facts: permits plus
holders is the maximum, the counter is the number of counted handlers, the
mutex is held exactly in the two critical sections.  The effect of a step on
`Holding` and `Counted` is stated in lemmas about cardinalities; then there is
one case per action.  `AccountsAreExact` collects the parts of `Accounting`, each of
which is a theorem too.  `PendingIsBounded` follows because the counted handlers are
among the holders, `LoggedCountIsSane` because a reader of the counter has itself
been counted, `ImplementsAdmission` because `permits > 0` is the abstract
guard once the accounting holds.

**OwslDaemon_proofs** (assumptions: floor below warning threshold, lookback at
most the status' limit, that at most the history's, window at least 3).
`ImplementsLatch` needs to know how the credit of the anomaly list changes when
an element is pushed and another falls out at the other end: the lemmas
characterise `CreditOf` (`IsCredit`), show that a push of a critical anomaly
makes it 0 and any other push adds one up to the limit, and that the verdict,
which sees the list through a slice of a slice, finds a critical anomaly exactly if
the credit is not complete.  The invariant carries the bounds of the deques.

**The status file** (last part of `OwslSystem_proofs`, which extends `StatusFile` too;
hypothesis of the theorems: `TmpOf` is one-to-one, `OwnPath`, since the shared case
exists).  The invariant says
that an opened temporary file is its writer's alone, that after the write it
holds the complete status, and that the published inode is nobody's open file.
Without it a rename could publish what someone else is writing, which is what the
shared run shows.

**AnchorPipeline_proofs** (assumptions: scans and operators are different
processes, no operator is called like one of the fixed texts, and no file like any text).  The invariant
has three parts beside the types.  `Placed`: only operators
ratify, who works has a file, what was read to be anchored is ratified.  `Awaited`: a
transaction carries ratified text, and who waits for it has sent it for what he works
on and has not been told anything.  `Settled`: who is told that it was mined, or
records it, finds it on the chain.  Without `Awaited` a block could tell a process that
something else was mined.  The first half of
`RatifiedIsAnchored` is read off it.  Its last part needs `Current`: what was
ratified before, or by the only operator, is not written again, whether it has been
read, sent or anchored; a second operator who read the draft earlier is the one
exception, and `Final` says so.  What holds of that exception too is `Lasting`: the file
of what was read, sent or anchored holds ratified text or half of it.  `OneRunWins` adds
`Permitted`: whoever has sent something did so when the wallet was a committer, and only a
revocation, which counts as a failure, changes that.  A block then either commits a hash
that nobody had been told of, because `Settled` puts what anybody was told of on the
chain, or it tells a loser, and by `Permitted` the reason is the winner or a failure.
That an artifact's text is no file's name (`Files` and the texts are disjoint) makes
`Record` throw (`RecordThrows`). The theorems about the contract itself (`ContractIsTyped`;
`LogAgrees`: log and mapping agree and nothing is anchored twice; `LogOnlyGrows`) stand in
the same module; they need no assumption about accounts and hashes at all.

**Kernel_proofs** (assumption: `MaxLength` is a number).  The invariant says of
every engine that its counters equal the number of its receipts and that the
i-th receipt leads from the hash of the first i - 1 events to that of the first i
(`IsChain`), where the hash of a history is written as a function of its receipts
(`LinksTo`), so that no induction over the history is needed.  Equal hashes then
have equal links (`LinksInjective`), and histories with equal links are the same
transitions (`ChainsAgree`).  `NoEventTwice` follows because the length of an
event's parent is its place.
For `IntactLogReplays` the invariant adds that what a replay has still to apply is
exactly the rest of the events of `origin`, and that its receipts so far agree with
it; then the next event's parent is the current hash (`NextIsAccepted`), so a
rejection is impossible.

**OwslSystem_proofs** (assumptions: those of the daemon and of the server, and positive
age limit and interval). The two proof modules are used by `INSTANCE`, the server's with
the real gate in place of the free one: `ContainsDaemon` and `ContainsServer` show that
every behaviour of the system is one of each part, so that what is proved of the parts
holds here (`AccountsHold`). The invariant adds `FileInv`, what a reader can be told by
whom (only the daemon's status has a hash that verifies, and it permits what the daemon
last decided), and `TimeInv`, which ties the age of the file to the daemon's sleep.
`StatusIsFresh` has the hypothesis `Interval + Jitter < MaxAge`: with 30 s and 60 s, a
write that is less than 30 s late; without it the property is false. `AdmissionIsEarned`
needs no hypothesis about time: an open gate is the daemon's word, and no older than the
limit and the time by which the clock was set back.

**Sumcheck_proofs** (assumptions: `P` is a prime above 2; columns and traces are made of
field elements, traces have a power of two of rows, as `constraint_oracle.rs:25` and
`oracle.rs:18` assert). Powers of two end at 2^30 in all modules over the field
(`IsPowerOfTwo`, `Log2`): a longer column counts as badly formed, while the code would
take it. BabyBear has no subgroup of more than 2^27 elements anyway. The field laws come
from primality alone; that there are inverses is shown by multiplying with all elements.
What a sum, a product or a folded table computes is a recursive function, about which
facts are proved for the set of naturals that have them: no operator is passed to an
induction theorem, only a set. The multilinear extension is linear in each coordinate, so
the sum below a prefix is a line, the true round states its values at 0 and 1, and two
lines that differ meet in one point. Hence a wrong claim that is accepted has a first
round in which the stated line is right at the challenge although it is not the true one:
the lucky challenge of `VerdictIsRight`. The invariant has a part each for the types, the
honest prover, the transcripts, the rounds checked so far and the reply. The transcripts
meet because each is determined by its length and the rounds it has observed, and a
transcript is sampled once. `OraclesTellColumns` adds where the oracle comes from. The
attempt to prove `VerifiersDecideAlike` showed that two arms of a `CASE` in
`VerifySumcheck` overlapped; they are exclusive now, in the order of the code.

**FriClients_proofs** (assumptions: the field; vectors of the callers are made of field
elements, evaluations and domains are equally long and a power of two at most 2^30, points
are not zero, rows as wide as their request says, which `fri_query.rs:97`, `fri.rs:14` and
`merkle.rs:36` assert; a job of the telemetry verifier may violate these, because it is
checked before it is used; a repository has at least one commit; a trace the live path
transforms is of a size the field has roots of unity for, as `fft.rs:7` says of BabyBear;
a trace of the batch verifier has no more rows than the field has elements, and the
columns and shifts of a link come in pairs, which is how `deep_ali.rs:475` reads them).
Six arguments, all but the last with an invariant each:

- `AccountsAreKept` (`AccountInv`): the last three words a transcript was told are the
  account, on either side.
- `CommitWasTip` (`ProvenanceInv`): loose and packed refs and what was read of them were
  tips.
- `VerdictsAreRight` (`FriInv`, `ClientInv`). `FriInv` says that the layers halve and are
  typed, that an honest prover's are folds of each other, and that there is a log of the
  transcript in which every sample was drawn once. The lemmas: a digest is injective on
  leaves of one length; an opening verifies exactly if its path is that of the leaf, by
  induction on the height; a verifier's transcripts are the prover's, so its draws are; a
  recommitment gives the same layers exactly if every fold was right; the relation
  `VerifyQueryRound` checks is the fold. `ClientInv` says that whatever reaches FRI is a
  typed vector over invertible points: for the DEEP quotient this is a chain through the
  typing of powers, butterflies, both transforms, interpolation, division, combination and
  trimming.
- `ArtifactIsTrueOfRun` (`RunInv`): each stage of a telemetry run has its phase of FRI and
  an exact stack of running timers, whose starting times are ordered; a verdict is
  positive exactly if there were two evaluations or more.
- `TypeCorrect` (`TypeInv`): what types remain; that every word of an encoded proof is a
  number is shown through the encoder.
- `BatchVerdictIsRight` is read off the step that gives the verdict. That the value a link
  sees is the cell of the trace needs the interpolation over 0 .. n - 1 to take the values
  it was given (`InterpolateLagrangeNaive`): each basis polynomial is 1 at its own point
  and 0 at the others. The laws of a ring follow from those of residues (`Ring`).

**FriPipeline_proofs** (no further assumption) has three theorems. The first two rest on
lemmas about polynomials, of which those about roots and transforms stand at the end of
`FriClients_proofs`: powers of a root of unity repeat and sum up as they must;
`At(p, x)` is Horner's `EvaluateCoeffs`; a butterfly network evaluates at the powers of the
root (`fft_in_place`), and with the inverse root gives the coefficients back; a polynomial with
n coefficients and n roots is zero, by synthetic division at one root after the other.

`QuotientBinds` states `DeepQuotientBinds` for every field, trace, list of queries and
weights. Synthetic division of t - t(z) by x - z has no remainder, so each single quotient
is (t(x) - t(z)) / (x - z) off z, at every point of the domain; the weighted sum and the
trimming of zeros keep this, and the padded transform evaluates that sum over the domain
FRI folds. `DeepInv` carries it from stage to stage (`Answers`: what the quotient is of;
`Rooted`: its size has a root; `Wired`: the first layer is it), together with
`ClientInv` and `FriInv`, and says that an honest run is never rejected.

`PolynomialsAgree` states `PolynomialsMeet` under one hypothesis, `CallersGiveRoots`:
plain callers and telemetry jobs give FRI the powers of a root of unity, as
`two_adic_domain` (`deep_ali_fri.rs:111`) and `negation_closed_domain` of the tests
(`fri_query.rs:272`) do; the DEEP path is shown to (`SubgroupIsRoot`). It is a hypothesis
of this theorem and no assumption of the module because FRI does not check it, and the
tests of `oracle_bridge.rs` fold over other points (1, 6, 11, ...): what FRI computes there
is no fold of a polynomial, although the verdicts and the codec are right all the same,
for those theorems do not need it. TLC's instance satisfies the hypothesis
(`MCCallersGiveRoots`). The argument: over such a domain the halves are
negatives of each other, the squares are the powers of the squared root (`DomainInv`), and
the fold of a polynomial's values has the values of its even and odd parts combined
(`HonestFoldsHalve`). Lagrange's formula and both interpolations have a degree below n and
agree in n points, so they are one (`InterpolationsMeet`). Products evaluate to products
(`PolyTimesAt`); x^n - 1 is zero on the domain, so the rule is divisible exactly if it
holds in every row, and the quotient of `build_quotient` is that of the long division
(`RulesMeet`). `TransformsMeet` and `RuleVanishesOnRows` have no variable but the request,
so the hypothesis matters to folds only.

`CodecIsRight` states `CodecIsExact` for every field, run and job, from `FriInv`, `RunInv`
and `CodecInv` (the words of a run are those of its proof, that proof was made honestly, and what is delivered
are these words with one damage at most). Three steps lead to it. A parser and an encoder
are inverse to each other (`Inverts`) for digests, paths, roots, openings, rounds and
queries, and stay so when they are sequenced, repeated, or counted
(`read_bounded_len` rejects no list that was written, because every item takes a word);
hence `DecodeEncodes` and its converse. An accepted opening is one of the committed layer:
digests of height h lie in ranges of their own, so compression is injective and the way
from the root down is the prover's (`AcceptedClimbs`). Last, two proofs whose words differ
in one place differ in one field, one of two proofs of different shape is longer by two
words at least, and a field that differs is bound by a root: only the index of an opening
may change, to a place of the layer with the same value and the same path
(`DamageIsSeen`).

Not within the prover's reach, and left to TLC: the liveness properties (`WarningsReopen`,
`HealthyReopens`, `Repaired`, `EveryRequestEnds`, `DeadDaemonCloses`,
`RatifiedGetsAnchored`, `AnchoredGetsReceipt`, `EveryJobIsAnswered`,
`EveryJobEnds`), which rest on fairness and on ENABLED. Every invariant
and every action property that a passing run checks is stated by a theorem. Recursion is
written as recursive functions, about which the proofs reason by induction over a set of
naturals (`Induct`, `Up`), not by the library's theorems that take an operator.

## 5. Plan

The order is that of importance: first what decides whether the service may work
and what reaches the chain, then the kernel, then the proof system, then the tools
around them.

| Step | Modules | State |
|---|---|---|
| 1 | `OwslLatch`, `OwslDaemon`, `StatusRegister`, `StatusFile` | checked, proved |
| 2 | `Admission`, `ProverServer` | checked, proved |
| 3 | `OwslSystem` composing 1 and 2 | checked, proved |
| 4 | `AnchorContract` | checked, proved |
| 5 | `AnchorPipeline` composing 4 with the scripts | checked, proved |
| 6 | `Kernel` | checked, proved |
| 7 | `Field`, `Mle`, `Sumcheck` with the envelope | checked, proved |
| 8 | `Polynomials`, `Fri`, `FriCodec` | checked, proved |
| 9 | `DeepAli`: quotient, FRI, batch verifier, account | checked, proved |
| 10 | `Telemetry`, `FriClients` | checked, proved |
| 11 | receipt tools: a batch manifest, `normalize-receipt`, `verify-receipt` against later anchoring | planned |
| 12 | the upgrade driver's rollback, the ledger of the continuity runtime | planned |

No theorem is planned: what remains with TLC is liveness.

## 6. Not modelled

- Forward jumps of the clock: they only age a status, and close the gate.  Steps
  back are modelled.
- `EdiaAgent::step` and `ingest_telemetry`: only tests call them.  In `ProverServer` a
  proof is one of three answers; how it is made is `Sumcheck`.
- `get_owsl_anomalies` and `last_status` of the bridge, on which nothing decides.
- CBOR and JSON: a log or a status is complete or unreadable.
- Widths in bytes of the FRI format, and the Python reference of the codec.
- `poly_ir.rs`, which describes expressions and checks their depth; `interpolate` and
  `evaluate` of `poly.rs`, which call the transform of a library.
- `sumcheck_instrumented` and `PhaseTimer::set`, which nothing calls; identifiers, dates and sizes in an artifact.
- Two rules of a register that are broken in one row may cancel, since the
  constraint is a sum of squares in a finite field.  `OracleTellsColumns` claims
  nothing of that case.
- A status that is denied although it is healthy, because Python and Rust print a whole
  number of seconds differently: the model lets any of the daemon's hashes fail, and no
  property promises that a healthy status is admitted.
- A FRI prover that opens elsewhere than it is asked.  `fri_query.rs:49-57` compares an
  opening's value and path with the root and not its index with the one that was drawn;
  the faulty prover of `Fri` errs in a fold or in the last value and opens where it is
  asked.  Openings with another index occur only as damage to an encoded proof, where
  `CodecIsExact` says what is accepted.
- `anchor-agent.mjs`: run by hand with a node, a signer and a contract of its own.  What it
  writes to `anchor-receipts/` changes no decision: a scan searches the receipts for the
  file's sha256 and they hold its keccak256.
- `TSCPFriVerifier.sol`: every path of `verifyProof` ends in a placeholder that reverts
  (lines 82 to 89), so no trace is ever verified, and nothing depends on the owner, the
  provers, the mode and the status that its other functions store.  A model of it is worth
  writing when a placeholder is replaced.
- Batch anchoring, receipt and audit tools, continuity runtime, upgrade driver:
  steps 11 and 12.
- Governance and release validators apply a schema to documents one after the
  other; their stages are planned only as far as one failing stage must stop
  the others.
- Lean developments are proofs already; workflows and documents hold no logic
  beyond `anchor.yml`, which `AnchorPipeline` includes.
