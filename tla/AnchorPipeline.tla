--------------------------- MODULE AnchorPipeline ---------------------------
(***************************************************************************)
(* Ratification and anchoring of artifacts: scripts/ratify-tscp.mjs,       *)
(* scripts/scan-ratified.mjs (run by the anchor workflow at every push,    *)
(* and runs may overlap), and anchor-sepolia.mjs, which both of them       *)
(* start: it checks isAnchored, commits, waits for the block and then      *)
(* embeds the anchor and records a receipt.                                *)
(* The hash of a file is injective: it is the file's name and text.        *)
(***************************************************************************)
EXTENDS Naturals, Sequences, FiniteSets

CONSTANTS
  Files,         \* artifacts
  Scanners,      \* runs of scan-ratified.mjs
  Ratifiers,     \* operators running ratify-tscp.mjs
  Wallet, Owner, \* the scripts' account and the contract's owner
  MaxFailures,   \* bound on crashes, RPC errors and revocations
  Nothing        \* no file, no text

ASSUME PipelineAssumption ==
  /\ IsFiniteSet(Files) /\ Scanners \cap Ratifiers = {} /\ Nothing \notin Scanners \cup Ratifiers
  /\ Ratifiers \cap {"draft", "ratified", "embedded", "truncated"} = {}
  /\ Files \cap (Ratifiers \cup {"draft", "ratified", "embedded", "truncated"}) = {}
  /\ MaxFailures \in Nat

Processes == Scanners \cup Ratifiers
\* A ratified text carries the time of its ratification: texts of different
\* operators differ, and from the one a file may have from the start.
RatifiedTexts == Ratifiers \cup {"ratified"}
Texts == RatifiedTexts \cup {"draft", "embedded", "truncated"}
Hashes == Files \X Texts

VARIABLES
  text,          \* what each artifact file holds
  todo,          \* files a scan has still to visit
  pc,            \* where each process is
  file,          \* the artifact a process is working on
  raw,           \* the text it has read
  mempool,       \* submitted transactions, [hash, by]; by: who waits
  outcome,       \* what became of the transaction a process waits for
  receipts,      \* hashes with a file in anchor-receipts/
  failures,      \* crashes, RPC errors and revocations so far
  anchored, committers, events    \* the contract

scriptVars == <<text, todo, pc, file, raw, receipts>>
chainVars == <<anchored, committers, events>>
vars == <<scriptVars, mempool, outcome, failures, chainVars>>

Contract == INSTANCE AnchorContract WITH Accounts <- {Wallet, Owner}

Goto(p, from, to) == pc[p] = from /\ pc' = [pc EXCEPT ![p] = to]
Fail == failures < MaxFailures /\ failures' = failures + 1
BatchHash(p) == <<file[p], raw[p]>>

\* The process is done with its artifact, and a scan goes to the next one.
Resume(p) == IF p \in Scanners THEN "scanning" ELSE "idle"
Leave(p, from, to) ==
  /\ Goto(p, from, to)
  /\ file' = [file EXCEPT ![p] = Nothing]
  /\ raw' = [raw EXCEPT ![p] = Nothing]

\* Nobody waits any more for what p has submitted.
Abandon(p) ==
  /\ mempool' = {[tx EXCEPT !.by = IF @ = p THEN Nothing ELSE @] : tx \in mempool}
  /\ outcome' = [outcome EXCEPT ![p] = "none"]

Init ==
  /\ text \in [Files -> {"draft", "ratified", "embedded"}]
  /\ todo = [p \in Processes |-> {}]
  /\ pc = [p \in Processes |-> "idle"]
  /\ file = [p \in Processes |-> Nothing]
  /\ raw = [p \in Processes |-> Nothing]
  /\ mempool = {}
  /\ outcome = [p \in Processes |-> "none"]
  /\ receipts = {}
  /\ failures = 0
  /\ Contract!Init
-----------------------------------------------------------------------------
\* scan-ratified.mjs

StartScan(p) ==
  /\ p \in Scanners
  /\ Goto(p, "idle", "scanning")
  /\ todo' = [todo EXCEPT ![p] = Files]
  /\ UNCHANGED <<text, file, raw, mempool, outcome, receipts, failures, chainVars>>

EndScan(p) ==
  /\ p \in Scanners /\ todo[p] = {}
  /\ Goto(p, "scanning", "idle")
  /\ UNCHANGED <<text, todo, file, raw, mempool, outcome, receipts, failures, chainVars>>

\* Mutant of Eligible: the status is not looked at.
EligibleAnyStatus(f) == text[f] \in RatifiedTexts \cup {"draft"}

\* Mutant of Eligible: what an operator has ratified is left to the operator.
EligibleOlder(f) == text[f] = "ratified"

\* The checks of the loop on the text just read: it parses, has no embedded
\* anchor, and is RATIFIED.  The receipts are searched for the file's sha256,
\* which is never the keccak256 a receipt holds, so they exclude nothing.
Eligible(f) == text[f] \in RatifiedTexts

\* One turn of the loop that skips the file, or starts the anchoring script.
Visit(p, f) ==
  /\ f \in todo[p]
  /\ pc[p] = "scanning"
  /\ todo' = [todo EXCEPT ![p] = @ \ {f}]
  /\ IF Eligible(f)
     THEN /\ pc' = [pc EXCEPT ![p] = "reading"]
          /\ file' = [file EXCEPT ![p] = f]
     ELSE UNCHANGED <<pc, file>>
  /\ UNCHANGED <<text, raw, mempool, outcome, receipts, failures, chainVars>>
-----------------------------------------------------------------------------
\* ratify-tscp.mjs

\* Read the file and check its status.
RatifyRead(p, f) ==
  /\ p \in Ratifiers
  /\ text[f] = "draft"
  /\ Goto(p, "idle", "ratifying")
  /\ file' = [file EXCEPT ![p] = f]
  /\ UNCHANGED <<text, todo, raw, mempool, outcome, receipts, failures, chainVars>>

\* writeFileSync: the file is opened, which truncates it, ...
RatifyOpen(p) ==
  /\ Goto(p, "ratifying", "writing")
  /\ text' = [text EXCEPT ![file[p]] = "truncated"]
  /\ UNCHANGED <<todo, file, raw, mempool, outcome, receipts, failures, chainVars>>

\* Mutant of RatifyWrite: the wrong variable is written.
RatifyWriteRaw(p) ==
  /\ Goto(p, "writing", "reading")
  /\ text' = [text EXCEPT ![file[p]] = raw[p]]
  /\ UNCHANGED <<todo, file, raw, mempool, outcome, receipts, failures, chainVars>>

\* ... and written; then the anchoring script is started.
RatifyWrite(p) ==
  /\ Goto(p, "writing", "reading")
  /\ text' = [text EXCEPT ![file[p]] = p]
  /\ UNCHANGED <<todo, file, raw, mempool, outcome, receipts, failures, chainVars>>
-----------------------------------------------------------------------------
\* The anchoring script

\* It reads the file for itself ...
ReadFile(p) ==
  /\ Goto(p, "reading", "querying")
  /\ text[file[p]] # "truncated"
  /\ raw' = [raw EXCEPT ![p] = text[file[p]]]
  /\ UNCHANGED <<text, todo, file, mempool, outcome, receipts, failures, chainVars>>

\* ... and text that does not parse ends it.
ReadFails(p) ==
  /\ Leave(p, "reading", Resume(p))
  /\ text[file[p]] = "truncated"
  /\ UNCHANGED <<text, todo, mempool, outcome, receipts, failures, chainVars>>

\* isAnchored: go on, or SKIP and exit 0.
QueryAbsent(p) ==
  /\ BatchHash(p) \notin anchored
  /\ Goto(p, "querying", "sending")
  /\ UNCHANGED <<text, todo, file, raw, mempool, outcome, receipts, failures, chainVars>>

QueryAnchored(p) ==
  /\ BatchHash(p) \in anchored
  /\ Leave(p, "querying", Resume(p))
  /\ UNCHANGED <<text, todo, mempool, outcome, receipts, failures, chainVars>>

\* anchor.commit: the call is simulated first; if it would not revert now the
\* transaction is submitted.
Send(p) ==
  /\ Contract!CanCommit(Wallet, BatchHash(p))
  /\ Goto(p, "sending", "waiting")
  /\ mempool' = mempool \cup {[hash |-> BatchHash(p), by |-> p]}
  /\ UNCHANGED <<text, todo, file, raw, outcome, receipts, failures, chainVars>>

SendThrows(p) ==
  /\ ~Contract!CanCommit(Wallet, BatchHash(p))
  /\ Leave(p, "sending", Resume(p))
  /\ UNCHANGED <<text, todo, mempool, outcome, receipts, failures, chainVars>>

\* Mutant of Mine: the chain relies on the simulation before submission.
MineUnchecked(tx) ==
  /\ mempool' = mempool \ {tx}
  /\ anchored' = anchored \cup {tx.hash}
  /\ events' = Append(events, [hash |-> tx.hash, committer |-> Wallet])
  /\ UNCHANGED committers
  /\ outcome' = IF tx.by = Nothing THEN outcome ELSE [outcome EXCEPT ![tx.by] = "ok"]
  /\ UNCHANGED <<scriptVars, failures>>

\* A block with one of the submitted transactions: it commits, or reverts
\* because another one has been first or the wallet is no committer now.
Mine(tx) ==
  /\ mempool' = mempool \ {tx}
  /\ \/ Contract!Commit(Wallet, tx.hash)
     \/ ~Contract!CanCommit(Wallet, tx.hash) /\ UNCHANGED chainVars
  /\ outcome' = IF tx.by = Nothing THEN outcome
                ELSE [outcome EXCEPT ![tx.by] = IF chainVars' = chainVars THEN "reverted" ELSE "ok"]
  /\ UNCHANGED <<scriptVars, failures>>

\* tx.wait returns the block ...
Confirm(p) ==
  /\ outcome[p] = "ok"
  /\ Goto(p, "waiting", "recording")
  /\ outcome' = [outcome EXCEPT ![p] = "none"]
  /\ UNCHANGED <<text, todo, file, raw, mempool, receipts, failures, chainVars>>

\* ... or throws for a reverted transaction.
ConfirmThrows(p) ==
  /\ outcome[p] = "reverted"
  /\ Leave(p, "waiting", Resume(p))
  /\ outcome' = [outcome EXCEPT ![p] = "none"]
  /\ UNCHANGED <<text, todo, mempool, receipts, failures, chainVars>>

\* The anchor is to be embedded in the artifact and the receipt written, but
\* the script reads and writes the artifact by a path that is its text (lines
\* 39 and 48): unless a file of that name exists it throws before either.
Record(p) ==
  /\ Leave(p, "recording", Resume(p))
  /\ IF raw[p] \in Files
     THEN /\ text' = [text EXCEPT ![raw[p]] = "embedded"]
          /\ receipts' = receipts \cup {BatchHash(p)}
     ELSE UNCHANGED <<text, receipts>>
  /\ UNCHANGED <<todo, mempool, outcome, failures, chainVars>>

\* The RPC node does not answer, refuses the nonce, or is out of funds.  A
\* scan swallows the exception and goes on.
RpcError(p) ==
  /\ pc[p] \in {"querying", "sending", "waiting"}
  /\ Fail
  /\ Leave(p, pc[p], Resume(p))
  /\ Abandon(p)
  /\ UNCHANGED <<text, todo, receipts, chainVars>>

\* The process, and with it the anchoring script, is killed.
Crash(p) ==
  /\ pc[p] # "idle"
  /\ Fail
  /\ Leave(p, pc[p], "idle")
  /\ Abandon(p)
  /\ todo' = [todo EXCEPT ![p] = {}]
  /\ UNCHANGED <<text, receipts, chainVars>>

\* The owner authorizes the wallet some time after deployment ...
Authorize ==
  /\ Contract!AuthorizeCommitter(Owner, Wallet)
  /\ UNCHANGED <<scriptVars, mempool, outcome, failures>>

\* ... and may revoke it while transactions are under way.
Revoke ==
  /\ Fail
  /\ Contract!RevokeCommitter(Owner, Wallet)
  /\ UNCHANGED <<scriptVars, mempool, outcome>>
-----------------------------------------------------------------------------
Script(p) ==
  \/ ReadFile(p) \/ ReadFails(p) \/ QueryAbsent(p) \/ QueryAnchored(p)
  \/ Send(p) \/ SendThrows(p) \/ Confirm(p) \/ ConfirmThrows(p)
  \/ Record(p) \/ RatifyOpen(p) \/ RatifyWrite(p)

Scan(p) == StartScan(p) \/ EndScan(p) \/ \E f \in Files : Visit(p, f)

Next ==
  \/ \E p \in Processes :
       \/ Scan(p) \/ Script(p) \/ RpcError(p) \/ Crash(p)
       \/ \E f \in Files : RatifyRead(p, f)
  \/ \E tx \in mempool : Mine(tx)
  \/ Authorize \/ Revoke

Spec == Init /\ [][Next]_vars

\* Pushes keep coming, running scripts go on, the chain mines what was
\* submitted, the owner authorizes the wallet.
FairSpec ==
  /\ Spec
  /\ \A p \in Processes : WF_vars(Scan(p)) /\ WF_vars(Script(p))
  /\ WF_vars(\E tx \in mempool : Mine(tx)) /\ WF_vars(Authorize)
-----------------------------------------------------------------------------
TypeOK ==
  /\ text \in [Files -> Texts]
  /\ todo \in [Processes -> SUBSET Files]
  /\ pc \in [Processes -> {"idle", "scanning", "ratifying", "writing", "reading", "querying",
                           "sending", "waiting", "recording"}]
  /\ file \in [Processes -> Files \cup {Nothing}]
  /\ raw \in [Processes -> Texts \cup {Nothing}]
  /\ mempool \subseteq [hash : Hashes, by : Processes \cup {Nothing}]
  /\ outcome \in [Processes -> {"none", "ok", "reverted"}]
  /\ receipts \subseteq Hashes
  /\ failures \in 0..MaxFailures
  /\ Contract!TypeOK

\* Nobody writes over a file that was ratified before any operator started,
\* nor over his own.
Final(t) == t = "ratified" \/ \A p, q \in Ratifiers : p = q

\* Only ratified text is ever anchored: a scan's decision does not go stale
\* before the script it starts reads the file again, and no crash puts a draft
\* or half a file on the chain.  What is anchored is what the file still
\* holds; only a second operator, who has read the draft before the first one
\* wrote, makes the file differ, and then it is his text or half of it:
\* ratification is never undone.
AnchoredIsRatified ==
  \A h \in anchored :
    /\ h[2] \in RatifiedTexts
    /\ text[h[1]] \in RatifiedTexts \cup {"truncated"}
    /\ Final(h[2]) => text[h[1]] = h[2]

\* p has been told, by the block, that its commit went through.
Told(p) == outcome[p] = "ok" \/ pc[p] = "recording"

\* Overlapping runs, retries and transactions that outlive their sender may
\* submit one hash several times, each after a simulation that succeeded: one
\* of them gets into the log, one run at most is told that it anchored the
\* hash, and a run whose transaction reverts has lost to another one, unless
\* something failed.
OneCommitWins ==
  /\ Contract!LogMatchesState
  /\ \A p, q \in Processes : Told(p) /\ Told(q) /\ BatchHash(p) = BatchHash(q) => p = q
  /\ \A p \in Processes : outcome[p] = "reverted" => BatchHash(p) \in anchored \/ failures > 0

\* A ratified artifact gets anchored although runs crash, race and fail: the
\* next scan takes it up again, unless another operator overwrites it first.
RatifiedGetsAnchored ==
  \A f \in Files, t \in RatifiedTexts :
    text[f] = t ~> <<f, t>> \in anchored \/ text[f] # t

\* What is anchored has a receipt in anchor-receipts/ in the end.
AnchoredGetsReceipt ==
  \A h \in Files \X RatifiedTexts : h \in anchored ~> h \in receipts
=============================================================================
