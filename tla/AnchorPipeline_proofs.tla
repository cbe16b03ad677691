----------------------- MODULE AnchorPipeline_proofs -----------------------
(***************************************************************************)
(* Proofs about AnchorContract for any accounts and any set of hashes, and *)
(* about AnchorPipeline for any number of artifacts, scanners, operators   *)
(* and failures.                                                           *)
(***************************************************************************)
EXTENDS AnchorPipeline, TLAPS

CONSTANTS
  Users,         \* any accounts
  Deployer,      \* any owner
  Values         \* any hashes

\* The contract by itself, whoever calls it.
Deployed == INSTANCE AnchorContract WITH Accounts <- Users, Owner <- Deployer, Hashes <- Values

\* The entries of its log.
Entries == [hash : Values, committer : Users]

\* Every call keeps the types.
LEMMA ContractTypes == Deployed!TypeOK /\ [Deployed!Next]_(Deployed!vars) => Deployed!TypeOK'
<1> SUFFICES ASSUME Deployed!TypeOK, [Deployed!Next]_(Deployed!vars) PROVE Deployed!TypeOK'
  OBVIOUS
<1> USE DEF Deployed!TypeOK
<1>1. CASE UNCHANGED Deployed!vars
  BY <1>1 DEF Deployed!vars
<1>2. ASSUME NEW sender \in Users, NEW c \in Users,
             Deployed!AuthorizeCommitter(sender, c) \/ Deployed!RevokeCommitter(sender, c)
      PROVE  Deployed!TypeOK'
  BY <1>2 DEF Deployed!AuthorizeCommitter, Deployed!RevokeCommitter
<1>3. ASSUME NEW sender \in Users, NEW h \in Values, Deployed!Commit(sender, h)
      PROVE  Deployed!TypeOK'
  <2>1. [hash |-> h, committer |-> sender] \in Entries
    BY DEF Entries
  <2> QED  BY <1>3, <2>1 DEF Deployed!Commit, Entries
<1> QED  BY <1>1, <1>2, <1>3 DEF Deployed!Next, Deployed!Call

\* The contract's storage and log are well typed.
THEOREM ContractIsTyped == Deployed!Spec => []Deployed!TypeOK
<1>1. Deployed!Init => Deployed!TypeOK
  BY DEF Deployed!Init, Deployed!TypeOK
<1> QED  BY <1>1, ContractTypes, PTL DEF Deployed!Spec
-----------------------------------------------------------------------------
\* The positions of a longer log are those of the log and one more.
LEMMA AppendLog ==
  ASSUME NEW S, NEW log \in Seq(S), NEW e \in S
  PROVE  /\ DOMAIN Append(log, e) = DOMAIN log \cup {Len(log) + 1}
         /\ Len(log) + 1 \notin DOMAIN log
         /\ \A i \in DOMAIN log : Append(log, e)[i] = log[i]
         /\ Append(log, e)[Len(log) + 1] = e
OBVIOUS

\* An entry whose hash is new to the mapping, with the mapping growing by the
\* same hash, keeps log and mapping together.
LEMMA AppendMatches ==
  ASSUME NEW S, events \in Seq(S), NEW e \in S, events' = Append(events, e),
         e.hash \notin anchored, anchored' = anchored \cup {e.hash},
         anchored = {events[i].hash : i \in DOMAIN events},
         \A i, j \in DOMAIN events : events[i].hash = events[j].hash => i = j
  PROVE  /\ anchored' = {events'[i].hash : i \in DOMAIN events'}
         /\ \A i, j \in DOMAIN events' : events'[i].hash = events'[j].hash => i = j
<1>1. /\ DOMAIN events' = DOMAIN events \cup {Len(events) + 1}
      /\ Len(events) + 1 \notin DOMAIN events
      /\ \A i \in DOMAIN events : events'[i] = events[i]
      /\ events'[Len(events) + 1] = e
  BY AppendLog
<1>2. \A i \in DOMAIN events : events[i].hash \in anchored
  OBVIOUS
<1>3. anchored' = {events'[i].hash : i \in DOMAIN events'}
  BY <1>1
<1>4. ASSUME NEW i \in DOMAIN events', NEW j \in DOMAIN events',
             events'[i].hash = events'[j].hash
      PROVE  i = j
  <2>1. CASE i \in DOMAIN events /\ j \in DOMAIN events
    BY <1>1, <1>4, <2>1
  <2>2. CASE i \notin DOMAIN events \/ j \notin DOMAIN events
    BY <1>1, <1>2, <1>4, <2>2
  <2> QED  BY <2>1, <2>2
<1> QED  BY <1>3, <1>4

\* commit adds one hash to the mapping and the same hash, new in it, to the
\* log; no other call touches either.
LEMMA ContractLogMatches ==
  Deployed!TypeOK /\ Deployed!LogMatchesState /\ [Deployed!Next]_(Deployed!vars)
    => Deployed!LogMatchesState'
<1> SUFFICES ASSUME Deployed!TypeOK, Deployed!LogMatchesState, [Deployed!Next]_(Deployed!vars)
             PROVE  Deployed!LogMatchesState'
  OBVIOUS
<1>1. CASE UNCHANGED <<anchored, events>>
  BY <1>1 DEF Deployed!LogMatchesState
<1>2. ASSUME NEW sender \in Users, NEW h \in Values, Deployed!Commit(sender, h)
      PROVE  Deployed!LogMatchesState'
  <2> DEFINE e == [hash |-> h, committer |-> sender]
  <2>1. e \in Entries /\ events \in Seq(Entries) /\ events' = Append(events, e)
    BY <1>2 DEF Deployed!Commit, Entries, Deployed!TypeOK
  <2>2. e.hash \notin anchored /\ anchored' = anchored \cup {e.hash}
    BY <1>2 DEF Deployed!Commit, Deployed!CanCommit
  <2> HIDE DEF e
  <2> QED  BY <2>1, <2>2, AppendMatches DEF Deployed!LogMatchesState
<1> QED  BY <1>1, <1>2 DEF Deployed!Next, Deployed!Call, Deployed!AuthorizeCommitter,
                              Deployed!RevokeCommitter, Deployed!vars

\* The log and the mapping agree, and no hash is anchored twice.
THEOREM LogAgrees == Deployed!Spec => []Deployed!LogMatchesState
<1>1. Deployed!Init => Deployed!LogMatchesState
  BY DEF Deployed!Init, Deployed!LogMatchesState
<1> QED  BY <1>1, ContractLogMatches, ContractIsTyped, PTL DEF Deployed!Spec
-----------------------------------------------------------------------------
\* Nothing is ever taken back, and only a committer adds to the log, in its
\* own name.
THEOREM LogOnlyGrows == Deployed!Spec => Deployed!AppendOnly
<1> DEFINE Grows ==
      /\ anchored \subseteq anchored'
      /\ events' # events =>
           \E e \in [hash : Values, committer : committers] : events' = Append(events, e)
<1>1. [Deployed!Next]_(Deployed!vars) => [Grows]_(Deployed!vars)
  <2> SUFFICES ASSUME [Deployed!Next]_(Deployed!vars) PROVE [Grows]_(Deployed!vars)
    OBVIOUS
  <2>1. CASE UNCHANGED <<anchored, events>>
    BY <2>1
  <2>2. ASSUME NEW sender \in Users, NEW h \in Values, Deployed!Commit(sender, h)
        PROVE  Grows
    <3>1. [hash |-> h, committer |-> sender] \in [hash : Values, committer : committers]
      BY <2>2 DEF Deployed!Commit, Deployed!CanCommit
    <3> QED  BY <2>2, <3>1 DEF Deployed!Commit
  <2> QED  BY <2>1, <2>2 DEF Deployed!Next, Deployed!Call, Deployed!AuthorizeCommitter,
                              Deployed!RevokeCommitter, Deployed!vars
<1> QED  BY <1>1, PTL DEF Deployed!Spec, Deployed!AppendOnly
-----------------------------------------------------------------------------

\* Where a process works on an artifact, and where it has its text.
Busy == {"ratifying", "writing", "reading", "querying", "sending", "waiting", "recording"}
Hashed == {"querying", "sending", "waiting", "recording"}

Places == {"idle", "scanning"} \cup Busy

\* The types but for the contract's.
ScriptTypes ==
  /\ text \in [Files -> Texts]
  /\ todo \in [Processes -> SUBSET Files]
  /\ pc \in [Processes -> Places]
  /\ file \in [Processes -> Files \cup {Nothing}]
  /\ raw \in [Processes -> Texts \cup {Nothing}]
  /\ mempool \subseteq [hash : Hashes, by : Processes \cup {Nothing}]
  /\ outcome \in [Processes -> {"none", "ok", "reverted"}]
  /\ receipts \subseteq Hashes
  /\ failures \in 0..MaxFailures

\* Only operators ratify; whoever works has an artifact; what was read to be
\* anchored is ratified text, and what is about to be read is that or half
\* written.
Placed ==
  \A p \in Processes :
    /\ pc[p] \in {"ratifying", "writing"} => p \in Ratifiers
    /\ pc[p] \in Busy => file[p] \in Files
    /\ pc[p] \in Hashed => raw[p] \in RatifiedTexts
    /\ pc[p] = "reading" => text[file[p]] \in RatifiedTexts \cup {"truncated"}

\* A transaction carries ratified text, and somebody who waits for it has
\* sent it for what he works on, and knows nothing of it yet.
Awaited ==
  \A tx \in mempool :
    /\ tx.hash[2] \in RatifiedTexts
    /\ tx.by # Nothing =>
         pc[tx.by] = "waiting" /\ outcome[tx.by] = "none" /\ tx.hash = BatchHash(tx.by)

\* Good news are for those who wait, and true.
Settled ==
  /\ \A p \in Processes :
       /\ outcome[p] # "none" => pc[p] = "waiting"
       /\ Told(p) => BatchHash(p) \in anchored
  /\ \A h \in anchored : h[2] \in RatifiedTexts

Inv == ScriptTypes /\ Contract!TypeOK /\ Placed /\ Awaited /\ Settled

\* A step of one process through its program.
Work(p) ==
  \/ Scan(p) \/ Script(p) \/ RpcError(p) \/ Crash(p)
  \/ \E f \in Files : RatifyRead(p, f)

\* The text of an artifact is no file's name, so the script always throws
\* after its block: it goes away, and nothing else changes.
Recorded(p) ==
  /\ Leave(p, "recording", Resume(p))
  /\ UNCHANGED <<text, todo, mempool, outcome, receipts, failures, chainVars>>

LEMMA RecordThrows == ASSUME Inv, NEW p \in Processes, Record(p) PROVE Recorded(p)
<1>1. raw[p] \in RatifiedTexts
  BY DEF Inv, Placed, Hashed, Record, Leave, Goto
<1>2. raw[p] \notin Files
  BY <1>1, PipelineAssumption DEF RatifiedTexts
<1> QED  BY <1>2 DEF Record, Recorded

LEMMA InitInv == Init => Inv
<1> SUFFICES ASSUME Init PROVE Inv
  OBVIOUS
<1> USE DEF Init, Contract!Init
<1>1. ScriptTypes
  BY PipelineAssumption DEF ScriptTypes, Places, Texts, RatifiedTexts
<1>2. Contract!TypeOK
  BY DEF Contract!TypeOK
<1>3. Placed /\ Awaited /\ Settled
  BY DEF Placed, Awaited, Settled, Told, Busy, Hashed
<1> QED  BY <1>1, <1>2, <1>3 DEF Inv
-----------------------------------------------------------------------------
\* Every action keeps the types.
LEMMA StepTypes == Inv /\ [Next]_vars => ScriptTypes'
<1> SUFFICES ASSUME Inv, [Next]_vars PROVE ScriptTypes'
  OBVIOUS
<1> USE DEF Inv, ScriptTypes
<1>1. CASE UNCHANGED vars
  BY <1>1 DEF vars, scriptVars
<1>2. ASSUME NEW p \in Processes, Scan(p) PROVE ScriptTypes'
  BY <1>2 DEF Scan, StartScan, EndScan, Visit, Goto, Places, Busy
<1>3. ASSUME NEW p \in Processes, NEW f \in Files, RatifyRead(p, f) PROVE ScriptTypes'
  BY <1>3 DEF RatifyRead, Goto, Places, Busy
<1>4. ASSUME NEW p \in Processes, Script(p) PROVE ScriptTypes'
  <2>1. CASE ReadFile(p)
    BY <2>1 DEF ReadFile, Goto, Places, Busy, Placed
  <2>2. CASE ReadFails(p)
    BY <2>2 DEF ReadFails, Leave, Goto, Resume, Places, Busy
  <2>3. CASE QueryAbsent(p)
    BY <2>3 DEF QueryAbsent, Goto, Places, Busy
  <2>4. CASE QueryAnchored(p)
    BY <2>4 DEF QueryAnchored, Leave, Goto, Resume, Places, Busy
  <2>5. CASE Send(p)
    <3>1. BatchHash(p) \in Hashes
      BY <2>5 DEF Send, Goto, Placed, Busy, Hashed, BatchHash, Hashes, Texts
    <3> QED  BY <2>5, <3>1 DEF Send, Goto, Places, Busy
  <2>6. CASE SendThrows(p)
    BY <2>6 DEF SendThrows, Leave, Goto, Resume, Places, Busy
  <2>7. CASE Confirm(p)
    BY <2>7 DEF Confirm, Goto, Places, Busy
  <2>8. CASE ConfirmThrows(p)
    BY <2>8 DEF ConfirmThrows, Leave, Goto, Resume, Places, Busy
  <2>9. CASE Record(p)
    BY <2>9, RecordThrows DEF Recorded, Leave, Goto, Resume, Places, Busy
  <2>10. CASE RatifyOpen(p)
    BY <2>10 DEF RatifyOpen, Goto, Places, Busy, Texts
  <2>11. CASE RatifyWrite(p)
    <3>1. p \in Ratifiers
      BY <2>11 DEF RatifyWrite, Goto, Placed
    <3> QED  BY <2>11, <3>1 DEF RatifyWrite, Goto, Places, Busy, Texts, RatifiedTexts
  <2> QED  BY <1>4, <2>1, <2>2, <2>3, <2>4, <2>5, <2>6, <2>7, <2>8, <2>9, <2>10,
              <2>11 DEF Script
<1>5. ASSUME NEW p \in Processes, RpcError(p) PROVE ScriptTypes'
  BY <1>5, PipelineAssumption DEF RpcError, Fail, Leave, Goto, Abandon, Resume, Places, Busy
<1>6. ASSUME NEW p \in Processes, Crash(p) PROVE ScriptTypes'
  BY <1>6, PipelineAssumption DEF Crash, Fail, Leave, Goto, Abandon, Places, Busy
<1>7. ASSUME NEW tx \in mempool, Mine(tx) PROVE ScriptTypes'
  BY <1>7 DEF Mine, scriptVars
<1>8. CASE Authorize
  BY <1>8 DEF Authorize, scriptVars
<1>9. CASE Revoke
  BY <1>9, PipelineAssumption DEF Revoke, Fail, scriptVars
<1> QED  BY <1>1, <1>2, <1>3, <1>4, <1>5, <1>6, <1>7, <1>8, <1>9 DEF Next
-----------------------------------------------------------------------------
\* Only a block and the owner touch the contract, by its own functions.
LEMMA StepContract ==
  Inv /\ [Next]_vars => [Contract!Next]_(Contract!vars) /\ Contract!TypeOK'
<1> SUFFICES ASSUME Inv, [Next]_vars
             PROVE  [Contract!Next]_(Contract!vars) /\ Contract!TypeOK'
  OBVIOUS
<1>1. CASE UNCHANGED chainVars
  BY <1>1 DEF Inv, chainVars, Contract!vars, Contract!TypeOK
<1>2. ASSUME NEW tx \in mempool, Contract!Commit(Wallet, tx.hash)
      PROVE  Contract!Next /\ Contract!TypeOK'
  <2>1. tx.hash \in Hashes
    BY DEF Inv, ScriptTypes
  <2>2. Contract!Next
    BY <1>2, <2>1 DEF Contract!Next, Contract!Call
  <2>3. [hash |-> tx.hash, committer |-> Wallet] \in [hash : Hashes, committer : {Wallet, Owner}]
    BY <2>1
  <2> QED  BY <1>2, <2>1, <2>2, <2>3 DEF Inv, Contract!Commit, Contract!TypeOK
<1>3. CASE Authorize
  BY <1>3 DEF Authorize, Inv, Contract!AuthorizeCommitter, Contract!Next, Contract!Call,
              Contract!TypeOK
<1>4. CASE Revoke
  BY <1>4 DEF Revoke, Inv, Contract!RevokeCommitter, Contract!Next, Contract!Call,
              Contract!TypeOK
<1>5. ASSUME NEW p \in Processes, Work(p) PROVE UNCHANGED chainVars
  BY <1>5 DEF Work, Scan, StartScan, EndScan, Visit, RatifyRead, Script, ReadFile, ReadFails,
              QueryAbsent, QueryAnchored, Send, SendThrows, Confirm, ConfirmThrows, Record,
              RatifyOpen, RatifyWrite, RpcError, Crash
<1>6. ASSUME NEW tx \in mempool, Mine(tx)
      PROVE  UNCHANGED chainVars \/ Contract!Commit(Wallet, tx.hash)
  BY <1>6 DEF Mine
<1> QED  BY <1>1, <1>2, <1>3, <1>4, <1>5, <1>6 DEF Next, Work, vars
-----------------------------------------------------------------------------
\* The steps of Placed: who works on what, and what the text may become.
LEMMA StepPlaced == Inv /\ [Next]_vars => Placed'
<1> SUFFICES ASSUME Inv, [Next]_vars PROVE Placed'
  OBVIOUS
<1> USE DEF Inv, ScriptTypes, Placed, Busy, Hashed
<1>1. CASE UNCHANGED <<text, pc, file, raw>>
  BY <1>1
<1>2. ASSUME NEW p \in Processes, Scan(p) PROVE Placed'
  BY <1>2 DEF Scan, StartScan, EndScan, Visit, Goto, Eligible
<1>3. ASSUME NEW p \in Processes, NEW f \in Files, RatifyRead(p, f) PROVE Placed'
  BY <1>3 DEF RatifyRead, Goto
<1>4. ASSUME NEW p \in Processes, Script(p) PROVE Placed'
  <2>1. CASE ReadFile(p)
    BY <2>1, PipelineAssumption DEF ReadFile, Goto, RatifiedTexts
  <2>2. CASE QueryAbsent(p)
    BY <2>2 DEF QueryAbsent, Goto
  <2>3. CASE Send(p)
    BY <2>3 DEF Send, Goto
  <2>4. CASE Confirm(p)
    BY <2>4 DEF Confirm, Goto
  <2>5. CASE RatifyOpen(p)
    BY <2>5 DEF RatifyOpen, Goto
  <2>6. CASE RatifyWrite(p)
    BY <2>6 DEF RatifyWrite, Goto, RatifiedTexts
  <2>7. ASSUME NEW from, NEW to \in {"idle", "scanning"}, Leave(p, from, to), UNCHANGED text
        PROVE  Placed'
    BY <2>7 DEF Leave, Goto
  <2> QED  BY <1>4, <2>1, <2>2, <2>3, <2>4, <2>5, <2>6, <2>7,
              RecordThrows
              DEF Script, ReadFails, QueryAnchored, SendThrows, ConfirmThrows, Recorded,
                  Resume
<1>5. ASSUME NEW p \in Processes, RpcError(p) \/ Crash(p) PROVE Placed'
  BY <1>5 DEF RpcError, Crash, Leave, Goto, Resume
<1> QED  BY <1>1, <1>2, <1>3, <1>4, <1>5 DEF Next, Mine, Authorize, Revoke, scriptVars, vars
-----------------------------------------------------------------------------
\* The steps of Awaited: a transaction is sent for what its sender works on,
\* and who goes away before it is mined no longer waits for it.
LEMMA StepAwaited == Inv /\ [Next]_vars => Awaited'
<1> SUFFICES ASSUME Inv, [Next]_vars PROVE Awaited'
  OBVIOUS
<1> USE DEF Inv, ScriptTypes, Awaited, BatchHash
<1>1. CASE UNCHANGED <<mempool, pc, outcome, file, raw>>
  BY <1>1
<1>2. ASSUME NEW p \in Processes, pc[p] # "waiting", UNCHANGED <<mempool, outcome>>,
             \A q \in Processes \ {p} :
               pc'[q] = pc[q] /\ file'[q] = file[q] /\ raw'[q] = raw[q]
      PROVE  Awaited'
  BY <1>2
<1>3. ASSUME NEW p \in Processes, Scan(p) PROVE Awaited'
  BY <1>2, <1>3 DEF Scan, StartScan, EndScan, Visit, Goto
<1>4. ASSUME NEW p \in Processes, NEW f \in Files, RatifyRead(p, f) PROVE Awaited'
  BY <1>2, <1>4 DEF RatifyRead, Goto
<1>5. ASSUME NEW p \in Processes, Script(p) PROVE Awaited'
  <2>1. CASE Send(p)
    <3>1. raw[p] \in RatifiedTexts
      BY <2>1 DEF Send, Goto, Placed, Hashed
    <3>2. outcome[p] = "none"
      BY <2>1 DEF Send, Goto, Settled
    <3>3. \A tx \in mempool : tx.by # p
      BY <2>1, PipelineAssumption DEF Send, Goto, Processes
    <3> QED  BY <2>1, <3>1, <3>2, <3>3 DEF Send, Goto
  <2>2. CASE Confirm(p) \/ ConfirmThrows(p)
    <3>1. \A tx \in mempool : tx.by # p
      BY <2>2, PipelineAssumption DEF Confirm, ConfirmThrows, Processes
    <3> QED  BY <2>2, <3>1 DEF Confirm, ConfirmThrows, Leave, Goto
  <2>3. CASE ReadFile(p) \/ QueryAbsent(p) \/ RatifyOpen(p) \/ RatifyWrite(p)
    BY <1>2, <2>3 DEF ReadFile, QueryAbsent, RatifyOpen, RatifyWrite, Goto
  <2>4. CASE ReadFails(p) \/ QueryAnchored(p) \/ SendThrows(p) \/ Record(p)
    BY <1>2, <2>4, RecordThrows
       DEF ReadFails, QueryAnchored, SendThrows, Recorded, Leave, Goto
  <2> QED  BY <1>5, <2>1, <2>2, <2>3, <2>4 DEF Script
<1>6. ASSUME NEW p \in Processes, RpcError(p) \/ Crash(p) PROVE Awaited'
  <2>1. \A q \in Processes \ {p} :
          /\ pc'[q] = pc[q] /\ file'[q] = file[q] /\ raw'[q] = raw[q]
          /\ outcome'[q] = outcome[q]
    BY <1>6 DEF RpcError, Crash, Leave, Goto, Abandon
  <2>2. \A tx \in mempool' :
          \E old \in mempool :
            /\ tx.hash = old.hash
            /\ tx.by = IF old.by = p THEN Nothing ELSE old.by
    BY <1>6 DEF RpcError, Crash, Abandon
  <2> QED  BY <2>1, <2>2
<1>7. ASSUME NEW tx \in mempool, Mine(tx) PROVE Awaited'
  <2>1. \A t \in mempool' : t \in mempool /\ t # tx
    BY <1>7 DEF Mine
  <2>2. \A t \in mempool' : t.by # Nothing => t.by # tx.by
    BY <2>1
  <2>3. UNCHANGED <<pc, file, raw>>
    BY <1>7 DEF Mine, scriptVars
  <2>4. \A q \in Processes : q # tx.by => outcome'[q] = outcome[q]
    BY <1>7 DEF Mine
  <2> QED  BY <2>1, <2>2, <2>3, <2>4
<1> QED  BY <1>1, <1>3, <1>4, <1>5, <1>6, <1>7 DEF Next, Authorize, Revoke, scriptVars, vars
-----------------------------------------------------------------------------
\* The steps of Settled: a hash is on the chain before anybody is told.
LEMMA StepSettled == Inv /\ [Next]_vars => Settled'
<1> SUFFICES ASSUME Inv, [Next]_vars PROVE Settled'
  OBVIOUS
<1> USE DEF Inv, ScriptTypes, Settled, Told, BatchHash
<1>1. CASE UNCHANGED <<pc, outcome, file, raw, anchored>>
  BY <1>1
<1>2. ASSUME NEW p \in Processes, pc[p] # "waiting", pc'[p] \notin {"recording"},
             UNCHANGED <<outcome, anchored>>,
             \A q \in Processes \ {p} :
               pc'[q] = pc[q] /\ file'[q] = file[q] /\ raw'[q] = raw[q]
      PROVE  Settled'
  BY <1>2
<1>3. ASSUME NEW p \in Processes, Scan(p) PROVE Settled'
  BY <1>2, <1>3 DEF Scan, StartScan, EndScan, Visit, Goto, chainVars
<1>4. ASSUME NEW p \in Processes, NEW f \in Files, RatifyRead(p, f) PROVE Settled'
  BY <1>2, <1>4 DEF RatifyRead, Goto, chainVars
<1>5. ASSUME NEW p \in Processes, Script(p) PROVE Settled'
  <2>1. CASE ReadFile(p) \/ QueryAbsent(p) \/ Send(p) \/ RatifyOpen(p) \/ RatifyWrite(p)
    BY <1>2, <2>1 DEF ReadFile, QueryAbsent, Send, RatifyOpen, RatifyWrite, Goto, chainVars
  <2>2. CASE ReadFails(p) \/ QueryAnchored(p) \/ SendThrows(p) \/ Record(p)
    BY <1>2, <2>2, RecordThrows
       DEF ReadFails, QueryAnchored, SendThrows, Recorded, Leave, Goto, Resume, chainVars
  <2>3. CASE Confirm(p)
    BY <2>3 DEF Confirm, Goto, chainVars
  <2>4. CASE ConfirmThrows(p)
    BY <2>4 DEF ConfirmThrows, Leave, Goto, Resume, chainVars
  <2> QED  BY <1>5, <2>1, <2>2, <2>3, <2>4 DEF Script
<1>6. ASSUME NEW p \in Processes, RpcError(p) \/ Crash(p) PROVE Settled'
  BY <1>6 DEF RpcError, Crash, Leave, Goto, Abandon, Resume, chainVars
<1>7. ASSUME NEW tx \in mempool, Mine(tx) PROVE Settled'
  <2>1. UNCHANGED <<pc, file, raw>>
    BY <1>7 DEF Mine, scriptVars
  <2>2. /\ anchored \subseteq anchored' /\ anchored' \subseteq anchored \cup {tx.hash}
        /\ chainVars' # chainVars => tx.hash \in anchored'
    BY <1>7 DEF Mine, Contract!Commit, chainVars
  <2>3. \A q \in Processes : outcome'[q] # outcome[q] =>
          /\ q = tx.by /\ tx.by # Nothing
          /\ outcome'[q] = "ok" => chainVars' # chainVars
    BY <1>7 DEF Mine
  <2>4. \A q \in Processes : q = tx.by /\ tx.by # Nothing =>
          pc[q] = "waiting" /\ tx.hash = <<file[q], raw[q]>>
    BY DEF Awaited
  <2>5. tx.hash[2] \in RatifiedTexts
    BY DEF Awaited
  <2>6. \A q \in Processes : outcome'[q] # "none" => pc'[q] = "waiting"
    BY <2>1, <2>3, <2>4
  <2>7. \A q \in Processes : outcome'[q] = "ok" \/ pc'[q] = "recording" =>
          <<file'[q], raw'[q]>> \in anchored'
    BY <2>1, <2>2, <2>3, <2>4
  <2> QED  BY <2>1, <2>2, <2>5, <2>6, <2>7
<1>8. CASE Authorize \/ Revoke
  BY <1>8 DEF Authorize, Revoke, scriptVars, Contract!AuthorizeCommitter, Contract!RevokeCommitter
<1> QED  BY <1>1, <1>3, <1>4, <1>5, <1>6, <1>7, <1>8 DEF Next, chainVars, scriptVars, vars

LEMMA Invariance == Spec => []Inv
<1>1. Inv /\ [Next]_vars => Inv'
  BY StepTypes, StepContract, StepPlaced, StepAwaited, StepSettled DEF Inv
<1> QED  BY <1>1, InitInv, PTL DEF Spec
-----------------------------------------------------------------------------
\* What is final nobody writes again: a text that is about to be ratified is a
\* draft, and one that is being written half a file, unless another operator
\* was there; final text that was read to be anchored stays as it was.
Current ==
  /\ \A p \in Processes :
       pc[p] \in {"ratifying", "writing"} => ~(text[file[p]] \in RatifiedTexts /\ Final(text[file[p]]))
  /\ \A p \in Processes : pc[p] \in Hashed /\ Final(raw[p]) => text[file[p]] = raw[p]
  /\ \A tx \in mempool : Final(tx.hash[2]) => text[tx.hash[1]] = tx.hash[2]
  /\ \A h \in anchored : Final(h[2]) => text[h[1]] = h[2]

\* Ratified text is neither a draft nor half a file.
LEMMA RatifiedIsFinal == \A t \in RatifiedTexts : t # "draft" /\ t # "truncated"
BY PipelineAssumption DEF RatifiedTexts

LEMMA StepCurrent == Inv /\ Current /\ [Next]_vars => Current'
<1> SUFFICES ASSUME Inv, Current, [Next]_vars PROVE Current'
  OBVIOUS
<1> USE DEF Inv, ScriptTypes, Current, Busy, Hashed, BatchHash
<1>1. CASE UNCHANGED <<text, pc, file, raw, mempool, anchored>>
  BY <1>1
<1>2. ASSUME NEW p \in Processes, UNCHANGED <<text, mempool, anchored>>,
             pc'[p] \notin {"ratifying", "writing"} \cup Hashed,
             \A q \in Processes \ {p} :
               pc'[q] = pc[q] /\ file'[q] = file[q] /\ raw'[q] = raw[q]
      PROVE  Current'
  BY <1>2
<1>3. ASSUME NEW p \in Processes, Scan(p) PROVE Current'
  BY <1>2, <1>3 DEF Scan, StartScan, EndScan, Visit, Goto, chainVars
<1>4. ASSUME NEW p \in Processes, NEW f \in Files, RatifyRead(p, f) PROVE Current'
  BY <1>4, RatifiedIsFinal DEF RatifyRead, Goto, chainVars
<1>5. ASSUME NEW p \in Processes, Script(p) PROVE Current'
  <2>1. CASE ReadFile(p)
    BY <2>1 DEF ReadFile, Goto, chainVars
  <2>2. CASE QueryAbsent(p)
    BY <2>2 DEF QueryAbsent, Goto, chainVars
  <2>3. CASE Send(p)
    BY <2>3 DEF Send, Goto, chainVars
  <2>4. CASE Confirm(p)
    BY <2>4 DEF Confirm, Goto, chainVars
  <2>5. CASE ReadFails(p) \/ QueryAnchored(p) \/ SendThrows(p) \/ ConfirmThrows(p)
               \/ Record(p)
    BY <1>2, <2>5, RecordThrows
       DEF ReadFails, QueryAnchored, SendThrows, ConfirmThrows, Recorded, Leave, Goto, Resume,
           chainVars
  <2>6. ASSUME pc[p] \in {"ratifying", "writing"}, UNCHANGED <<file, raw, mempool, anchored>>,
               text'[file[p]] \in {"truncated", p},
               \A f \in Files \ {file[p]} : text'[f] = text[f],
               pc'[p] \in {"writing", "reading"},
               pc'[p] = "writing" => text'[file[p]] = "truncated",
               \A q \in Processes \ {p} : pc'[q] = pc[q]
        PROVE  Current'
    <3>1. ~(text[file[p]] \in RatifiedTexts /\ Final(text[file[p]])) /\ file[p] \in Files
      BY <2>6 DEF Placed
    <3>2. \A f \in Files : text[f] \in RatifiedTexts /\ Final(text[f]) => text'[f] = text[f]
      BY <2>6, <3>1
    <3>3. \A q \in Processes \ {p} :
            pc[q] \in {"ratifying", "writing"} => ~Final(p)
      BY <2>6, PipelineAssumption DEF Placed, Final
    <3>4. \A q \in Processes : pc'[q] \in Hashed /\ Final(raw'[q]) => text'[file'[q]] = raw'[q]
      BY <2>6, <3>2 DEF Placed
    <3>5. \A tx \in mempool' : Final(tx.hash[2]) => text'[tx.hash[1]] = tx.hash[2]
      <4> SUFFICES ASSUME NEW tx \in mempool, Final(tx.hash[2])
                   PROVE  text'[tx.hash[1]] = tx.hash[2]
        BY <2>6
      <4>1. tx.hash[1] \in Files /\ tx.hash[2] \in RatifiedTexts
        BY DEF Awaited, Hashes
      <4> QED  BY <4>1, <3>2
    <3>6. \A h \in anchored' : Final(h[2]) => text'[h[1]] = h[2]
      <4> SUFFICES ASSUME NEW h \in anchored, Final(h[2]) PROVE text'[h[1]] = h[2]
        BY <2>6
      <4>1. h[1] \in Files /\ h[2] \in RatifiedTexts
        BY DEF Settled, Contract!TypeOK, Hashes
      <4> QED  BY <4>1, <3>2
    <3>7. \A q \in Processes : pc'[q] \in {"ratifying", "writing"} =>
            ~(text'[file'[q]] \in RatifiedTexts /\ Final(text'[file'[q]]))
      <4> SUFFICES ASSUME NEW q \in Processes, pc'[q] \in {"ratifying", "writing"}
                   PROVE  ~(text'[file[q]] \in RatifiedTexts /\ Final(text'[file[q]]))
        BY <2>6
      <4>1. CASE file[q] # file[p]
        BY <4>1, <2>6 DEF Placed
      <4>2. CASE q = p
        BY <4>2, <2>6, <3>1, RatifiedIsFinal
      <4>3. CASE q # p /\ file[q] = file[p]
        BY <4>3, <2>6, <3>1, <3>3, RatifiedIsFinal
      <4> QED  BY <4>1, <4>2, <4>3
    <3> QED  BY <3>4, <3>5, <3>6, <3>7
  <2>7. CASE RatifyOpen(p)
    BY <2>6, <2>7 DEF RatifyOpen, Goto, Placed, chainVars
  <2>8. CASE RatifyWrite(p)
    BY <2>6, <2>8 DEF RatifyWrite, Goto, Placed, chainVars
  <2> QED  BY <1>5, <2>1, <2>2, <2>3, <2>4, <2>5, <2>7, <2>8 DEF Script
<1>6. ASSUME NEW p \in Processes, RpcError(p) \/ Crash(p) PROVE Current'
  <2>1. \A tx \in mempool' : \E old \in mempool : tx.hash = old.hash
    BY <1>6 DEF RpcError, Crash, Abandon
  <2>2. /\ UNCHANGED <<text, anchored>> /\ pc'[p] \in {"idle", "scanning"}
        /\ \A q \in Processes \ {p} :
             pc'[q] = pc[q] /\ file'[q] = file[q] /\ raw'[q] = raw[q]
    BY <1>6 DEF RpcError, Crash, Leave, Goto, Resume, chainVars
  <2> QED  BY <2>1, <2>2
<1>7. ASSUME NEW tx \in mempool, Mine(tx) PROVE Current'
  <2>1. UNCHANGED <<text, pc, file, raw>> /\ mempool' \subseteq mempool
    BY <1>7 DEF Mine, scriptVars
  <2>2. anchored' \subseteq anchored \cup {tx.hash}
    BY <1>7 DEF Mine, Contract!Commit, chainVars
  <2> QED  BY <2>1, <2>2
<1>8. CASE Authorize \/ Revoke
  BY <1>8 DEF Authorize, Revoke, scriptVars, Contract!AuthorizeCommitter, Contract!RevokeCommitter
<1> QED  BY <1>1, <1>3, <1>4, <1>5, <1>6, <1>7, <1>8 DEF Next, chainVars, scriptVars, vars
-----------------------------------------------------------------------------
\* What was read to be anchored, sent or anchored was ratified, and a file
\* that was ratified holds ratified text or half of it ever after.
Kept(t) == t \in RatifiedTexts \cup {"truncated"}

Lasting ==
  /\ \A p \in Processes : pc[p] \in Hashed => Kept(text[file[p]])
  /\ \A tx \in mempool : Kept(text[tx.hash[1]])
  /\ \A h \in anchored : Kept(text[h[1]])

LEMMA StepLasting == Inv /\ Lasting /\ [Next]_vars => Lasting'
<1> SUFFICES ASSUME Inv, Lasting, [Next]_vars PROVE Lasting'
  OBVIOUS
<1> USE DEF Inv, ScriptTypes, Lasting, BatchHash
<1>1. CASE UNCHANGED <<text, pc, file, mempool, anchored>>
  BY <1>1
<1>2. ASSUME NEW p \in Processes, UNCHANGED <<mempool, anchored>>,
             \A f \in Files : Kept(text[f]) => Kept(text'[f]),
             pc'[p] \in Hashed => pc[p] \in Hashed /\ file'[p] = file[p],
             \A q \in Processes \ {p} : pc'[q] = pc[q] /\ file'[q] = file[q]
      PROVE  Lasting'
  <2>1. \A q \in Processes : pc[q] \in Hashed => file[q] \in Files
    BY DEF Placed, Busy, Hashed
  <2>2. \A tx \in mempool : tx.hash[1] \in Files
    BY DEF Hashes
  <2>3. \A h \in anchored : h[1] \in Files
    BY DEF Contract!TypeOK, Hashes
  <2> QED  BY <1>2, <2>1, <2>2, <2>3
<1>3. ASSUME NEW p \in Processes, Scan(p) PROVE Lasting'
  BY <1>2, <1>3 DEF Scan, StartScan, EndScan, Visit, Goto, Hashed, chainVars
<1>4. ASSUME NEW p \in Processes, NEW f \in Files, RatifyRead(p, f) PROVE Lasting'
  BY <1>2, <1>4 DEF RatifyRead, Goto, Hashed, chainVars
<1>5. ASSUME NEW p \in Processes, Script(p) PROVE Lasting'
  <2>1. CASE ReadFile(p)
    BY <2>1 DEF ReadFile, Goto, Placed, Kept, chainVars
  <2>2. CASE QueryAbsent(p) \/ Confirm(p)
    BY <1>2, <2>2 DEF QueryAbsent, Confirm, Goto, Hashed, chainVars
  <2>3. CASE Send(p)
    BY <2>3 DEF Send, Goto, Hashed, chainVars
  <2>4. CASE ReadFails(p) \/ QueryAnchored(p) \/ SendThrows(p) \/ ConfirmThrows(p)
               \/ Record(p)
    BY <1>2, <2>4, RecordThrows
       DEF ReadFails, QueryAnchored, SendThrows, ConfirmThrows, Recorded, Leave, Goto, Resume,
           Hashed, chainVars
  <2>5. CASE RatifyOpen(p)
    BY <1>2, <2>5 DEF RatifyOpen, Goto, Hashed, Kept, chainVars
  <2>6. CASE RatifyWrite(p)
    <3>1. p \in Ratifiers
      BY <2>6 DEF RatifyWrite, Goto, Placed
    <3> QED  BY <1>2, <2>6, <3>1 DEF RatifyWrite, Goto, Hashed, Kept, RatifiedTexts, chainVars
  <2> QED  BY <1>5, <2>1, <2>2, <2>3, <2>4, <2>5, <2>6 DEF Script
<1>6. ASSUME NEW p \in Processes, RpcError(p) \/ Crash(p) PROVE Lasting'
  <2>1. \A tx \in mempool' : \E old \in mempool : tx.hash = old.hash
    BY <1>6 DEF RpcError, Crash, Abandon
  <2>2. /\ UNCHANGED <<text, anchored>> /\ pc'[p] \notin Hashed
        /\ \A q \in Processes \ {p} : pc'[q] = pc[q] /\ file'[q] = file[q]
    BY <1>6 DEF RpcError, Crash, Leave, Goto, Resume, Hashed, chainVars
  <2> QED  BY <2>1, <2>2
<1>7. ASSUME NEW tx \in mempool, Mine(tx) PROVE Lasting'
  <2>1. UNCHANGED <<text, pc, file>> /\ mempool' \subseteq mempool
    BY <1>7 DEF Mine, scriptVars
  <2>2. anchored' \subseteq anchored \cup {tx.hash}
    BY <1>7 DEF Mine, Contract!Commit, chainVars
  <2> QED  BY <2>1, <2>2
<1>8. CASE Authorize \/ Revoke
  BY <1>8 DEF Authorize, Revoke, scriptVars, Contract!AuthorizeCommitter, Contract!RevokeCommitter
<1> QED  BY <1>1, <1>3, <1>4, <1>5, <1>6, <1>7, <1>8 DEF Next, chainVars, scriptVars, vars
-----------------------------------------------------------------------------
\* Whoever has sent something did so when the wallet could commit, and only a
\* revocation, which counts as a failure, changes that.
Permitted ==
  mempool # {} \/ (\E p \in Processes : pc[p] = "waiting")
    => Wallet \in committers \/ failures > 0

Raced == Permitted /\ OneCommitWins

\* A step of a process tells nobody anything new.
LEMMA WorkTellsNothing ==
  ASSUME Inv, NEW p \in Processes, Work(p), NEW q \in Processes
  PROVE  /\ Told(q)' => Told(q) /\ BatchHash(q)' = BatchHash(q)
         /\ outcome'[q] = "reverted" => outcome[q] = "reverted" /\ BatchHash(q)' = BatchHash(q)
<1> USE DEF Inv, ScriptTypes, Told, BatchHash
<1>0. outcome[p] # "none" => pc[p] = "waiting"
  BY DEF Settled
<1>1. CASE Scan(p)
  BY <1>0, <1>1 DEF Scan, StartScan, EndScan, Visit, Goto
<1>2. ASSUME NEW f \in Files, RatifyRead(p, f)
      PROVE  /\ Told(q)' => Told(q) /\ BatchHash(q)' = BatchHash(q)
             /\ outcome'[q] = "reverted" =>
                  outcome[q] = "reverted" /\ BatchHash(q)' = BatchHash(q)
  BY <1>0, <1>2 DEF RatifyRead, Goto
<1>3. CASE ReadFile(p) \/ QueryAbsent(p) \/ Send(p) \/ Confirm(p) \/ RatifyOpen(p)
             \/ RatifyWrite(p)
  BY <1>0, <1>3 DEF ReadFile, QueryAbsent, Send, Confirm, RatifyOpen, RatifyWrite, Goto
<1>4. CASE ReadFails(p) \/ QueryAnchored(p) \/ SendThrows(p) \/ ConfirmThrows(p) \/ Record(p)
  BY <1>0, <1>4, RecordThrows
     DEF ReadFails, QueryAnchored, SendThrows, ConfirmThrows, Recorded, Leave, Goto, Resume
<1>5. CASE RpcError(p) \/ Crash(p)
  BY <1>0, <1>5 DEF RpcError, Crash, Leave, Goto, Abandon, Resume
<1> QED  BY <1>1, <1>2, <1>3, <1>4, <1>5 DEF Work, Script

\* Nor does it touch the contract, and who sends may commit at that moment.
LEMMA WorkIsPermitted ==
  ASSUME Inv, NEW p \in Processes, Work(p), Permitted
  PROVE  UNCHANGED chainVars /\ failures' >= failures /\ Permitted'
<1> USE DEF Inv, ScriptTypes
<1>1. CASE Send(p)
  BY <1>1 DEF Send, Permitted, Contract!CanCommit, chainVars
<1>2. ASSUME UNCHANGED chainVars, failures' \in {failures, failures + 1},
             mempool' # {} => mempool # {},
             \A q \in Processes : pc'[q] = "waiting" => pc[q] = "waiting"
      PROVE  UNCHANGED chainVars /\ failures' >= failures /\ Permitted'
  BY <1>2, PipelineAssumption DEF Permitted, chainVars
<1>3. CASE Scan(p) \/ \E f \in Files : RatifyRead(p, f)
  BY <1>2, <1>3 DEF Scan, StartScan, EndScan, Visit, RatifyRead, Goto
<1>4. CASE ReadFile(p) \/ QueryAbsent(p) \/ Confirm(p) \/ RatifyOpen(p) \/ RatifyWrite(p)
  BY <1>2, <1>4 DEF ReadFile, QueryAbsent, Confirm, RatifyOpen, RatifyWrite, Goto
<1>5. CASE ReadFails(p) \/ QueryAnchored(p) \/ SendThrows(p) \/ ConfirmThrows(p) \/ Record(p)
  BY <1>2, <1>5, RecordThrows
     DEF ReadFails, QueryAnchored, SendThrows, ConfirmThrows, Recorded, Leave, Goto, Resume
<1>6. CASE RpcError(p) \/ Crash(p)
  BY <1>2, <1>6, PipelineAssumption DEF RpcError, Crash, Fail, Leave, Goto, Abandon, Resume
<1> QED  BY <1>1, <1>3, <1>4, <1>5, <1>6 DEF Work, Script

\* A block tells its winner, whose hash nobody had anchored, or a loser.
LEMMA MineRaced == ASSUME Inv, Raced, NEW tx \in mempool, Mine(tx) PROVE Raced'
<1> USE DEF Inv, ScriptTypes
<1>1. /\ UNCHANGED <<pc, file, raw, failures, committers>> /\ mempool' \subseteq mempool
      /\ tx.hash \in Hashes
  BY DEF Mine, scriptVars, chainVars, Contract!Commit
<1>2. Permitted'
  BY <1>1 DEF Raced, Permitted
<1>3. CASE Contract!Commit(Wallet, tx.hash)
  <2> DEFINE e == [hash |-> tx.hash, committer |-> Wallet]
             S == [hash : Hashes, committer : {Wallet, Owner}]
  <2>1. /\ tx.hash \notin anchored /\ anchored' = anchored \cup {tx.hash}
        /\ events' = Append(events, e)
    BY <1>3 DEF Contract!Commit, Contract!CanCommit
  <2>2. e \in S /\ e.hash = tx.hash /\ events \in Seq(S)
    BY <1>1 DEF Contract!TypeOK
  <2>3. Contract!LogMatchesState'
    <3> HIDE DEF e, S
    <3> QED  BY <2>1, <2>2, AppendMatches DEF Raced, OneCommitWins, Contract!LogMatchesState
  <2>4. chainVars' # chainVars
    BY <2>1 DEF chainVars
  <2>5. \A q \in Processes : Told(q)' =>
          Told(q) \/ (q = tx.by /\ BatchHash(q) = tx.hash)
    BY <1>1 DEF Mine, Told, Awaited
  <2>6. \A q \in Processes : Told(q) => BatchHash(q) \in anchored
    BY DEF Settled
  <2>7. \A q \in Processes : BatchHash(q)' = BatchHash(q)
    BY <1>1 DEF BatchHash
  <2>8. \A q \in Processes : outcome'[q] = "reverted" => outcome[q] = "reverted"
    BY <2>4 DEF Mine
  <2>9. \A q, r \in Processes :
          Told(q)' /\ Told(r)' /\ BatchHash(q)' = BatchHash(r)' => q = r
    BY <2>1, <2>5, <2>6, <2>7 DEF Raced, OneCommitWins
  <2>10. \A q \in Processes : outcome'[q] = "reverted" =>
           BatchHash(q)' \in anchored' \/ failures' > 0
    BY <1>1, <2>1, <2>7, <2>8 DEF Raced, OneCommitWins
  <2> QED  BY <1>2, <2>3, <2>9, <2>10 DEF Raced, OneCommitWins
<1>4. CASE ~Contract!CanCommit(Wallet, tx.hash) /\ UNCHANGED chainVars
  <2>1. Contract!LogMatchesState'
    BY <1>4 DEF Raced, OneCommitWins, Contract!LogMatchesState, chainVars
  <2>2. tx.hash \in anchored \/ failures > 0
    BY <1>4 DEF Contract!CanCommit, Raced, Permitted
  <2>3. \A q \in Processes :
          /\ outcome'[q] # "none" => outcome'[q] = outcome[q]
                                     \/ (outcome'[q] = "reverted" /\ BatchHash(q) = tx.hash)
          /\ BatchHash(q)' = BatchHash(q)
    BY <1>1, <1>4 DEF Mine, Awaited, BatchHash
  <2>4. \A q \in Processes : Told(q)' => Told(q)
    BY <1>1, <2>3 DEF Told
  <2>5. \A q, r \in Processes :
          Told(q)' /\ Told(r)' /\ BatchHash(q)' = BatchHash(r)' => q = r
    BY <2>3, <2>4 DEF Raced, OneCommitWins
  <2>6. \A q \in Processes : outcome'[q] = "reverted" =>
          BatchHash(q)' \in anchored' \/ failures' > 0
    BY <1>1, <1>4, <2>2, <2>3 DEF Raced, OneCommitWins, chainVars
  <2> QED  BY <1>2, <2>1, <2>5, <2>6 DEF Raced, OneCommitWins
<1> QED  BY <1>3, <1>4 DEF Mine

LEMMA StepRaced == Inv /\ Raced /\ [Next]_vars => Raced'
<1> SUFFICES ASSUME Inv, Raced, [Next]_vars PROVE Raced'
  OBVIOUS
<1>1. CASE UNCHANGED vars
  BY <1>1 DEF vars, scriptVars, chainVars, Raced, Permitted, OneCommitWins, Told, BatchHash,
              Contract!LogMatchesState
<1>2. ASSUME NEW p \in Processes, Work(p) PROVE Raced'
  <2>1. UNCHANGED chainVars /\ failures' >= failures /\ Permitted'
    BY <1>2, WorkIsPermitted DEF Raced
  <2>2. \A q \in Processes :
          /\ Told(q)' => Told(q) /\ BatchHash(q)' = BatchHash(q)
          /\ outcome'[q] = "reverted" => outcome[q] = "reverted" /\ BatchHash(q)' = BatchHash(q)
    BY <1>2, WorkTellsNothing
  <2>3. Contract!LogMatchesState'
    BY <2>1 DEF Raced, OneCommitWins, Contract!LogMatchesState, chainVars
  <2>4. failures \in Nat /\ failures' >= failures /\ (failures > 0 => failures' > 0)
    BY <1>2, <2>1, PipelineAssumption, StepTypes DEF Inv, ScriptTypes
  <2>5. \A q, r \in Processes :
          Told(q)' /\ Told(r)' /\ BatchHash(q)' = BatchHash(r)' => q = r
    BY <2>2 DEF Raced, OneCommitWins
  <2>6. \A q \in Processes : outcome'[q] = "reverted" =>
          BatchHash(q)' \in anchored' \/ failures' > 0
    BY <2>1, <2>2, <2>4 DEF Raced, OneCommitWins, chainVars
  <2> QED  BY <2>1, <2>3, <2>5, <2>6 DEF Raced, OneCommitWins
<1>3. ASSUME NEW tx \in mempool, Mine(tx) PROVE Raced'
  BY <1>3, MineRaced
<1>4. CASE Authorize \/ Revoke
  <2>1. /\ UNCHANGED <<pc, file, raw, mempool, outcome, anchored, events>>
        /\ failures' = failures \/ failures' > 0
        /\ Wallet \in committers => Wallet \in committers' \/ failures' > 0
    BY <1>4, PipelineAssumption
       DEF Authorize, Revoke, Fail, scriptVars, Contract!AuthorizeCommitter,
           Contract!RevokeCommitter, Inv, ScriptTypes
  <2> QED  BY <2>1 DEF Raced, Permitted, OneCommitWins, Told, BatchHash, Contract!LogMatchesState
<1> QED  BY <1>1, <1>2, <1>3, <1>4 DEF Next, Work
-----------------------------------------------------------------------------
\* Scripts, chain and contract are well typed.
THEOREM TypeCorrect == Spec => []TypeOK
<1>1. Inv => TypeOK
  BY DEF Inv, ScriptTypes, TypeOK, Places, Busy
<1> QED  BY <1>1, Invariance, PTL

\* However many scanners and operators race, crash and retry, only ratified
\* text is anchored, and it is what the file holds unless two operators have
\* ratified it at once; an anchored file never holds a draft again.
THEOREM RatifiedIsAnchored == Spec => []AnchoredIsRatified
<1>1. Inv /\ Current /\ Lasting => AnchoredIsRatified
  BY DEF Inv, Settled, Current, Lasting, Kept, AnchoredIsRatified
<1>2. Init => Current /\ Lasting
  BY DEF Init, Contract!Init, Current, Lasting, Hashed
<1>3. Inv /\ Current /\ Lasting /\ [Next]_vars => Current' /\ Lasting'
  BY StepCurrent, StepLasting
<1> QED  BY <1>1, <1>2, <1>3, Invariance, PTL DEF Spec

\* However often a hash is submitted, and whoever dies, retries or is revoked
\* meanwhile, it is logged once, at most one run is told that it won, and a
\* run that lost without any failure has lost to a commit of the same hash.
THEOREM OneRunWins == Spec => []OneCommitWins
<1>1. Raced => OneCommitWins
  BY DEF Raced
<1>2. Init => Raced
  BY DEF Init, Contract!Init, Raced, Permitted, OneCommitWins, Told, Contract!LogMatchesState
<1>3. Inv /\ Raced /\ [Next]_vars => Raced'
  BY StepRaced
<1> QED  BY <1>1, <1>2, <1>3, Invariance, PTL DEF Spec
=============================================================================
