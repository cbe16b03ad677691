---------------------------- MODULE ProverServer ----------------------------
(***************************************************************************)
(* prove_handler of crates/prover-server/src/main.rs, run by several       *)
(* requests at once, with EdiaGuard of edia/mod.rs.  A handler is a        *)
(* future: the runtime may run others between any two of its steps, and    *)
(* drops it where it waits (the two lock().await) when the client goes.    *)
(* Dropping runs the destructors of what it holds, last declared first:    *)
(* the guard that counts the request, then the semaphore permit.           *)
(* What the gate answers is the environment's: module OwslSystem says how  *)
(* the daemon and the status file determine it.                            *)
(***************************************************************************)
EXTENDS Naturals, FiniteSets

CONSTANTS
  Requests,      \* concurrent calls of the handler
  MaxPermits,    \* permits of the semaphore, 4 in main()
  Free           \* the agent's mutex is not locked

ASSUME RequestAssumption == IsFiniteSet(Requests) /\ Free \notin Requests
ASSUME PermitAssumption == MaxPermits \in Nat \ {0}

VARIABLES
  pc,        \* where each handler is
  permits,   \* available permits of proving_permits
  lock,      \* holder of edia_agent's mutex
  pending,   \* EdiaAgent.pending_requests
  seen,      \* the value of pending a handler logged
  reply,     \* the HTTP status of a response, 0 for none
  gate       \* what owsl_permits_verification() would return now

vars == <<pc, permits, lock, pending, seen, reply, gate>>

Replies == {0, 200, 400, 403, 500, 503}
Labels == {"idle", "guarding", "cloning", "counting", "counted", "reading",
           "gating", "proving", "unguard", "release"}

GuardLabels == {"counted", "reading", "gating", "proving", "unguard"}

\* The handlers with a permit, and those whose guard has been counted.
Holding == {r \in Requests : pc[r] # "idle"}
Counted == {r \in Requests : pc[r] \in GuardLabels}

Goto(r, from, to) == pc[r] = from /\ pc' = [pc EXCEPT ![r] = to]

Init ==
  /\ pc = [r \in Requests |-> "idle"]
  /\ permits = MaxPermits
  /\ lock = Free
  /\ pending = 0
  /\ seen = [r \in Requests |-> 0]
  /\ reply = [r \in Requests |-> 0]
  /\ gate \in BOOLEAN

\* Mutant of Enter: the limit is not checked.
EnterUnchecked(r) ==
  /\ Goto(r, "idle", "guarding")
  /\ permits' = permits - 1
  /\ reply' = [reply EXCEPT ![r] = 0]
  /\ UNCHANGED <<lock, pending, seen, gate>>

\* try_acquire succeeds.
Enter(r) ==
  /\ permits > 0
  /\ Goto(r, "idle", "guarding")
  /\ permits' = permits - 1
  /\ reply' = [reply EXCEPT ![r] = 0]
  /\ UNCHANGED <<lock, pending, seen, gate>>

\* try_acquire fails: 503, and nothing is held.
Reject(r) ==
  /\ pc[r] = "idle"
  /\ permits = 0
  /\ reply' = [reply EXCEPT ![r] = 503]
  /\ UNCHANGED <<pc, permits, lock, pending, seen, gate>>

\* EdiaGuard::acquire: agent.lock().await ...
LockForGuard(r) ==
  /\ lock = Free
  /\ Goto(r, "guarding", "cloning")
  /\ lock' = r
  /\ UNCHANGED <<permits, pending, seen, reply, gate>>

\* Mutant of CloneCounter: the lock is kept while the guard lives.
CloneCounterKeepsLock(r) ==
  /\ Goto(r, "cloning", "counting")
  /\ UNCHANGED <<permits, lock, pending, seen, reply, gate>>

\* ... the counter is cloned, and the lock dropped before ...
CloneCounter(r) ==
  /\ Goto(r, "cloning", "counting")
  /\ lock' = Free
  /\ UNCHANGED <<permits, pending, seen, reply, gate>>

\* ... fetch_add(1).
Increment(r) ==
  /\ Goto(r, "counting", "counted")
  /\ pending' = pending + 1
  /\ UNCHANGED <<permits, lock, seen, reply, gate>>

\* The second lock().await, to read the counter.
LockForRead(r) ==
  /\ lock = Free
  /\ Goto(r, "counted", "reading")
  /\ lock' = r
  /\ UNCHANGED <<permits, pending, seen, reply, gate>>

ReadPending(r) ==
  /\ Goto(r, "reading", "gating")
  /\ seen' = [seen EXCEPT ![r] = pending]
  /\ lock' = Free
  /\ UNCHANGED <<permits, pending, reply, gate>>

\* The entropy gate, asked once.
PassGate(r) ==
  /\ gate
  /\ Goto(r, "gating", "proving")
  /\ UNCHANGED <<permits, lock, pending, seen, reply, gate>>

DenyGate(r) ==
  /\ ~gate
  /\ Goto(r, "gating", "unguard")
  /\ reply' = [reply EXCEPT ![r] = 403]
  /\ UNCHANGED <<permits, lock, pending, seen, gate>>

\* Validation (400), proof, self-check (500) and response, with no wait in
\* between; which of the three depends on the request alone.
Respond(r) ==
  /\ Goto(r, "proving", "unguard")
  /\ \E code \in {200, 400, 500} :
       reply' = [reply EXCEPT ![r] = code]
  /\ UNCHANGED <<permits, lock, pending, seen, gate>>

\* Mutant of Cancel: the guard of a dropped future is leaked.
CancelLeaksGuard(r) ==
  /\ \/ Goto(r, "guarding", "release")
     \/ Goto(r, "counted", "release")
  /\ reply' = [reply EXCEPT ![r] = 0]
  /\ UNCHANGED <<permits, lock, pending, seen, gate>>

\* The client is gone while the handler waits for the mutex: the future is
\* dropped with whatever it holds.
Cancel(r) ==
  /\ \/ Goto(r, "guarding", "release")
     \/ Goto(r, "counted", "unguard")
  /\ reply' = [reply EXCEPT ![r] = 0]
  /\ UNCHANGED <<permits, lock, pending, seen, gate>>

\* EdiaGuard::drop.
DropGuard(r) ==
  /\ Goto(r, "unguard", "release")
  /\ pending' = IF pending > 0 THEN pending - 1 ELSE 0
  /\ seen' = [seen EXCEPT ![r] = 0]
  /\ UNCHANGED <<permits, lock, reply, gate>>

\* SemaphorePermit::drop; a response, if there is one, is on its way.
DropPermit(r) ==
  /\ Goto(r, "release", "idle")
  /\ permits' = permits + 1
  /\ reply' = [reply EXCEPT ![r] = 0]
  /\ UNCHANGED <<lock, pending, seen, gate>>

\* The daemon, the clock and the file system.
GateChanges ==
  /\ gate' = ~gate
  /\ UNCHANGED <<pc, permits, lock, pending, seen, reply>>

Locking(r) == LockForGuard(r) \/ LockForRead(r)

Running(r) ==
  \/ CloneCounter(r) \/ Increment(r) \/ ReadPending(r) \/ PassGate(r)
  \/ DenyGate(r) \/ Respond(r) \/ DropGuard(r) \/ DropPermit(r)

Handler(r) ==
  \/ Enter(r)
  \/ Reject(r) \/ Locking(r) \/ Running(r) \/ Cancel(r)

Next == GateChanges \/ \E r \in Requests : Handler(r)

Spec == Init /\ [][Next]_vars

\* The runtime polls every future that can go on; tokio's mutex queues its
\* waiters, so one that waits is not passed over forever.
FairSpec ==
  /\ Spec
  /\ \A r \in Requests : WF_vars(Running(r)) /\ SF_vars(Locking(r))
-----------------------------------------------------------------------------
TypeOK ==
  /\ pc \in [Requests -> Labels]
  /\ permits \in 0..MaxPermits
  /\ lock \in Requests \cup {Free}
  /\ pending \in Nat
  /\ seen \in [Requests -> Nat]
  /\ reply \in [Requests -> Replies]
  /\ gate \in BOOLEAN

\* No permit is lost or returned twice, whichever return or cancellation
\* ends the handler.
PermitAccounting == permits + Cardinality(Holding) = MaxPermits

\* The in-flight counter is exact, so its saturating subtraction never
\* saturates ...
PendingAccounting == pending = Cardinality(Counted)

\* ... and it never exceeds the permits that are out: the guard is dropped
\* before the permit, the counter is raised after it.
PendingWithinPermits == pending + permits <= MaxPermits

\* What a handler logs as in flight counts itself and respects the limit.
SeenIsSane ==
  \A r \in Requests : pc[r] \in {"gating", "proving"} => seen[r] \in 1..MaxPermits

\* Only the handlers inside one of the two critical sections hold the mutex.
LockOwned ==
  \A r \in Requests : lock = r <=> pc[r] \in {"cloning", "reading"}

\* What is held is held once, and by whom the code thinks: permits, the
\* counter, the numbers that handlers log and the mutex agree on who is where.
Accounting ==
  /\ PermitAccounting /\ PendingAccounting /\ PendingWithinPermits
  /\ SeenIsSane /\ LockOwned

\* The handlers implement the bounded admission.
Bounded == INSTANCE Admission WITH inside <- Holding, Capacity <- MaxPermits
AdmissionSpec == Bounded!Spec

\* Every request that got a permit is answered or dropped, and gives the
\* permit back.
EveryRequestEnds == \A r \in Requests : pc[r] = "guarding" ~> pc[r] = "idle"
=============================================================================
