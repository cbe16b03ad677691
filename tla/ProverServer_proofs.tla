------------------------ MODULE ProverServer_proofs ------------------------
(***************************************************************************)
(* Proofs about ProverServer for any finite set of requests and any number *)
(* of permits: type correctness, the accounting of permits and of the      *)
(* in-flight counter, ownership of the mutex, what handlers log, and the   *)
(* bounded admission.                                                      *)
(***************************************************************************)
EXTENDS ProverServer, FiniteSetTheorems, TLAPS

\* The types without the bounds of the counters, which need the accounting.
TypeInv ==
  /\ pc \in [Requests -> Labels]
  /\ permits \in Nat
  /\ lock \in Requests \cup {Free}
  /\ pending \in Nat
  /\ seen \in [Requests -> Nat]
  /\ reply \in [Requests -> Replies]
  /\ gate \in BOOLEAN

Inv == TypeInv /\ PermitAccounting /\ PendingAccounting
-----------------------------------------------------------------------------
\* The two sets of handlers are finite.
LEMMA SetsAreFinite ==
  /\ IsFiniteSet(Holding) /\ IsFiniteSet(Counted)
  /\ Cardinality(Holding) \in Nat /\ Cardinality(Counted) \in Nat
<1>1. Holding \subseteq Requests /\ Counted \subseteq Requests
  BY DEF Holding, Counted
<1>2. IsFiniteSet(Holding) /\ IsFiniteSet(Counted)
  BY <1>1, RequestAssumption, FS_Subset
<1> QED  BY <1>2, FS_CardinalityType

\* A handler that is counted holds a permit.
LEMMA CountedHold == Cardinality(Counted) <= Cardinality(Holding)
<1>1. Counted \subseteq Holding
  BY DEF Counted, Holding, GuardLabels
<1> QED  BY <1>1, SetsAreFinite, FS_Subset

\* What a step of the control does to the two sets.
LEMMA GotoHolding ==
  ASSUME TypeInv, NEW r \in Requests, NEW from, NEW to, Goto(r, from, to)
  PROVE  /\ from = "idle" /\ to # "idle" => r \notin Holding /\ Holding' = Holding \cup {r}
         /\ from # "idle" /\ to = "idle" => r \in Holding /\ Holding' = Holding \ {r}
         /\ from # "idle" /\ to # "idle" => Holding' = Holding
BY DEF TypeInv, Goto, Holding

LEMMA GotoCounted ==
  ASSUME TypeInv, NEW r \in Requests, NEW from, NEW to, Goto(r, from, to)
  PROVE  /\ from \notin GuardLabels /\ to \in GuardLabels =>
              r \notin Counted /\ Counted' = Counted \cup {r}
         /\ from \in GuardLabels /\ to \notin GuardLabels =>
              r \in Counted /\ Counted' = Counted \ {r}
         /\ (from \in GuardLabels <=> to \in GuardLabels) => Counted' = Counted
BY DEF TypeInv, Goto, Counted
-----------------------------------------------------------------------------
LEMMA InitInv == Init => Inv
<1> SUFFICES ASSUME Init PROVE Inv
  OBVIOUS
<1>1. TypeInv
  BY PermitAssumption DEF Init, TypeInv, Labels, Replies
<1>2. Holding = {} /\ Counted = {}
  BY DEF Init, Holding, Counted, GuardLabels
<1>3. PermitAccounting /\ PendingAccounting
  BY <1>2, FS_EmptySet, PermitAssumption DEF Init, PermitAccounting, PendingAccounting
<1> QED  BY <1>1, <1>3 DEF Inv

\* Types are preserved by every action.
LEMMA StepTypeInv == TypeInv /\ [Next]_vars => TypeInv'
<1> SUFFICES ASSUME TypeInv, [Next]_vars PROVE TypeInv'
  OBVIOUS
<1> USE DEF TypeInv, Goto, Labels, Replies
<1>1. CASE UNCHANGED vars
  BY <1>1 DEF vars
<1>2. CASE GateChanges
  BY <1>2 DEF GateChanges
<1>3. ASSUME NEW r \in Requests, Handler(r) PROVE TypeInv'
  <2>1. CASE Enter(r)         BY <2>1 DEF Enter
  <2>2. CASE Reject(r)        BY <2>2 DEF Reject
  <2>3. CASE LockForGuard(r)  BY <2>3 DEF LockForGuard
  <2>4. CASE LockForRead(r)   BY <2>4 DEF LockForRead
  <2>5. CASE CloneCounter(r)  BY <2>5 DEF CloneCounter
  <2>6. CASE Increment(r)     BY <2>6 DEF Increment
  <2>7. CASE ReadPending(r)   BY <2>7 DEF ReadPending
  <2>8. CASE PassGate(r)      BY <2>8 DEF PassGate
  <2>9. CASE DenyGate(r)      BY <2>9 DEF DenyGate
  <2>10. CASE Respond(r)      BY <2>10 DEF Respond
  <2>11. CASE DropGuard(r)    BY <2>11 DEF DropGuard
  <2>12. CASE DropPermit(r)   BY <2>12 DEF DropPermit
  <2>13. CASE Cancel(r)       BY <2>13 DEF Cancel
  <2> QED  BY <1>3, <2>1, <2>2, <2>3, <2>4, <2>5, <2>6, <2>7, <2>8, <2>9, <2>10,
              <2>11, <2>12, <2>13 DEF Handler, Locking, Running
<1> QED  BY <1>1, <1>2, <1>3 DEF Next
-----------------------------------------------------------------------------
\* Steps that neither enter nor leave, and are counted or not as before.
LEMMA QuietStep ==
  ASSUME Inv, UNCHANGED <<permits, pending>>, Holding' = Holding, Counted' = Counted
  PROVE  (PermitAccounting /\ PendingAccounting)'
BY DEF Inv, PermitAccounting, PendingAccounting

\* The accounting of permits and of the in-flight counter is inductive.
LEMMA StepAccounting == Inv /\ [Next]_vars => (PermitAccounting /\ PendingAccounting)'
<1> SUFFICES ASSUME Inv, [Next]_vars PROVE (PermitAccounting /\ PendingAccounting)'
  OBVIOUS
<1> USE DEF Inv
<1>1. CASE UNCHANGED vars
  BY <1>1, QuietStep DEF vars, Holding, Counted
<1>2. CASE GateChanges
  BY <1>2, QuietStep DEF GateChanges, Holding, Counted
<1>3. ASSUME NEW r \in Requests, Handler(r)
      PROVE  (PermitAccounting /\ PendingAccounting)'
  <2>1. CASE Enter(r)
    <3>1. r \notin Holding /\ Holding' = Holding \cup {r} /\ Counted' = Counted
      BY <2>1, GotoHolding, GotoCounted DEF Enter, GuardLabels
    <3>2. Cardinality(Holding') = Cardinality(Holding) + 1
      BY <3>1, SetsAreFinite, FS_AddElement
    <3> QED  BY <2>1, <3>1, <3>2, SetsAreFinite, PermitAssumption
             DEF Enter, TypeInv, PermitAccounting, PendingAccounting
  <2>2. CASE Reject(r)
    BY <2>2, QuietStep DEF Reject, Holding, Counted
  <2>3. CASE LockForGuard(r)
    BY <2>3, QuietStep, GotoHolding, GotoCounted DEF LockForGuard, GuardLabels
  <2>4. CASE LockForRead(r)
    BY <2>4, QuietStep, GotoHolding, GotoCounted DEF LockForRead, GuardLabels
  <2>5. CASE CloneCounter(r)
    BY <2>5, QuietStep, GotoHolding, GotoCounted DEF CloneCounter, GuardLabels
  <2>6. CASE Increment(r)
    <3>1. r \notin Counted /\ Counted' = Counted \cup {r} /\ Holding' = Holding
      BY <2>6, GotoHolding, GotoCounted DEF Increment, GuardLabels
    <3>2. Cardinality(Counted') = Cardinality(Counted) + 1
      BY <3>1, SetsAreFinite, FS_AddElement
    <3> QED  BY <2>6, <3>1, <3>2 DEF Increment, PermitAccounting, PendingAccounting
  <2>7. CASE ReadPending(r)
    BY <2>7, QuietStep, GotoHolding, GotoCounted DEF ReadPending, GuardLabels
  <2>8. CASE PassGate(r)
    BY <2>8, QuietStep, GotoHolding, GotoCounted DEF PassGate, GuardLabels
  <2>9. CASE DenyGate(r)
    BY <2>9, QuietStep, GotoHolding, GotoCounted DEF DenyGate, GuardLabels
  <2>10. CASE Respond(r)
    BY <2>10, QuietStep, GotoHolding, GotoCounted DEF Respond, GuardLabels
  <2>11. CASE DropGuard(r)
    <3>1. r \in Counted /\ Counted' = Counted \ {r} /\ Holding' = Holding
      BY <2>11, GotoHolding, GotoCounted DEF DropGuard, GuardLabels
    <3>2. Cardinality(Counted') = Cardinality(Counted) - 1
      BY <3>1, SetsAreFinite, FS_RemoveElement
    <3>3. Cardinality(Counted) > 0
      BY <3>1, SetsAreFinite, FS_EmptySet
    <3> QED  BY <2>11, <3>1, <3>2, <3>3, SetsAreFinite
             DEF DropGuard, PermitAccounting, PendingAccounting
  <2>12. CASE DropPermit(r)
    <3>1. r \in Holding /\ Holding' = Holding \ {r} /\ Counted' = Counted
      BY <2>12, GotoHolding, GotoCounted DEF DropPermit, GuardLabels
    <3>2. Cardinality(Holding') = Cardinality(Holding) - 1
      BY <3>1, SetsAreFinite, FS_RemoveElement
    <3> QED  BY <2>12, <3>1, <3>2, SetsAreFinite, PermitAssumption
             DEF DropPermit, TypeInv, PermitAccounting, PendingAccounting
  <2>13. CASE Cancel(r)
    BY <2>13, QuietStep, GotoHolding, GotoCounted DEF Cancel, GuardLabels
  <2> QED  BY <1>3, <2>1, <2>2, <2>3, <2>4, <2>5, <2>6, <2>7, <2>8, <2>9, <2>10,
              <2>11, <2>12, <2>13 DEF Handler, Locking, Running
<1> QED  BY <1>1, <1>2, <1>3 DEF Next

LEMMA Invariance == Spec => []Inv
<1>1. Inv /\ [Next]_vars => Inv'
  BY StepTypeInv, StepAccounting DEF Inv
<1> QED  BY InitInv, <1>1, PTL DEF Spec
-----------------------------------------------------------------------------
\* No return path and no dropped future loses a permit or returns it twice.
THEOREM PermitsAreAccounted == Spec => []PermitAccounting
BY Invariance, PTL DEF Inv

\* pending_requests is the number of live guards.
THEOREM PendingIsAccounted == Spec => []PendingAccounting
BY Invariance, PTL DEF Inv

\* The counter of requests in flight never exceeds the permits that are out.
THEOREM PendingIsBounded == Spec => []PendingWithinPermits
<1>1. Inv => PendingWithinPermits
  BY CountedHold, SetsAreFinite, PermitAssumption
     DEF Inv, TypeInv, PermitAccounting, PendingAccounting, PendingWithinPermits
<1> QED  BY <1>1, Invariance, PTL

\* Type correctness: in particular the semaphore never holds more permits
\* than it was made with.
THEOREM TypeCorrect == Spec => []TypeOK
<1>1. Inv => TypeOK
  BY SetsAreFinite, PermitAssumption DEF Inv, TypeInv, TypeOK, PermitAccounting
<1> QED  BY <1>1, Invariance, PTL
-----------------------------------------------------------------------------
\* The mutex is held by the handler inside a critical section and by no other.
LEMMA StepLockOwned == TypeInv /\ LockOwned /\ [Next]_vars => LockOwned'
<1> SUFFICES ASSUME TypeInv, LockOwned, [Next]_vars PROVE LockOwned'
  OBVIOUS
<1> USE RequestAssumption DEF TypeInv, LockOwned, Goto
<1>1. CASE UNCHANGED vars
  BY <1>1 DEF vars
<1>2. CASE GateChanges
  BY <1>2 DEF GateChanges
<1>3. ASSUME NEW r \in Requests, Handler(r) PROVE LockOwned'
  <2>1. CASE Enter(r)         BY <2>1 DEF Enter
  <2>2. CASE Reject(r)        BY <2>2 DEF Reject
  <2>3. CASE LockForGuard(r)  BY <2>3 DEF LockForGuard
  <2>4. CASE LockForRead(r)   BY <2>4 DEF LockForRead
  <2>5. CASE CloneCounter(r)  BY <2>5 DEF CloneCounter
  <2>6. CASE Increment(r)     BY <2>6 DEF Increment
  <2>7. CASE ReadPending(r)   BY <2>7 DEF ReadPending
  <2>8. CASE PassGate(r)      BY <2>8 DEF PassGate
  <2>9. CASE DenyGate(r)      BY <2>9 DEF DenyGate
  <2>10. CASE Respond(r)      BY <2>10 DEF Respond
  <2>11. CASE DropGuard(r)    BY <2>11 DEF DropGuard
  <2>12. CASE DropPermit(r)   BY <2>12 DEF DropPermit
  <2>13. CASE Cancel(r)       BY <2>13 DEF Cancel
  <2> QED  BY <1>3, <2>1, <2>2, <2>3, <2>4, <2>5, <2>6, <2>7, <2>8, <2>9, <2>10,
              <2>11, <2>12, <2>13 DEF Handler, Locking, Running
<1> QED  BY <1>1, <1>2, <1>3 DEF Next

\* A future that is dropped or goes on never leaves the mutex locked behind
\* it, and no two handlers are in the critical sections together.
THEOREM MutexIsOwned == Spec => []LockOwned
<1>1. Init => LockOwned
  BY RequestAssumption DEF Init, LockOwned
<1>2. Inv /\ LockOwned /\ [Next]_vars => LockOwned'
  BY StepLockOwned DEF Inv
<1> QED  BY <1>1, <1>2, Invariance, PTL DEF Spec
-----------------------------------------------------------------------------
\* A handler that is counted finds a counter between 1 and MaxPermits.
LEMMA CounterInRange ==
  ASSUME Inv, NEW r \in Counted
  PROVE  pending \in 1..MaxPermits
<1>1. Cardinality(Counted) > 0
  BY SetsAreFinite, FS_EmptySet
<1> QED  BY <1>1, CountedHold, SetsAreFinite, PermitAssumption
         DEF Inv, TypeInv, PermitAccounting, PendingAccounting

LEMMA StepSeenIsSane == Inv /\ SeenIsSane /\ [Next]_vars => SeenIsSane'
<1> SUFFICES ASSUME Inv, SeenIsSane, [Next]_vars PROVE SeenIsSane'
  OBVIOUS
<1>0. TypeInv
  BY DEF Inv
<1> USE <1>0 DEF TypeInv, SeenIsSane, Goto
<1>1. CASE UNCHANGED vars
  BY <1>1 DEF vars
<1>2. CASE GateChanges
  BY <1>2 DEF GateChanges
<1>3. ASSUME NEW r \in Requests, Handler(r) PROVE SeenIsSane'
  <2>1. CASE Enter(r)         BY <2>1 DEF Enter
  <2>2. CASE Reject(r)        BY <2>2 DEF Reject
  <2>3. CASE LockForGuard(r)  BY <2>3 DEF LockForGuard
  <2>4. CASE LockForRead(r)   BY <2>4 DEF LockForRead
  <2>5. CASE CloneCounter(r)  BY <2>5 DEF CloneCounter
  <2>6. CASE Increment(r)     BY <2>6 DEF Increment
  <2>7. CASE ReadPending(r)
    <3>1. r \in Counted
      BY <2>7 DEF ReadPending, Counted, GuardLabels
    <3>2. pending \in 1..MaxPermits
      BY <3>1, CounterInRange
    <3> QED  BY <2>7, <3>2 DEF ReadPending
  <2>8. CASE PassGate(r)      BY <2>8 DEF PassGate
  <2>9. CASE DenyGate(r)      BY <2>9 DEF DenyGate
  <2>10. CASE Respond(r)      BY <2>10 DEF Respond
  <2>11. CASE DropGuard(r)    BY <2>11 DEF DropGuard
  <2>12. CASE DropPermit(r)   BY <2>12 DEF DropPermit
  <2>13. CASE Cancel(r)       BY <2>13 DEF Cancel
  <2> QED  BY <1>3, <2>1, <2>2, <2>3, <2>4, <2>5, <2>6, <2>7, <2>8, <2>9, <2>10,
              <2>11, <2>12, <2>13 DEF Handler, Locking, Running
<1> QED  BY <1>1, <1>2, <1>3 DEF Next

\* What a handler logs as in flight counts itself and respects the limit,
\* although others come and go between its increment and its read.
THEOREM LoggedCountIsSane == Spec => []SeenIsSane
<1>1. Init => SeenIsSane
  BY DEF Init, SeenIsSane
<1> QED  BY <1>1, StepSeenIsSane, Invariance, PTL DEF Spec

\* The whole account: permits, counter, logged numbers and mutex agree on who
\* is where, whatever is dropped and whenever.
THEOREM AccountsAreExact == Spec => []Accounting
<1>1. PermitAccounting /\ PendingAccounting /\ PendingWithinPermits /\ SeenIsSane /\ LockOwned
        => Accounting
  BY DEF Accounting
<1> QED  BY <1>1, PermitsAreAccounted, PendingIsAccounted, PendingIsBounded,
            LoggedCountIsSane, MutexIsOwned, PTL
-----------------------------------------------------------------------------
\* A step of a handler enters, leaves or does nothing to the set of those inside.
LEMMA StepAdmission == Inv /\ [Next]_vars => [Bounded!Next]_Holding
<1> SUFFICES ASSUME Inv, [Next]_vars PROVE [Bounded!Next]_Holding
  OBVIOUS
<1>0. TypeInv
  BY DEF Inv
<1>1. CASE UNCHANGED vars
  BY <1>1 DEF vars, Holding
<1>2. CASE GateChanges
  BY <1>2 DEF GateChanges, Holding
<1>3. ASSUME NEW r \in Requests, Handler(r) PROVE [Bounded!Next]_Holding
  <2>1. CASE Enter(r)
    <3>1. r \notin Holding /\ Holding' = Holding \cup {r}
      BY <1>0, <2>1, GotoHolding DEF Enter
    <3>2. Cardinality(Holding) < MaxPermits
      BY <2>1, SetsAreFinite, PermitAssumption DEF Enter, Inv, TypeInv, PermitAccounting
    <3>3. Bounded!Cardinality(Holding) = Cardinality(Holding)
      BY DEF Bounded!Cardinality, Cardinality
    <3> QED  BY <3>1, <3>2, <3>3 DEF Bounded!Next, Bounded!Enter
  <2>2. CASE DropPermit(r)
    <3>1. r \in Holding /\ Holding' = Holding \ {r}
      BY <1>0, <2>2, GotoHolding DEF DropPermit
    <3> QED  BY <3>1 DEF Bounded!Next, Bounded!Leave
  <2>3. CASE Reject(r)
    BY <2>3 DEF Reject, Holding
  <2>4. CASE Locking(r) \/ Cancel(r)
    BY <1>0, <2>4, GotoHolding DEF Locking, LockForGuard, LockForRead, Cancel
  <2>5. CASE Running(r) /\ ~DropPermit(r)
    BY <1>0, <2>5, GotoHolding
       DEF Running, CloneCounter, Increment, ReadPending, PassGate, DenyGate, Respond, DropGuard
  <2> QED  BY <1>3, <2>1, <2>2, <2>3, <2>4, <2>5 DEF Handler
<1> QED  BY <1>1, <1>2, <1>3 DEF Next

\* The handlers implement the bounded admission: at most MaxPermits are
\* inside, and they come and go one at a time.
THEOREM ImplementsAdmission == Spec => AdmissionSpec
<1>1. Init => Bounded!Init
  BY DEF Init, Bounded!Init, Holding
<1> QED  BY <1>1, StepAdmission, Invariance, PTL DEF Spec, AdmissionSpec, Bounded!Spec
=============================================================================
