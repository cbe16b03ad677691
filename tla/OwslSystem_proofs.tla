------------------------- MODULE OwslSystem_proofs -------------------------
(***************************************************************************)
(* Proofs about OwslSystem for any thresholds, limits, times and requests: *)
(* the system contains the daemon and the server as their own modules      *)
(* describe them, so what is proved of those holds here, with the gate     *)
(* that the file and the clock determine; then freshness and admission;    *)
(* last, publication of the status file by rename (StatusFile).            *)
(***************************************************************************)
EXTENDS OwslSystem, StatusFile, TLAPS

DP == INSTANCE OwslDaemon_proofs
SP == INSTANCE ProverServer_proofs WITH gate <- Gate

\* What a reader can be told by whom: only the daemon's status has a hash
\* that verifies, and it permits what the daemon last decided.
FileInv ==
  /\ file.by \in {"nobody", "daemon", "test"}
  /\ file.hash \in BOOLEAN /\ file.permits \in BOOLEAN
  /\ file.hash => file.by = "daemon"
  /\ file.by = "daemon" => file.permits = Daemon!Permits(status)

\* The clocks.  From a daemon's first write on, the file is not older than
\* that daemon's sleep has lasted.
TimeInv ==
  /\ elapsed \in Nat /\ back \in Nat /\ slept \in Nat
  /\ running => slept <= Interval + Jitter
  /\ running /\ frames # <<>> => elapsed <= slept

SystemInv == DP!Inv /\ FileInv /\ TimeInv
-----------------------------------------------------------------------------
\* The modules of proofs speak of the same daemon and the same server.
LEMMA DaemonLimits == DP!ThresholdAssumption /\ DP!LimitAssumption
BY DaemonAssumption
   DEF DP!ThresholdAssumption, DP!LimitAssumption,
       Daemon!ThresholdAssumption, Daemon!LimitAssumption

LEMMA ServerLimits == SP!RequestAssumption /\ SP!PermitAssumption
BY ServerAssumption
   DEF SP!RequestAssumption, SP!PermitAssumption, SP!IsFiniteSet,
       Server!RequestAssumption, Server!PermitAssumption, Server!IsFiniteSet

LEMMA SameRecord ==
  ASSUME NEW bits, NEW log, NEW k
  PROVE  Daemon!Record(bits, log, k) <=> DP!Record(bits, log, k)
<1> USE DEF DP!Push, Daemon!Push, DP!Monus, Daemon!Monus, DP!LastOf, Daemon!LastOf,
            DP!Max, Daemon!Max
<1>1. \A fs : Daemon!RateDrop(fs) = DP!RateDrop(fs)
  BY DEF Daemon!RateDrop, DP!RateDrop
<1>2. \A b, fs, l : Daemon!Check(b, fs, l) = DP!Check(b, fs, l)
  BY <1>1 DEF Daemon!Check, DP!Check
<1>3. \A fs : Daemon!BitsConsumed(fs) = DP!BitsConsumed(fs)
  BY DEF Daemon!BitsConsumed, DP!BitsConsumed
<1>4. \A l : Daemon!RecentAnomalies(l) = DP!RecentAnomalies(l)
  BY DEF Daemon!RecentAnomalies, DP!RecentAnomalies
<1>5. \A l : Daemon!CriticalAnomaly(l) = DP!CriticalAnomaly(l)
  BY DEF Daemon!CriticalAnomaly, DP!CriticalAnomaly
<1>6. \A b, fs, l : Daemon!StatusOf(b, fs, l) = DP!StatusOf(b, fs, l)
  BY <1>3, <1>4, <1>5 DEF Daemon!StatusOf, DP!StatusOf, Daemon!Classify, DP!Classify
<1> QED  BY <1>2, <1>6 DEF Daemon!Record, DP!Record

LEMMA SameDaemon ==
  /\ Daemon!Init <=> DP!Init
  /\ Daemon!Start <=> DP!Start
  /\ Daemon!Stop <=> DP!Stop
  /\ Daemon!SampleAny <=> DP!SampleAny
  /\ \A s : Daemon!Permits(s) = DP!Permits(s)
<1>1. Daemon!SampleUnreadable <=> DP!SampleUnreadable
  BY SameRecord DEF Daemon!SampleUnreadable, DP!SampleUnreadable, Daemon!Unreadable,
     DP!Unreadable, Daemon!Push, DP!Push
<1>2. \A bits : Daemon!Sample(bits) <=> DP!Sample(bits)
  BY SameRecord DEF Daemon!Sample, DP!Sample
<1> QED
  BY <1>1, <1>2
     DEF Daemon!Init, DP!Init, Daemon!Unreadable, DP!Unreadable, Daemon!NoStatus, DP!NoStatus,
         Daemon!Start, DP!Start, Daemon!Stop, DP!Stop, Daemon!SampleAny, DP!SampleAny,
         Daemon!Permits, DP!Permits

\* A sample leaves a frame in the window, for its own is never dropped.
LEMMA SampleFrames ==
  ASSUME DP!Inv, Daemon!SampleAny
  PROVE  DP!Inv' /\ running /\ running' /\ frames' # <<>>
<1>1. DP!SampleAny
  BY SameDaemon
<1>2. DP!Inv'
  BY <1>1, DaemonLimits, DP!StepSample
<1>3. running /\ running'
  BY SameRecord
     DEF Daemon!SampleAny, Daemon!SampleUnreadable, Daemon!Sample, Daemon!Record
<1>4. PICK bits \in Nat, k \in Nat : \E log : DP!Record(bits, log, k)
  <2>1. CASE DP!SampleUnreadable
    <3>1. \A k \in 0..Len(frames) : k \in Nat
      OBVIOUS
    <3> QED  BY <2>1, <3>1 DEF DP!SampleUnreadable
  <2>2. ASSUME NEW bits \in Readings, DP!Sample(bits)
        PROVE  \E k \in Nat : DP!Record(bits, anomalies, k)
    <3>1. \A k \in 0..Len(frames) : k \in Nat
      OBVIOUS
    <3> QED  BY <2>2, <3>1 DEF DP!Sample
  <2>3. Readings \subseteq Nat
    BY DaemonLimits DEF DP!ThresholdAssumption
  <2> QED  BY <1>1, <2>1, <2>2, <2>3 DEF DP!SampleAny
<1>5. Len(frames') > 0
  BY <1>4, DaemonLimits, DP!RecordFrames DEF DP!Inv
<1> QED  BY <1>2, <1>3, <1>5
-----------------------------------------------------------------------------
LEMMA InitSystem == Init => SystemInv
<1> SUFFICES ASSUME Init PROVE SystemInv
  OBVIOUS
<1>1. DP!Inv
  BY DaemonLimits, DP!InitInv, SameDaemon DEF Init
<1>2. FileInv
  BY DEF Init, FileInv, NoFile
<1>3. TimeInv
  BY TimeAssumption DEF Init, TimeInv, Old, Daemon!Init
<1> QED  BY <1>1, <1>2, <1>3 DEF SystemInv

LEMMA StepSystem == SystemInv /\ [Next]_vars => SystemInv'
<1> SUFFICES ASSUME SystemInv, [Next]_vars PROVE SystemInv'
  OBVIOUS
<1> USE TimeAssumption DEF SystemInv
<1>0. \A t \in Nat : Later(t) \in Nat /\ Later(t) <= t + 1
  BY DEF Later, Old
\* What the daemon's part of a step does to its own invariant.
<1>1. ASSUME UNCHANGED daemonVars PROVE DP!Inv'
  BY <1>1, DaemonLimits, DP!StepInv DEF daemonVars, DP!vars
<1>2. ASSUME UNCHANGED daemonVars PROVE Daemon!Permits(status)' = Daemon!Permits(status)
  BY <1>2 DEF daemonVars, Daemon!Permits
<1>3. CASE UNCHANGED vars
  <2>1. FileInv'
    BY <1>2, <1>3 DEF vars, FileInv
  <2>2. TimeInv'
    BY <1>3 DEF vars, daemonVars, TimeInv
  <2> QED  BY <1>1, <1>3, <2>1, <2>2 DEF vars
<1>4. CASE Start
  <2>1. DP!Inv'
    BY <1>4, SameDaemon, DaemonLimits, DP!StepInv DEF Start, DP!Next
  <2>2. FileInv'
    BY <1>4 DEF Start, Daemon!Start, FileInv, Daemon!Permits
  <2>3. TimeInv'
    BY <1>4 DEF Start, Daemon!Start, TimeInv
  <2> QED  BY <2>1, <2>2, <2>3
<1>5. CASE Stop
  <2>1. DP!Inv'
    BY <1>5, SameDaemon, DaemonLimits, DP!StepInv DEF Stop, DP!Next
  <2>2. FileInv'
    BY <1>5 DEF Stop, Daemon!Stop, FileInv, Daemon!Permits
  <2>3. TimeInv'
    BY <1>5 DEF Stop, Daemon!Stop, TimeInv
  <2> QED  BY <2>1, <2>2, <2>3
<1>6. CASE Write
  <2>1. DP!Inv'
    BY <1>6, SampleFrames DEF Write
  <2>2. FileInv'
    <3>1. Daemon!Permits(status') \in BOOLEAN
      BY DEF Daemon!Permits
    <3>2. PICK h \in BOOLEAN :
            file' = [by |-> "daemon", hash |-> h, permits |-> Daemon!Permits(status')]
      BY <1>6 DEF Write
    <3> QED  BY <3>1, <3>2 DEF FileInv
  <2>3. TimeInv'
    BY <1>6 DEF Write, TimeInv
  <2> QED  BY <2>1, <2>2, <2>3
<1>7. CASE Bootstrap
  <2>1. FileInv'
    BY <1>7 DEF Bootstrap, FileInv
  <2>2. TimeInv'
    BY <1>7 DEF Bootstrap, daemonVars, TimeInv
  <2> QED  BY <1>1, <1>7, <2>1, <2>2 DEF Bootstrap
<1>8. CASE Tick
  <2>1. FileInv'
    BY <1>2, <1>8 DEF Tick, FileInv
  <2>2. TimeInv'
    <3>1. elapsed' \in Nat /\ elapsed' <= elapsed + 1
      BY <1>0, <1>8 DEF Tick, TimeInv
    <3>2. CASE running
      BY <1>8, <3>1, <3>2 DEF Tick, daemonVars, TimeInv
    <3>3. CASE ~running
      BY <1>8, <3>1, <3>3 DEF Tick, daemonVars, TimeInv
    <3> QED  BY <3>2, <3>3
  <2> QED  BY <1>1, <1>8, <2>1, <2>2 DEF Tick
<1>9. CASE SetBack
  <2>1. FileInv'
    BY <1>2, <1>9 DEF SetBack, FileInv
  <2>2. TimeInv'
    BY <1>9 DEF SetBack, daemonVars, TimeInv
  <2> QED  BY <1>1, <1>9, <2>1, <2>2 DEF SetBack
<1>10. ASSUME NEW r \in Requests, Handle(r) PROVE SystemInv'
  <2>1. FileInv'
    BY <1>2, <1>10 DEF Handle, FileInv
  <2>2. TimeInv'
    BY <1>10 DEF Handle, daemonVars, TimeInv
  <2> QED  BY <1>1, <1>10, <2>1, <2>2 DEF Handle
<1> QED  BY <1>3, <1>4, <1>5, <1>6, <1>7, <1>8, <1>9, <1>10 DEF Next

LEMMA Invariance == Spec => []SystemInv
BY InitSystem, StepSystem, PTL DEF Spec
-----------------------------------------------------------------------------
\* The daemon of the system is the daemon of its own module: neither the
\* clock, nor a bootstrap status, nor the server touches its state.
THEOREM ContainsDaemon == Spec => Daemon!Spec
<1>1. Init => Daemon!Init
  BY DEF Init
<1>2. [Next]_vars => [Daemon!Next]_(Daemon!vars)
  BY DEF Next, vars, daemonVars, Daemon!vars, Daemon!Next, Start, Stop, Write, Bootstrap,
         Tick, SetBack, Handle
<1> QED  BY <1>1, <1>2, PTL DEF Spec, Daemon!Spec

LEMMA SameServer ==
  /\ Server!Init <=> SP!Init
  /\ Server!Next <=> SP!Next
  /\ Server!vars = SP!vars
<1>1. \A r : Server!Handler(r) <=> SP!Handler(r)
  BY DEF Server!Handler, Server!Enter, Server!Reject, Server!Locking, Server!LockForGuard,
         Server!LockForRead, Server!Running, Server!CloneCounter, Server!Increment,
         Server!ReadPending, Server!PassGate, Server!DenyGate, Server!Respond,
         Server!DropGuard, Server!DropPermit, Server!Cancel, Server!Goto,
         SP!Handler, SP!Enter, SP!Reject, SP!Locking, SP!LockForGuard, SP!LockForRead,
         SP!Running, SP!CloneCounter, SP!Increment, SP!ReadPending, SP!PassGate, SP!DenyGate,
         SP!Respond, SP!DropGuard, SP!DropPermit, SP!Cancel, SP!Goto
<1> QED
  BY <1>1 DEF Server!Init, SP!Init, Server!Next, SP!Next, Server!GateChanges, SP!GateChanges,
     Server!vars, SP!vars

\* The server of the system is the server of its own module: all that the
\* daemon, the file and the clock do to it is to open or close the gate.
THEOREM ContainsServer == Spec => Server!Spec
<1>0. Gate \in BOOLEAN
  BY DEF Gate
<1>1. Init => Server!Init
  BY <1>0 DEF Init, Server!Init
<1>2. [Next]_vars => [Server!Next]_(Server!vars)
  <2> SUFFICES ASSUME [Next]_vars PROVE [Server!Next]_(Server!vars)
    OBVIOUS
  <2>1. Gate \in BOOLEAN /\ Gate' \in BOOLEAN
    BY DEF Gate
  <2>2. ASSUME UNCHANGED serverVars PROVE [Server!Next]_(Server!vars)
    <3>1. CASE Gate' = Gate
      BY <2>2, <3>1 DEF serverVars, Server!vars
    <3>2. CASE Gate' = ~Gate
      BY <2>2, <3>2 DEF serverVars, Server!Next, Server!GateChanges
    <3> QED  BY <2>1, <3>1, <3>2
  <2>3. CASE UNCHANGED vars
    BY <2>2, <2>3 DEF vars
  <2>4. CASE Start \/ Stop \/ Write \/ Bootstrap \/ Tick \/ SetBack
    BY <2>2, <2>4 DEF Start, Stop, Write, Bootstrap, Tick, SetBack
  <2>5. ASSUME NEW r \in Requests, Handle(r) PROVE Server!Next
    BY <2>5 DEF Handle, Server!Next
  <2> QED  BY <2>3, <2>4, <2>5 DEF Next
<1> QED  BY <1>1, <1>2, PTL DEF Spec, Server!Spec
LEMMA ServerIsProved == Spec => SP!Spec
<1>1. Server!Init => SP!Init
  BY SameServer
<1>2. [Server!Next]_(Server!vars) => [SP!Next]_(SP!vars)
  BY SameServer DEF Server!vars, SP!vars
<1> QED  BY <1>1, <1>2, ContainsServer, PTL DEF Server!Spec, SP!Spec

\* The permits, the counter of requests in flight, the logged numbers and the
\* mutex agree on who is where, whatever opens and closes the gate.
THEOREM AccountsHold == Spec => []Server!Accounting
<1>1. SP!Accounting => Server!Accounting
  BY DEF SP!Accounting, SP!PermitAccounting, SP!PendingAccounting, SP!PendingWithinPermits,
     SP!SeenIsSane, SP!LockOwned, SP!Holding, SP!Counted, SP!GuardLabels, SP!Cardinality,
     Server!Accounting, Server!PermitAccounting, Server!PendingAccounting,
     Server!PendingWithinPermits, Server!SeenIsSane, Server!LockOwned, Server!Holding,
     Server!Counted, Server!GuardLabels, Server!Cardinality
<1> QED  BY <1>1, ServerIsProved, ServerLimits, SP!AccountsAreExact, PTL
-----------------------------------------------------------------------------
\* The interval between two writes keeps the status fresh, if a late write
\* still comes before the age limit: no bootstrap status and no clock set
\* back makes a running daemon's file look old.
THEOREM StatusIsFresh ==
  ASSUME Interval + Jitter < MaxAge
  PROVE  Spec => []FreshWhileRunning
<1>1. TimeInv => FreshWhileRunning
  BY TimeAssumption DEF TimeInv, FreshWhileRunning, age
<1> QED  BY <1>1, Invariance, PTL DEF SystemInv

\* An open gate is the daemon's word: its last decision permits work, which
\* it does only for a reading above the floor, and was given less than MaxAge
\* ago, or as much longer as the clock was set back.
LEMMA GateIsEarned ==
  SystemInv /\ Gate =>
    /\ file.by = "daemon" /\ elapsed < MaxAge + back
    /\ avail > CriticalBits /\ status.action # "HALT"
<1> SUFFICES ASSUME SystemInv, Gate
             PROVE  /\ file.by = "daemon" /\ elapsed < MaxAge + back
                    /\ avail > CriticalBits /\ status.action # "HALT"
  OBVIOUS
<1>1. file.by = "daemon" /\ DP!Permits(status)
  BY SameDaemon DEF Gate, SystemInv, FileInv
<1>2. elapsed < MaxAge + back
  BY TimeAssumption DEF Gate, age, SystemInv, TimeInv
<1>3. avail > CriticalBits
  BY <1>1 DEF SystemInv, DP!Inv, DP!PermitIsEarned
<1>4. status.action # "HALT"
  BY <1>1 DEF DP!Permits
<1> QED  BY <1>1, <1>2, <1>3, <1>4

\* Only a handler that passes the gate begins to prove.
LEMMA ProvingNeedsGate ==
  ASSUME pc \in [Requests -> Server!Labels], [Next]_vars,
         NEW r \in Requests, pc[r] = "gating", pc'[r] = "proving"
  PROVE  Gate
<1>1. CASE UNCHANGED pc
  BY <1>1
<1>2. ASSUME NEW s \in Requests, Server!Handler(s), ~Server!PassGate(s)
      PROVE  FALSE
  <2>1. PICK from, to : Server!Goto(s, from, to) /\ (from = "gating" => to = "unguard")
    BY <1>2, <1>1
       DEF Server!Handler, Server!Enter, Server!Reject, Server!Locking, Server!LockForGuard,
           Server!LockForRead, Server!Running, Server!CloneCounter, Server!Increment,
           Server!ReadPending, Server!DenyGate, Server!Respond, Server!DropGuard,
           Server!DropPermit, Server!Cancel
  <2> QED  BY <2>1 DEF Server!Goto
<1> QED
  BY <1>1, <1>2
     DEF Next, vars, serverVars, Start, Stop, Write, Bootstrap, Tick, SetBack, Handle,
         Server!PassGate

\* Work starts only on the daemon's word about a reading above the floor and
\* with the latch open, whatever is written, late, restarted or set back in
\* between.
THEOREM AdmissionIsEarned == Spec => AdmittedOnHealth
<1>1. Spec => []SP!TypeOK
  BY ServerIsProved, ServerLimits, SP!TypeCorrect, PTL
<1>2. SystemInv /\ SP!TypeOK /\ [Next]_vars =>
        [\A r \in Requests : pc[r] = "gating" /\ pc'[r] = "proving" =>
           /\ file.by = "daemon" /\ elapsed < MaxAge + back
           /\ avail > CriticalBits /\ status.action # "HALT"]_vars
  <2>1. SP!TypeOK => pc \in [Requests -> Server!Labels]
    BY DEF SP!TypeOK, SP!Labels, Server!Labels
  <2> QED  BY <2>1, GateIsEarned, ProvingNeedsGate
<1> QED  BY <1>1, <1>2, Invariance, PTL DEF Spec, AdmittedOnHealth
-----------------------------------------------------------------------------
\* The file of the system is a register, which StatusFile implements when no two
\* writers share a temporary path, as with publish_status_atomic of
\* owsl_bridge.rs, or with one Python writer alone: for any number of writers,
\* inodes and crashes, publication by rename is an atomic register.

\* No two writers share a temporary path.
OwnPath == \A v, w \in Writers : TmpOf[v] = TmpOf[w] => v = w

\* What a writer's place says about its temporary file.
WriterInv ==
  \A w \in Writers :
    /\ place[w] = "opened" => /\ fd[w] # NoInode /\ fd[w] = tmp[TmpOf[w]]
                           /\ bytes[fd[w]] = Empty
    /\ place[w] = "written" => /\ tmp[TmpOf[w]] # NoInode
                            /\ bytes[tmp[TmpOf[w]]] \in Statuses

\* No two paths, temporary or not, lead to the same inode.
PathInv ==
  /\ \A p, q \in Paths : tmp[p] = tmp[q] /\ tmp[p] # NoInode => p = q
  /\ target # NoInode => \A p \in Paths : tmp[p] # target

FilesInv == FileTypeOK /\ WriterInv /\ PathInv /\ NeverTorn
-----------------------------------------------------------------------------
\* Every step keeps the types.
LEMMA FileTypes == FileTypeOK /\ [FileNext]_fileVars => FileTypeOK'
<1> SUFFICES ASSUME FileTypeOK, [FileNext]_fileVars PROVE FileTypeOK'
  OBVIOUS
<1> USE PathAssumption DEF FileTypeOK
<1>1. CASE UNCHANGED fileVars
  BY <1>1 DEF fileVars
<1>2. ASSUME NEW w \in Writers, Step(w) PROVE FileTypeOK'
  <2>1. ASSUME NEW s \in Statuses, NEW i \in Inodes, Open(w, s, i) PROVE FileTypeOK'
    BY <2>1 DEF Open
  <2>2. CASE WriteBytes(w)
    <3>1. PICK b \in {val[w]} \cup (IF bytes[fd[w]] = Empty THEN {} ELSE {Torn}) :
            bytes' = [bytes EXCEPT ![fd[w]] = b]
      BY <2>2 DEF WriteBytes
    <3>2. b \in Statuses \cup {Empty, Torn}
      OBVIOUS
    <3> QED  BY <2>2, <3>1, <3>2 DEF WriteBytes
  <2>3. CASE Replace(w)       BY <2>3 DEF Replace
  <2>4. CASE ReplaceFails(w)  BY <2>4 DEF ReplaceFails
  <2>5. CASE Crash(w)         BY <2>5 DEF Crash
  <2>6. CASE Restart(w)       BY <2>6 DEF Restart
  <2> QED  BY <1>2, <2>1, <2>2, <2>3, <2>4, <2>5, <2>6 DEF Step
<1> QED  BY <1>1, <1>2 DEF FileNext

\* With own paths, every step keeps the invariant, and what a reader sees is
\* overwritten by a complete status or not changed.
LEMMA FileStep ==
  ASSUME OwnPath, FilesInv, [FileNext]_fileVars
  PROVE  FilesInv' /\ [Register!Next]_Published
<1> USE PathAssumption, ValueAssumption
<1>0. FileTypeOK'
  BY FileTypes DEF FilesInv
<1>1. CASE UNCHANGED fileVars
  BY <1>0, <1>1 DEF fileVars, FilesInv, WriterInv, PathInv, NeverTorn, Published
<1>2. ASSUME NEW w \in Writers, Step(w) PROVE FilesInv' /\ [Register!Next]_Published
  <2> DEFINE path == TmpOf[w]
  <2>0. FileTypeOK /\ WriterInv /\ PathInv /\ NeverTorn
    BY DEF FilesInv
  <2>1. ASSUME NEW s \in Statuses, NEW i \in Inodes, Open(w, s, i)
        PROVE  FilesInv' /\ [Register!Next]_Published
    <3>1. /\ i # NoInode /\ i # target
          /\ \A p \in Paths : p # path => tmp[p] # i
      BY <2>0, <2>1 DEF Open, InUse, PathInv, FileTypeOK
    <3>2. \A v \in Writers : v # w => TmpOf[v] # path
      BY DEF OwnPath
    <3>3. WriterInv'
      BY <2>0, <2>1, <3>1, <3>2 DEF Open, WriterInv, FileTypeOK
    <3>4. PathInv'
      BY <2>0, <2>1, <3>1 DEF Open, PathInv, FileTypeOK
    <3>5. Published' = Published
      BY <2>0, <2>1, <3>1 DEF Open, Published, FileTypeOK
    <3> QED  BY <1>0, <2>0, <3>3, <3>4, <3>5 DEF FilesInv, NeverTorn
  <2>2. CASE WriteBytes(w)
    <3>1. fd[w] \in Inodes /\ fd[w] = tmp[path] /\ bytes[fd[w]] = Empty
      BY <2>0, <2>2 DEF WriteBytes, WriterInv, FileTypeOK
    <3>2. bytes' = [bytes EXCEPT ![fd[w]] = val[w]]
      BY <2>2, <3>1 DEF WriteBytes
    <3>3. fd[w] # target /\ \A v \in Writers : v # w => tmp[TmpOf[v]] # fd[w]
      BY <2>0, <3>1 DEF OwnPath, PathInv, FileTypeOK
    <3>4. WriterInv'
      BY <2>0, <2>2, <3>1, <3>2, <3>3 DEF WriteBytes, WriterInv, FileTypeOK
    <3>5. PathInv'
      BY <2>0, <2>2 DEF WriteBytes, PathInv
    <3>6. Published' = Published
      BY <2>0, <2>2, <3>2, <3>3 DEF WriteBytes, Published, FileTypeOK
    <3> QED  BY <1>0, <2>0, <3>4, <3>5, <3>6 DEF FilesInv, NeverTorn
  <2>3. CASE Replace(w)
    <3>1. /\ tmp[path] \in Inodes /\ bytes[tmp[path]] \in Statuses
          /\ target' = tmp[path] /\ bytes' = bytes
      BY <2>0, <2>3 DEF Replace, WriterInv, FileTypeOK
    <3>2. \A v \in Writers : v # w => TmpOf[v] # path
      BY DEF OwnPath
    <3>3. WriterInv'
      BY <2>0, <2>3, <3>2 DEF Replace, WriterInv, FileTypeOK
    <3>4. PathInv'
      BY <2>0, <2>3 DEF Replace, PathInv, FileTypeOK
    <3>5. Published' = bytes[tmp[path]] /\ Published' \in Statuses
      BY <3>1 DEF Published
    <3> QED  BY <1>0, <3>3, <3>4, <3>5 DEF FilesInv, NeverTorn, Register!Next, Register!Publish
  <2>4. CASE ReplaceFails(w)
    BY <2>0, <2>4 DEF ReplaceFails, WriterInv
  <2>5. CASE Crash(w)
    BY <1>0, <2>0, <2>5 DEF Crash, FilesInv, FileTypeOK, WriterInv, PathInv, NeverTorn, Published
  <2>6. CASE Restart(w)
    BY <1>0, <2>0, <2>6 DEF Restart, FilesInv, FileTypeOK, WriterInv, PathInv, NeverTorn, Published
  <2> QED  BY <1>2, <2>1, <2>2, <2>3, <2>4, <2>5, <2>6 DEF Step
<1> QED  BY <1>1, <1>2 DEF FileNext

LEMMA FileInitially == FileInit => FilesInv
BY DEF FileInit, FilesInv, FileTypeOK, WriterInv, PathInv, NeverTorn, Published

LEMMA FileInvariance == ASSUME OwnPath PROVE FileSpec => []FilesInv
<1>1. FilesInv /\ [FileNext]_fileVars => FilesInv'
  BY FileStep
<1> QED  BY FileInitially, <1>1, PTL DEF FileSpec
-----------------------------------------------------------------------------
\* Type correctness, shared path or not.
THEOREM FilesAreTyped == FileSpec => []FileTypeOK
<1>1. FileInit => FileTypeOK
  BY DEF FileInit, FileTypeOK
<1> QED  BY <1>1, FileTypes, PTL DEF FileSpec

\* With own paths a reader never finds an incomplete status.
THEOREM OwnPathNeverTorn == ASSUME OwnPath PROVE FileSpec => []NeverTorn
BY FileInvariance, PTL DEF FilesInv

\* With own paths the rename never fails.
THEOREM OwnPathReplaceWorks == ASSUME OwnPath PROVE FileSpec => []ReplaceFindsFile
<1>1. FilesInv => ReplaceFindsFile
  BY DEF FilesInv, WriterInv, ReplaceFindsFile
<1> QED  BY <1>1, FileInvariance, PTL

\* With own paths publication implements the register.
THEOREM OwnPathIsRegister == ASSUME OwnPath PROVE FileSpec => RegisterSpec
<1>1. FileInit => Register!Init
  BY DEF FileInit, Register!Init, Published
<1>2. FilesInv /\ [FileNext]_fileVars => [Register!Next]_Published
  BY FileStep
<1> QED  BY <1>1, <1>2, FileInvariance, PTL DEF FileSpec, RegisterSpec, Register!Spec
=============================================================================
