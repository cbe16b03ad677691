----------------------------- MODULE OwslSystem -----------------------------
(***************************************************************************)
(* The entropy daemon, the status file, the clock and the prover server    *)
(* together.  The file is the register that module StatusFile implements;  *)
(* a status is what its reader can tell: who wrote it, whether its content *)
(* hash verifies, whether it permits work, and its age by the clock, which *)
(* may be set back.  Times are counted in ticks, up to Old, which stands   *)
(* for every longer time.                                                  *)
(***************************************************************************)
EXTENDS Integers, Sequences, FiniteSets

CONSTANTS
  Readings, CriticalBits, WarningBits,                \* as in OwslDaemon
  FrameLimit, AnomalyLimit, RecentLimit, Lookback,
  Requests, MaxPermits, Free,                         \* as in ProverServer
  MaxAge,        \* STATUS_MAX_AGE_SECONDS, 60 seconds
  Interval,      \* WRITE_INTERVAL_SECONDS, 30 seconds
  Jitter,        \* how late a write may be after the sleep
  MaxBack,       \* how far the clock is set back between two writes
  WholeSeconds   \* the clock may show a whole number of seconds

ASSUME TimeAssumption ==
  /\ MaxAge \in Nat \ {0} /\ Interval \in Nat \ {0} /\ Jitter \in Nat /\ MaxBack \in Nat
  /\ WholeSeconds \in BOOLEAN

VARIABLES
  running, avail, frames, anomalies, status,          \* the daemon
  file,       \* what a reader of the status file can tell
  elapsed,    \* ticks since the file was written
  back,       \* ticks the clock was set back since then
  slept,      \* ticks since the daemon's last write
  pc, permits, lock, pending, seen, reply             \* the server

daemonVars == <<running, avail, frames, anomalies, status>>
serverVars == <<pc, permits, lock, pending, seen, reply>>
vars == <<daemonVars, file, elapsed, back, slept, serverVars>>

NoFile == [by |-> "nobody", hash |-> FALSE, permits |-> FALSE]

Daemon == INSTANCE OwslDaemon

Old == MaxAge + MaxBack

Later(t) == IF t < Old THEN t + 1 ELSE Old

\* is_fresh: the clock less the timestamp, below zero when the clock has been
\* set back behind it.
age == elapsed - back

\* Mutant of Gate: the content hash is not compared.
GateNoHash == file.by # "nobody" /\ age < MaxAge /\ file.permits

\* Mutant of Gate: an old status is as good as a new one.
GateNoFreshness == file.by # "nobody" /\ file.hash /\ file.permits

\* OWSLBridgeReader::permits_verification: the file exists, is younger than
\* MaxAge, its hash verifies, and it permits work.  Any error is a denial.
Gate == file.by # "nobody" /\ age < MaxAge /\ file.hash /\ file.permits

Server == INSTANCE ProverServer WITH gate <- Gate

\* The parts are used within the limits they are written for.
ASSUME DaemonAssumption == Daemon!ThresholdAssumption /\ Daemon!LimitAssumption
ASSUME ServerAssumption == Server!RequestAssumption /\ Server!PermitAssumption

Init ==
  /\ Daemon!Init
  /\ file = NoFile /\ elapsed = Old /\ back = 0 /\ slept = 0
  /\ pc = [r \in Requests |-> "idle"]
  /\ permits = MaxPermits
  /\ lock = Free
  /\ pending = 0
  /\ seen = [r \in Requests |-> 0]
  /\ reply = [r \in Requests |-> 0]

\* The daemon writes an initial status at once, hence no sleep before it.
Start ==
  /\ Daemon!Start
  /\ slept' = Interval
  /\ UNCHANGED <<file, elapsed, back, serverVars>>

Stop ==
  /\ Daemon!Stop
  /\ UNCHANGED <<file, elapsed, back, slept, serverVars>>

\* Mutant of Write: the timestamp is taken before the sleep.
WriteOldTimestamp ==
  /\ slept >= Interval
  /\ Daemon!SampleAny
  /\ file' = [by |-> "daemon", hash |-> TRUE, permits |-> Daemon!Permits(status')]
  /\ elapsed' = slept /\ back' = 0 /\ slept' = 0
  /\ UNCHANGED serverVars

\* After the sleep, _sample_and_write.  The hash verifies in the bridge unless
\* a timestamp in the status is a whole number of seconds: Python writes it
\* into the hash as "5.0", Rust as "5".
Write ==
  /\ slept >= Interval
  /\ Daemon!SampleAny
  /\ \E h \in IF WholeSeconds THEN BOOLEAN ELSE {TRUE} :
       file' = [by |-> "daemon", hash |-> h, permits |-> Daemon!Permits(status')]
  /\ elapsed' = 0 /\ back' = 0 /\ slept' = 0
  /\ UNCHANGED serverVars

\* owsl_ipc.py test: SAFE / COMMIT from a reading, or from the 512 bits that
\* stand for a failed or zero reading, and no content hash.
Bootstrap ==
  /\ \E bits \in (Readings \cup {512}) \ {0} :
       file' = [by |-> "test", hash |-> FALSE, permits |-> bits > CriticalBits]
  /\ elapsed' = 0 /\ back' = 0
  /\ UNCHANGED <<daemonVars, slept, serverVars>>

\* Time passes; a running daemon is at most Jitter late with a write.
Tick ==
  /\ running => slept < Interval + Jitter
  /\ elapsed' = Later(elapsed)
  /\ slept' = IF running THEN slept + 1 ELSE 0
  /\ UNCHANGED <<daemonVars, file, back, serverVars>>

\* The clock is set back.  Sleeps do not follow it.
SetBack ==
  /\ back < MaxBack
  /\ back' = back + 1
  /\ UNCHANGED <<daemonVars, file, elapsed, slept, serverVars>>

Handle(r) ==
  /\ UNCHANGED <<daemonVars, file, elapsed, back, slept>>
  /\ Server!Handler(r)

Next ==
  \/ Start \/ Stop \/ Write \/ Bootstrap \/ Tick \/ SetBack
  \/ \E r \in Requests : Handle(r)

Spec == Init /\ [][Next]_vars

\* Time goes on.
FairSpec == Spec /\ WF_vars(Tick)
-----------------------------------------------------------------------------
\* The daemon's write interval keeps its status fresh for the bridge, even
\* when it is late: from its first write on
\* the age in the file stays below the limit.
FreshWhileRunning == running /\ frames # <<>> => age < MaxAge

\* Work starts only on the daemon's word about a reading above the floor and
\* with the latch open, given less than MaxAge ago, or as much longer as the
\* clock was set back; a bootstrap status that replaced a HALT never stands in
\* for it.
AdmittedOnHealth ==
  [][\A r \in Requests : pc[r] = "gating" /\ pc'[r] = "proving" =>
        /\ file.by = "daemon" /\ elapsed < MaxAge + back
        /\ avail > CriticalBits /\ status.action # "HALT"]_vars

\* A daemon that stays away closes the gate, whoever else writes the file and
\* whatever a clock set back does for the last status.
DeadDaemonCloses == <>[](~running) => <>[](~Gate)

\* What `owsl_ipc.py test' is for: on a cold start, its SAFE status lets the
\* bridge permit work.
BootstrapPermits == file.by = "test" /\ file.permits /\ age < MaxAge => Gate
=============================================================================
