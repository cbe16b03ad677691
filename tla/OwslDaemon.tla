----------------------------- MODULE OwslDaemon -----------------------------
(***************************************************************************)
(* The entropy daemon of src/owsl_ipc.py: AnomalyDetector, classify and    *)
(* OWSLDaemon._sample_and_write.  Time stays outside: a sleep may last any *)
(* time from the write interval up, so when the next sample is taken any   *)
(* prefix of the frames may have left the sliding window.                  *)
(***************************************************************************)
EXTENDS Integers, Sequences, FiniteSetsExt

CONSTANTS
  Readings,        \* values /proc/sys/kernel/random/entropy_avail may show
  CriticalBits,    \* ENTROPY_CRITICAL_BITS, 64
  WarningBits,     \* ENTROPY_WARNING_BITS, 256
  FrameLimit,      \* maxlen of the deque of frames, 1000
  AnomalyLimit,    \* ANOMALY_HISTORY_LIMIT, 50
  RecentLimit,     \* anomalies copied into a status, 10
  Lookback         \* anomalies classify looks at, 5

ASSUME ThresholdAssumption ==
  /\ Readings \subseteq Nat
  /\ CriticalBits \in Nat /\ WarningBits \in Nat
  /\ 0 < CriticalBits /\ CriticalBits < WarningBits

ASSUME LimitAssumption ==
  /\ FrameLimit \in Nat /\ AnomalyLimit \in Nat
  /\ RecentLimit \in Nat /\ Lookback \in Nat
  /\ 3 <= FrameLimit
  /\ 0 < Lookback /\ Lookback <= RecentLimit /\ RecentLimit <= AnomalyLimit

VARIABLES
  running,     \* the daemon process exists and has not seen SIGTERM
  avail,       \* the reading behind the published status (-1: unreadable)
  frames,      \* AnomalyDetector.frames, the avail_bits of each
  anomalies,   \* AnomalyDetector.anomalies, the kind of each
  status       \* the status file's OWSLStatus, or NoStatus

vars == <<running, avail, frames, anomalies, status>>

Unreadable == -1
NoStatus == [status |-> "NONE", action |-> "NONE", remaining |-> 0,
             consumed |-> 0, frameCount |-> 0]
Kinds == {"CRITICAL", "WARNING", "RATE_DROP"}

Monus(a, b) == IF a > b THEN a - b ELSE 0

\* The last n elements, as the slices [-n:] of the code take them.
LastOf(s, n) == SubSeq(s, Len(s) - (IF Len(s) < n THEN Len(s) ELSE n) + 1, Len(s))

\* deque.append on a deque with a maxlen.
Push(s, x, limit) ==
  IF Len(s) < limit THEN Append(s, x) ELSE Append(Tail(s), x)
-----------------------------------------------------------------------------
\* Anomaly detection

\* The frame just recorded is below half the mean of the two before it.
RateDrop(fs) ==
  LET n == Len(fs) IN
  /\ n >= 3
  /\ fs[n-2] + fs[n-1] > 0
  /\ 4 * fs[n] < fs[n-2] + fs[n-1]

\* Mutant of Check: a warning is only logged, never recorded.
CheckSilentWarning(bits, fs, log) ==
  IF bits < CriticalBits THEN Push(log, "CRITICAL", AnomalyLimit)
  ELSE IF bits >= WarningBits /\ RateDrop(fs) THEN Push(log, "RATE_DROP", AnomalyLimit)
  ELSE log

\* _check: at most one anomaly per recorded frame.
Check(bits, fs, log) ==
  CASE bits < CriticalBits -> Push(log, "CRITICAL", AnomalyLimit)
    [] bits >= CriticalBits /\ bits < WarningBits -> Push(log, "WARNING", AnomalyLimit)
    [] bits >= WarningBits /\ RateDrop(fs) -> Push(log, "RATE_DROP", AnomalyLimit)
    [] OTHER -> log

\* Mutant of RecentAnomalies: the slice takes the oldest ones.
RecentAnomaliesOldest(log) ==
  SubSeq(log, 1, IF Len(log) < RecentLimit THEN Len(log) ELSE RecentLimit)

RecentAnomalies(log) == LastOf(log, RecentLimit)

\* Mutant of CriticalAnomaly: every anomaly of the status counts.
CriticalAnomalyAnywhere(recent) == \E i \in DOMAIN recent : recent[i] = "CRITICAL"

CriticalAnomaly(recent) ==
  \E i \in DOMAIN LastOf(recent, Lookback) : LastOf(recent, Lookback)[i] = "CRITICAL"

BitsConsumed(fs) ==
  IF Len(fs) < 2 THEN 0
  ELSE Max({fs[i] : i \in DOMAIN fs}) - fs[Len(fs)]

Classify(bits, recent) ==
  IF bits < CriticalBits \/ CriticalAnomaly(recent) THEN <<"CRITICAL", "HALT">>
  ELSE IF bits < WarningBits THEN <<"WARNING", "LOG">>
  ELSE <<"SAFE", "COMMIT">>

StatusOf(bits, fs, log) ==
  LET verdict == Classify(bits, RecentAnomalies(log)) IN
  [status |-> verdict[1], action |-> verdict[2],
   remaining |-> Monus(bits, CriticalBits),
   consumed |-> BitsConsumed(fs), frameCount |-> Len(fs)]

\* What the bridge asks of a fresh status with a valid hash:
\* permits_verification and bits_remaining > 0.
Permits(s) == s.status # "CRITICAL" /\ s.action # "HALT" /\ s.remaining > 0
-----------------------------------------------------------------------------
Init ==
  /\ running = FALSE
  /\ avail = Unreadable
  /\ frames = <<>>
  /\ anomalies = <<>>
  /\ status = NoStatus \* no file yet

\* OWSLDaemon.__init__: a new process with an empty detector.
Start ==
  /\ ~running
  /\ running' = TRUE
  /\ frames' = <<>>
  /\ anomalies' = <<>>
  /\ UNCHANGED <<avail, status>>

\* SIGTERM, SIGINT or a crash: the loop ends without another write and the
\* file keeps the last status.
Stop ==
  /\ running
  /\ running' = FALSE
  /\ UNCHANGED <<avail, frames, anomalies, status>>

\* record() and the rest of _sample_and_write for a value of entropy_avail,
\* with `log' the anomalies before it and `k' frames out of the window.
Record(bits, log, k) ==
  LET fs == Push(frames, bits, FrameLimit)
      kept == SubSeq(fs, k + 1, Len(fs)) IN
  /\ k < Len(fs)
  /\ frames' = kept
  /\ anomalies' = Check(bits, kept, log)
  /\ status' = StatusOf(bits, kept, anomalies')
  /\ UNCHANGED running

\* read_entropy_avail succeeds.
Sample(bits) ==
  /\ running
  /\ avail' = bits
  /\ \E k \in 0..Len(frames) : Record(bits, anomalies, k)

\* read_entropy_avail returns None: one anomaly for the failed read, and
\* a second one when the 0 that stands for it is recorded.
SampleUnreadable ==
  /\ running
  /\ avail' = Unreadable
  /\ \E k \in 0..Len(frames) :
       Record(0, Push(anomalies, "CRITICAL", AnomalyLimit), k)

SampleAny == SampleUnreadable \/ \E bits \in Readings : Sample(bits)

Next == Start \/ Stop \/ SampleAny

Spec == Init /\ [][Next]_vars

\* The daemon is restarted by its service manager and its loop goes on.
FairSpec == Spec /\ WF_vars(Start) /\ WF_vars(SampleAny)
-----------------------------------------------------------------------------
\* Every variable has its type; the histories respect their deque limits.
TypeOK ==
  /\ running \in BOOLEAN
  /\ avail \in Readings \cup {Unreadable}
  /\ frames \in Seq(Nat) /\ Len(frames) <= FrameLimit
  /\ anomalies \in Seq(Kinds) /\ Len(anomalies) <= AnomalyLimit
  /\ status.remaining \in Nat /\ status.consumed \in Nat

\* Anomalies recorded since the last critical one, as far as classify looks.
CreditOf(log) ==
  LET n == Len(log)
      recent == {d \in 0..Lookback-1 : d < n /\ log[n-d] = "CRITICAL"} IN
  IF recent = {} THEN Lookback ELSE Min(recent)

Credit == CreditOf(anomalies)

\* A published status permits work only if the reading behind it left bits
\* above the floor and no critical anomaly is among the last Lookback ones:
\* the promise of classify and bits_remaining across expiry, overflow of the
\* deques and restarts.
PermitIsEarned == Permits(status) => avail > CriticalBits /\ Credit = Lookback

\* The bounded deques, slices and early returns of the detector implement
\* the latch: the gate opens exactly when the credit is complete and the
\* reading is above the floor.
Latch == INSTANCE OwslLatch
         WITH open <- Permits(status), above <- avail > CriticalBits, credit <- Credit
LatchSpec == Latch!Spec

\* Readings that stay between the floor and the warning threshold reopen the
\* gate: each adds an anomaly that pushes the critical ones out of sight.
WarningsReopen ==
  <>[](running /\ avail > CriticalBits /\ avail < WarningBits) => <>[]Permits(status)

\* What the comment beside the unreadable branch of _sample_and_write says:
\* the bridge does not block forever once the pool is readable and healthy.
HealthyReopens ==
  <>[](running /\ avail >= WarningBits) => <>Permits(status)
=============================================================================
