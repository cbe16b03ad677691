------------------------- MODULE OwslDaemon_proofs -------------------------
(***************************************************************************)
(* Proofs about OwslDaemon for any thresholds and any limits of its deques *)
(* with Lookback <= RecentLimit <= AnomalyLimit.                           *)
(***************************************************************************)
EXTENDS OwslDaemon, SequenceTheorems, WellFoundedInduction, TLAPS

\* Elements of a slice [-n:].
LEMMA LastOfElements ==
  ASSUME NEW S, NEW s \in Seq(S), NEW n \in Nat
  PROVE  /\ LastOf(s, n) \in Seq(S)
         /\ Len(LastOf(s, n)) = IF Len(s) < n THEN Len(s) ELSE n
         /\ \A i \in 1..Len(LastOf(s, n)) :
              LastOf(s, n)[i] = s[Len(s) - Len(LastOf(s, n)) + i]
<1> DEFINE k == IF Len(s) < n THEN Len(s) ELSE n
<1>1. k \in 0..Len(s)
  OBVIOUS
<1>2. LastOf(s, n) = SubSeq(s, Len(s) - k + 1, Len(s))
  BY DEF LastOf
<1>3. /\ SubSeq(s, Len(s) - k + 1, Len(s)) \in Seq(S)
      /\ Len(SubSeq(s, Len(s) - k + 1, Len(s))) = k
      /\ \A i \in 1..k : SubSeq(s, Len(s) - k + 1, Len(s))[i] = s[Len(s) - k + i]
  <2> HIDE DEF k
  <2> QED  BY <1>1, SubSeqProperties
<1> QED  BY <1>2, <1>3

\* Elements of a deque after an append: the last ones are the old ones.
LEMMA PushElements ==
  ASSUME NEW S, NEW s \in Seq(S), NEW x \in S, NEW limit \in Nat, limit > 0, Len(s) <= limit
  PROVE  /\ Push(s, x, limit) \in Seq(S)
         /\ Len(Push(s, x, limit)) = IF Len(s) < limit THEN Len(s) + 1 ELSE limit
         /\ Push(s, x, limit)[Len(Push(s, x, limit))] = x
         /\ \A d \in 1..Len(Push(s, x, limit))-1 :
              Push(s, x, limit)[Len(Push(s, x, limit)) - d] = s[Len(s) - d + 1]
<1>1. CASE Len(s) < limit
  BY <1>1 DEF Push
<1>2. CASE Len(s) = limit
  <2>1. /\ Tail(s) \in Seq(S) /\ Len(Tail(s)) = Len(s) - 1
        /\ \A i \in 1..Len(s)-1 : Tail(s)[i] = s[i + 1]
    BY <1>2
  <2> QED  BY <1>2, <2>1 DEF Push
<1> QED  BY <1>1, <1>2
-----------------------------------------------------------------------------
\* The anomaly d places before the newest one is a critical one.
CriticalAt(log, d) == d < Len(log) /\ log[Len(log) - d] = "CRITICAL"

\* c anomalies have been recorded since the last critical one, as far as the
\* look-back goes: Credit without the minimum of a set.
IsCredit(log, c) ==
  /\ c \in 0..Lookback
  /\ c < Lookback => CriticalAt(log, c)
  /\ \A d \in 0..c-1 : ~CriticalAt(log, d)

\* A set of naturals with an upper bound has a maximum.
LEMMA MaxExists ==
  ASSUME NEW S \in SUBSET Nat, S # {}, NEW b \in Nat, \A x \in S : x <= b
  PROVE  Max(S) \in S /\ \A x \in S : x <= Max(S)
<1> DEFINE T == {n \in Nat : n <= b /\ b - n \in S}
<1>1. T \subseteq Nat /\ T # {}
  <2>1. PICK x \in S : TRUE
    OBVIOUS
  <2>2. b - x \in Nat /\ b - (b - x) = x
    BY <2>1
  <2> QED  BY <2>1, <2>2
<1>2. PICK n \in T : \A m \in T : ~(<<m, n>> \in OpToRel(<, Nat))
  <2> HIDE DEF T
  <2> QED  BY <1>1, NatLessThanWellFounded, WFMin
<1>3. \A m \in T : n <= m
  <2> TAKE m \in T
  <2>1. m \in Nat /\ n \in Nat
    OBVIOUS
  <2>2. OpToRel(<, Nat) = {ss \in Nat \X Nat : ss[1] < ss[2]}
    BY DEF OpToRel
  <2> HIDE DEF T
  <2>3. ~(<<m, n>> \in {ss \in Nat \X Nat : ss[1] < ss[2]})
    BY <1>2, <2>2
  <2> QED  BY <2>1, <2>3
<1>4. \A x \in S : x <= b - n
  <2> TAKE x \in S
  <2>1. b - x \in T
    BY DEF T
  <2> QED  BY <2>1, <1>3
<1>5. b - n \in S
  OBVIOUS
<1> QED  BY <1>4, <1>5 DEF Max

\* The credit is the number IsCredit speaks of.
LEMMA CreditIs ==
  ASSUME NEW log \in Seq(Kinds), NEW c, IsCredit(log, c)
  PROVE  CreditOf(log) = c
<1> DEFINE recent == {d \in 0..Lookback-1 : CriticalAt(log, d)}
<1>1. CreditOf(log) = IF recent = {} THEN Lookback ELSE Min(recent)
  BY DEF CreditOf, CriticalAt
<1>2. CASE c = Lookback
  <2>1. recent = {}
    BY <1>2, LimitAssumption DEF IsCredit
  <2> QED  BY <1>1, <1>2, <2>1
<1>3. CASE c < Lookback
  <2>1. c \in recent /\ \A d \in recent : c <= d
    BY <1>3, LimitAssumption DEF IsCredit
  <2>2. Min(recent) = c
    <3>1. \A m \in recent : (\A d \in recent : m <= d) => m = c
      BY <2>1, LimitAssumption DEF IsCredit
    <3> HIDE DEF recent
    <3> QED  BY <2>1, <3>1 DEF Min
  <2> QED  BY <1>1, <2>1, <2>2
<1> QED  BY <1>2, <1>3, LimitAssumption DEF IsCredit

\* What classify sees of the anomalies: a critical one within the look-back.
LEMMA CriticalIsVisible ==
  ASSUME NEW log \in Seq(Kinds), NEW c, IsCredit(log, c)
  PROVE  CriticalAnomaly(RecentAnomalies(log)) <=> c < Lookback
<1> USE LimitAssumption
<1> DEFINE shown == RecentAnomalies(log)
           seen == LastOf(shown, Lookback)
<1>1. /\ shown \in Seq(Kinds)
      /\ Len(shown) = IF Len(log) < RecentLimit THEN Len(log) ELSE RecentLimit
      /\ \A i \in 1..Len(shown) : shown[i] = log[Len(log) - Len(shown) + i]
  BY LastOfElements DEF RecentAnomalies
<1>2. /\ seen \in Seq(Kinds)
      /\ Len(seen) = IF Len(shown) < Lookback THEN Len(shown) ELSE Lookback
      /\ \A i \in 1..Len(seen) : seen[i] = shown[Len(shown) - Len(seen) + i]
  <2> HIDE DEF shown
  <2> QED  BY <1>1, LastOfElements
<1>3. CriticalAnomaly(shown) <=> \E i \in 1..Len(seen) : seen[i] = "CRITICAL"
  <2>1. DOMAIN seen = 1..Len(seen)
    <3> HIDE DEF seen
    <3> QED  BY <1>2
  <2> HIDE DEF shown
  <2> QED  BY <2>1 DEF CriticalAnomaly
<1> HIDE DEF shown, seen
<1>4. Len(seen) = IF Len(log) < Lookback THEN Len(log) ELSE Lookback
  BY <1>1, <1>2
<1>5. \A i \in 1..Len(seen) : seen[i] = log[Len(log) - Len(seen) + i]
  <2> TAKE i \in 1..Len(seen)
  <2>0. /\ Len(log) \in Nat /\ Len(shown) \in Nat /\ Len(seen) \in Nat
        /\ Len(seen) <= Len(shown)
    BY <1>1, <1>2
  <2>1. Len(shown) - Len(seen) + i \in 1..Len(shown)
    BY <2>0
  <2>2. seen[i] = log[Len(log) - Len(shown) + (Len(shown) - Len(seen) + i)]
    BY <1>1, <1>2, <2>1
  <2>3. Len(log) - Len(shown) + (Len(shown) - Len(seen) + i) = Len(log) - Len(seen) + i
    BY <2>0
  <2> QED  BY <2>2, <2>3
<1>6. (\E i \in 1..Len(seen) : seen[i] = "CRITICAL")
        <=> \E d \in 0..Lookback-1 : CriticalAt(log, d)
  <2>1. ASSUME NEW i \in 1..Len(seen), seen[i] = "CRITICAL"
        PROVE  \E d \in 0..Lookback-1 : CriticalAt(log, d)
    <3>1. Len(seen) - i \in 0..Lookback-1 /\ Len(seen) - i < Len(log)
      BY <1>4
    <3>2. log[Len(log) - (Len(seen) - i)] = "CRITICAL"
      BY <1>5, <2>1
    <3> QED  BY <3>1, <3>2 DEF CriticalAt
  <2>2. ASSUME NEW d \in 0..Lookback-1, CriticalAt(log, d)
        PROVE  \E i \in 1..Len(seen) : seen[i] = "CRITICAL"
    <3>1. Len(seen) - d \in 1..Len(seen)
      BY <1>4, <2>2 DEF CriticalAt
    <3>2. seen[Len(seen) - d] = log[Len(log) - d]
      BY <1>5, <3>1
    <3> QED  BY <2>2, <3>1, <3>2 DEF CriticalAt
  <2> QED  BY <2>1, <2>2
<1>7. (\E d \in 0..Lookback-1 : CriticalAt(log, d)) <=> c < Lookback
  BY DEF IsCredit
<1> QED  BY <1>3, <1>6, <1>7 DEF shown

\* A critical anomaly takes all credit, any other gives back one unit.
LEMMA PushCredit ==
  ASSUME NEW log \in Seq(Kinds), Len(log) <= AnomalyLimit,
         NEW kind \in Kinds, NEW c, IsCredit(log, c)
  PROVE  LET new == Push(log, kind, AnomalyLimit) IN
         /\ new \in Seq(Kinds) /\ Len(new) <= AnomalyLimit
         /\ IsCredit(new, IF kind = "CRITICAL" THEN 0
                          ELSE IF c < Lookback THEN c + 1 ELSE c)
<1> USE LimitAssumption
<1> DEFINE new == Push(log, kind, AnomalyLimit)
<1>1. /\ new \in Seq(Kinds)
      /\ Len(new) = IF Len(log) < AnomalyLimit THEN Len(log) + 1 ELSE AnomalyLimit
      /\ new[Len(new)] = kind
      /\ \A d \in 1..Len(new)-1 : new[Len(new) - d] = log[Len(log) - d + 1]
  BY PushElements
<1> HIDE DEF new
<1>2. CriticalAt(new, 0) <=> kind = "CRITICAL"
  BY <1>1 DEF CriticalAt
<1>3. \A d \in 0..Lookback-1 : d > 0 => (CriticalAt(new, d) <=> CriticalAt(log, d - 1))
  <2> TAKE d \in 0..Lookback-1
  <2> HAVE d > 0
  <2>1. d < Len(new) <=> d - 1 < Len(log)
    BY <1>1
  <2>2. d < Len(new) => new[Len(new) - d] = log[Len(log) - (d - 1)]
    BY <1>1
  <2> QED  BY <2>1, <2>2 DEF CriticalAt
<1>4. CASE kind = "CRITICAL"
  BY <1>1, <1>2, <1>4 DEF new, IsCredit
<1>5. CASE kind # "CRITICAL"
  <2> DEFINE k == IF c < Lookback THEN c + 1 ELSE c
  <2>1. k \in 0..Lookback
    BY DEF IsCredit
  <2>2. ASSUME k < Lookback PROVE CriticalAt(new, k)
    BY <1>3, <2>2 DEF IsCredit
  <2>3. ASSUME NEW d \in 0..k-1 PROVE ~CriticalAt(new, d)
    <3>1. CASE d = 0
      BY <1>2, <1>5, <3>1
    <3>2. CASE d > 0
      <4>1. d \in 0..Lookback-1 /\ d - 1 \in 0..c-1
        BY <2>1, <3>2 DEF IsCredit
      <4> QED  BY <1>3, <3>2, <4>1 DEF IsCredit
    <3> QED  BY <3>1, <3>2
  <2> QED  BY <1>1, <1>5, <2>1, <2>2, <2>3 DEF new, IsCredit
<1> QED  BY <1>4, <1>5
-----------------------------------------------------------------------------
\* The frames are bounded, so that their maximum exists.
FramesBounded == \E b \in Nat : \A i \in DOMAIN frames : frames[i] <= b

TypeInv ==
  /\ running \in BOOLEAN
  /\ avail \in Readings \cup {Unreadable}
  /\ frames \in Seq(Nat) /\ Len(frames) <= FrameLimit
  /\ anomalies \in Seq(Kinds) /\ Len(anomalies) <= AnomalyLimit
  /\ status.remaining \in Nat /\ status.consumed \in Nat
  /\ FramesBounded

HasCredit == \E c \in 0..Lookback : IsCredit(anomalies, c)

Inv == TypeInv /\ HasCredit /\ PermitIsEarned

More(c) == IF c < Lookback THEN c + 1 ELSE c

\* Recording a frame keeps the history of frames a bounded history.
LEMMA RecordFrames ==
  ASSUME TypeInv, NEW bits \in Nat, NEW log, NEW k \in Nat, Record(bits, log, k)
  PROVE  /\ frames' \in Seq(Nat) /\ Len(frames') <= FrameLimit /\ Len(frames') > 0
         /\ FramesBounded'
<1> DEFINE fs == Push(frames, bits, FrameLimit)
<1>0. /\ frames \in Seq(Nat) /\ Len(frames) <= FrameLimit
      /\ FrameLimit \in Nat /\ FrameLimit > 0
  BY LimitAssumption DEF TypeInv
<1>1. /\ fs \in Seq(Nat)
      /\ Len(fs) = IF Len(frames) < FrameLimit THEN Len(frames) + 1 ELSE FrameLimit
      /\ fs[Len(fs)] = bits
      /\ \A d \in 1..Len(fs)-1 : fs[Len(fs) - d] = frames[Len(frames) - d + 1]
  <2> DEFINE Bits == Nat
  <2>1. frames \in Seq(Bits) /\ bits \in Bits
    BY <1>0
  <2> HIDE DEF Bits, fs
  <2>2. /\ Push(frames, bits, FrameLimit) \in Seq(Bits)
        /\ Len(Push(frames, bits, FrameLimit)) =
             IF Len(frames) < FrameLimit THEN Len(frames) + 1 ELSE FrameLimit
        /\ Push(frames, bits, FrameLimit)[Len(Push(frames, bits, FrameLimit))] = bits
        /\ \A d \in 1..Len(Push(frames, bits, FrameLimit))-1 :
             Push(frames, bits, FrameLimit)[Len(Push(frames, bits, FrameLimit)) - d]
               = frames[Len(frames) - d + 1]
    BY <1>0, <2>1, PushElements
  <2> QED  BY <2>2 DEF Bits, fs
<1>2. k < Len(fs) /\ frames' = SubSeq(fs, k + 1, Len(fs))
  BY DEF Record
<1> HIDE DEF fs
<1>3. /\ frames' \in Seq(Nat) /\ Len(frames') = Len(fs) - k
      /\ \A i \in 1..Len(fs)-k : frames'[i] = fs[k + i]
  <2>1. Len(fs) \in Nat /\ \A i \in k+1..Len(fs) : fs[i] \in Nat
    BY <1>1
  <2>2. /\ SubSeq(fs, k + 1, Len(fs)) \in Seq(Nat)
        /\ Len(SubSeq(fs, k + 1, Len(fs))) = Len(fs) - k
        /\ \A i \in 1..Len(fs)-k : SubSeq(fs, k + 1, Len(fs))[i] = fs[k + i]
    BY <1>2, <2>1, SubSeqProperties
  <2> QED  BY <1>2, <2>2
<1>4. PICK b \in Nat : \A i \in DOMAIN frames : frames[i] <= b
  BY DEF TypeInv, FramesBounded
<1>5. \A j \in 1..Len(fs) : fs[j] <= b + bits
  <2> TAKE j \in 1..Len(fs)
  <2>1. CASE j = Len(fs)
    BY <1>1, <2>1
  <2>2. CASE j < Len(fs)
    <3>0. Len(fs) \in Nat /\ Len(frames) \in Nat /\ Len(fs) <= Len(frames) + 1
      BY <1>0, <1>1
    <3>1. /\ Len(fs) - j \in 1..Len(fs)-1
          /\ Len(frames) - (Len(fs) - j) + 1 \in 1..Len(frames)
          /\ Len(fs) - (Len(fs) - j) = j
      BY <2>2, <3>0
    <3>2. fs[j] = frames[Len(frames) - (Len(fs) - j) + 1]
      BY <1>1, <3>1
    <3>3. /\ frames[Len(frames) - (Len(fs) - j) + 1] \in Nat
          /\ frames[Len(frames) - (Len(fs) - j) + 1] <= b
      BY <1>0, <1>4, <3>1
    <3> QED  BY <3>2, <3>3
  <2> QED  BY <1>1, <2>1, <2>2
<1>6. \A i \in DOMAIN frames' : frames'[i] <= b + bits
  <2> TAKE i \in DOMAIN frames'
  <2>1. Len(fs) \in Nat /\ DOMAIN frames' = 1..Len(frames')
    BY <1>1, <1>3
  <2>2. i \in 1..Len(fs)-k /\ k + i \in 1..Len(fs)
    BY <1>2, <1>3, <2>1
  <2> QED  BY <1>3, <1>5, <2>2
<1>7. b + bits \in Nat
  OBVIOUS
<1>8. FramesBounded'
  BY <1>6, <1>7 DEF FramesBounded
<1>9. Len(frames') <= FrameLimit /\ Len(frames') > 0
  BY <1>0, <1>1, <1>2, <1>3
<1> QED  BY <1>3, <1>8, <1>9

\* Bits consumed are a natural: the maximum of the window is not below its
\* last frame.
LEMMA ConsumedIsNat ==
  ASSUME NEW fs \in Seq(Nat), NEW b \in Nat, \A i \in DOMAIN fs : fs[i] <= b
  PROVE  BitsConsumed(fs) \in Nat
<1>1. CASE Len(fs) < 2
  BY <1>1 DEF BitsConsumed
<1>2. CASE Len(fs) >= 2
  <2> DEFINE S == {fs[i] : i \in DOMAIN fs}
  <2>1. Len(fs) \in DOMAIN fs
    BY <1>2
  <2>2. S \in SUBSET Nat /\ S # {} /\ fs[Len(fs)] \in S /\ \A x \in S : x <= b
    BY <2>1
  <2> HIDE DEF S
  <2>3. Max(S) \in Nat /\ fs[Len(fs)] <= Max(S)
    BY <2>2, MaxExists
  <2>4. BitsConsumed(fs) = Max(S) - fs[Len(fs)]
    BY <1>2 DEF BitsConsumed, S
  <2>5. fs[Len(fs)] \in Nat
    BY <2>1
  <2> QED  BY <2>3, <2>4, <2>5
<1> QED  BY <1>1, <1>2

\* The verdict on a sample: what a permitting status says of the credit.
LEMMA RecordVerdict ==
  ASSUME TypeInv, NEW bits \in Nat, NEW k \in Nat,
         NEW log \in Seq(Kinds), Len(log) <= AnomalyLimit,
         NEW c, IsCredit(log, c), Record(bits, log, k)
  PROVE  /\ anomalies' \in Seq(Kinds) /\ Len(anomalies') <= AnomalyLimit
         /\ status'.remaining \in Nat /\ status'.consumed \in Nat
         /\ bits < CriticalBits => IsCredit(anomalies', 0) /\ ~Permits(status')
         /\ bits >= CriticalBits /\ bits < WarningBits =>
              /\ IsCredit(anomalies', More(c))
              /\ Permits(status') <=> More(c) = Lookback /\ bits > CriticalBits
         /\ bits >= WarningBits => \E d \in {c, More(c)} :
              IsCredit(anomalies', d) /\ (Permits(status') <=> d = Lookback)
<1> USE LimitAssumption, ThresholdAssumption
<1>1. /\ anomalies' = Check(bits, frames', log)
      /\ status' = StatusOf(bits, frames', anomalies')
  BY DEF Record
<1>2. c \in 0..Lookback
  BY DEF IsCredit
<1>3. \A kind \in Kinds :
        LET new == Push(log, kind, AnomalyLimit) IN
        /\ new \in Seq(Kinds) /\ Len(new) <= AnomalyLimit
        /\ IsCredit(new, IF kind = "CRITICAL" THEN 0 ELSE More(c))
  BY PushCredit DEF More
<1>4. status'.remaining = Monus(bits, CriticalBits) /\ status'.remaining \in Nat
  BY <1>1 DEF StatusOf, Monus
<1>5. status'.consumed \in Nat
  <2>1. status'.consumed = BitsConsumed(frames')
    BY <1>1 DEF StatusOf
  <2>2. frames' \in Seq(Nat) /\ \E b \in Nat : \A i \in DOMAIN frames' : frames'[i] <= b
    BY RecordFrames DEF FramesBounded
  <2> QED  BY <2>1, <2>2, ConsumedIsNat
<1>6. Permits(status') <=>
        bits > CriticalBits /\ ~CriticalAnomaly(RecentAnomalies(anomalies'))
  BY <1>1, <1>4 DEF StatusOf, Classify, Permits, Monus
<1>7. ASSUME anomalies' \in Seq(Kinds), NEW d, IsCredit(anomalies', d)
      PROVE  Permits(status') <=> bits > CriticalBits /\ d = Lookback
  <2>1. CriticalAnomaly(RecentAnomalies(anomalies')) <=> d < Lookback
    BY <1>7, CriticalIsVisible
  <2>2. d \in 0..Lookback
    BY <1>7 DEF IsCredit
  <2> QED  BY <1>6, <2>1, <2>2
<1>8. CASE bits < CriticalBits
  <2>1. anomalies' = Push(log, "CRITICAL", AnomalyLimit)
    BY <1>1, <1>8 DEF Check
  <2>2. /\ anomalies' \in Seq(Kinds) /\ Len(anomalies') <= AnomalyLimit
        /\ IsCredit(anomalies', 0)
    BY <1>3, <2>1 DEF Kinds
  <2> QED  BY <1>4, <1>5, <1>6, <1>8, <2>2
<1>9. CASE bits >= CriticalBits /\ bits < WarningBits
  <2>1. anomalies' = Push(log, "WARNING", AnomalyLimit)
    BY <1>1, <1>9 DEF Check
  <2>2. /\ anomalies' \in Seq(Kinds) /\ Len(anomalies') <= AnomalyLimit
        /\ IsCredit(anomalies', More(c))
    BY <1>3, <2>1 DEF Kinds
  <2> QED  BY <1>4, <1>5, <1>7, <1>9, <2>2
<1>10. CASE bits >= WarningBits
  <2>1. CASE RateDrop(frames')
    <3>1. anomalies' = Push(log, "RATE_DROP", AnomalyLimit)
      BY <1>1, <1>10, <2>1 DEF Check
    <3>2. /\ anomalies' \in Seq(Kinds) /\ Len(anomalies') <= AnomalyLimit
          /\ IsCredit(anomalies', More(c))
      BY <1>3, <3>1 DEF Kinds
    <3> QED  BY <1>4, <1>5, <1>7, <1>10, <3>2
  <2>2. CASE ~RateDrop(frames')
    <3>1. anomalies' = log
      BY <1>1, <1>10, <2>2 DEF Check
    <3> QED  BY <1>4, <1>5, <1>7, <1>10, <3>1
  <2> QED  BY <2>1, <2>2
<1> QED  BY <1>8, <1>9, <1>10
-----------------------------------------------------------------------------
LEMMA InitInv == Init => Inv
<1> SUFFICES ASSUME Init PROVE Inv
  OBVIOUS
<1>1. FramesBounded
  <2>1. 0 \in Nat /\ \A i \in DOMAIN frames : frames[i] <= 0
    BY DEF Init
  <2> QED  BY <2>1 DEF FramesBounded
<1>2. TypeInv
  <2>1. running \in BOOLEAN /\ avail \in Readings \cup {Unreadable}
    BY DEF Init
  <2>2. frames \in Seq(Nat) /\ Len(frames) = 0 /\ anomalies \in Seq(Kinds) /\ Len(anomalies) = 0
    BY DEF Init
  <2>3. status.remaining \in Nat /\ status.consumed \in Nat
    BY DEF Init, NoStatus
  <2> QED  BY <1>1, <2>1, <2>2, <2>3, LimitAssumption DEF TypeInv
<1>3. IsCredit(anomalies, Lookback)
  BY LimitAssumption DEF Init, IsCredit, CriticalAt
<1>4. HasCredit
  BY <1>3, LimitAssumption DEF HasCredit
<1>5. PermitIsEarned
  BY DEF Init, PermitIsEarned, Permits, NoStatus
<1> QED  BY <1>2, <1>4, <1>5 DEF Inv

\* A sample, whatever the reading and the frames it lets go, keeps the
\* invariant and is a step of the latch.
LEMMA StepSample ==
  ASSUME Inv, SampleAny
  PROVE  Inv' /\ Latch!Next
<1> USE LimitAssumption, ThresholdAssumption
<1>1. PICK c \in 0..Lookback : IsCredit(anomalies, c)
  BY DEF Inv, HasCredit
<1>2. TypeInv /\ anomalies \in Seq(Kinds) /\ Len(anomalies) <= AnomalyLimit
  BY DEF Inv, TypeInv
<1>3. Credit = c
  BY <1>1, <1>2, CreditIs DEF Credit
<1>4. \A d : IsCredit(anomalies', d) /\ anomalies' \in Seq(Kinds) => Credit' = d
  BY CreditIs DEF Credit
<1>5. CASE SampleUnreadable
  <2> DEFINE log == Push(anomalies, "CRITICAL", AnomalyLimit)
  <2>1. PICK k \in 0..Len(frames) : Record(0, log, k)
    BY <1>5 DEF SampleUnreadable
  <2>2. log \in Seq(Kinds) /\ Len(log) <= AnomalyLimit /\ IsCredit(log, 0)
    BY <1>1, <1>2, PushCredit DEF Kinds
  <2> HIDE DEF log
  <2>3. k \in Nat /\ 0 < CriticalBits /\ 0 \in Nat
    BY <1>2 DEF TypeInv
  <2>4. frames' \in Seq(Nat) /\ Len(frames') <= FrameLimit /\ FramesBounded'
    BY <1>2, <2>1, <2>3, RecordFrames
  <2>5. /\ anomalies' \in Seq(Kinds) /\ Len(anomalies') <= AnomalyLimit
        /\ status'.remaining \in Nat /\ status'.consumed \in Nat
        /\ IsCredit(anomalies', 0) /\ ~Permits(status')
    BY <1>2, <2>1, <2>2, <2>3, RecordVerdict
  <2>6. running' \in BOOLEAN /\ avail' \in Readings \cup {Unreadable}
    BY <1>2, <1>5, <2>1 DEF SampleUnreadable, Record, TypeInv
  <2>7. Inv'
    BY <2>4, <2>5, <2>6 DEF Inv, TypeInv, HasCredit, PermitIsEarned
  <2>8. Latch!Critical
    <3>1. ~(avail' > CriticalBits)
      BY <1>5 DEF SampleUnreadable, Unreadable
    <3> QED  BY <1>4, <2>5, <3>1 DEF Latch!Critical
  <2> QED  BY <2>7, <2>8 DEF Latch!Next
<1>6. ASSUME NEW bits \in Readings, Sample(bits)
      PROVE  Inv' /\ Latch!Next
  <2>1. PICK k \in 0..Len(frames) : Record(bits, anomalies, k)
    BY <1>6 DEF Sample
  <2>2. k \in Nat /\ bits \in Nat
    BY <1>2 DEF TypeInv
  <2>3. frames' \in Seq(Nat) /\ Len(frames') <= FrameLimit /\ FramesBounded'
    BY <1>2, <2>1, <2>2, RecordFrames
  <2>4. /\ anomalies' \in Seq(Kinds) /\ Len(anomalies') <= AnomalyLimit
        /\ status'.remaining \in Nat /\ status'.consumed \in Nat
        /\ bits < CriticalBits => IsCredit(anomalies', 0) /\ ~Permits(status')
        /\ bits >= CriticalBits /\ bits < WarningBits =>
             /\ IsCredit(anomalies', More(c))
             /\ Permits(status') <=> More(c) = Lookback /\ bits > CriticalBits
        /\ bits >= WarningBits => \E d \in {c, More(c)} :
             IsCredit(anomalies', d) /\ (Permits(status') <=> d = Lookback)
    BY <1>1, <1>2, <2>1, <2>2, RecordVerdict
  <2>5. running' \in BOOLEAN /\ avail' = bits
    BY <1>2, <1>6, <2>1 DEF Sample, Record, TypeInv
  <2>6. TypeInv'
    BY <2>3, <2>4, <2>5 DEF TypeInv
  <2>7. More(c) \in 0..Lookback
    BY DEF More
  <2>8. CASE bits < CriticalBits
    <3>1. HasCredit' /\ PermitIsEarned'
      BY <2>4, <2>8 DEF HasCredit, PermitIsEarned
    <3>2. Latch!Critical
      <4>1. ~(avail' > CriticalBits)
        BY <2>2, <2>5, <2>8
      <4> QED  BY <1>4, <2>4, <2>8, <4>1 DEF Latch!Critical
    <3> QED  BY <2>6, <3>1, <3>2 DEF Inv, Latch!Next
  <2>9. CASE bits >= CriticalBits /\ bits < WarningBits
    <3>1. Credit' = More(c)
      BY <1>4, <2>4, <2>9
    <3>2. HasCredit' /\ PermitIsEarned'
      BY <2>4, <2>5, <2>7, <2>9, <3>1 DEF HasCredit, PermitIsEarned
    <3>3. Latch!Anomaly
      <4>1. Credit' = IF Credit < Lookback THEN Credit + 1 ELSE Credit
        BY <1>3, <3>1 DEF More
      <4>2. Permits(status') = (avail' > CriticalBits /\ Credit' = Lookback)
        BY <2>4, <2>5, <2>9, <3>1 DEF Permits
      <4> QED  BY <4>1, <4>2 DEF Latch!Anomaly
    <3> QED  BY <2>6, <3>2, <3>3 DEF Inv, Latch!Next
  <2>10. CASE bits >= WarningBits
    <3>1. PICK d \in {c, More(c)} :
            IsCredit(anomalies', d) /\ (Permits(status') <=> d = Lookback)
      BY <2>4, <2>10
    <3>2. Credit' = d
      BY <1>4, <2>4, <3>1
    <3>3. HasCredit' /\ PermitIsEarned'
      BY <2>5, <2>7, <2>10, <3>1, <3>2 DEF HasCredit, PermitIsEarned
    <3>4. Permits(status') = (Credit' = Lookback)
      BY <3>1, <3>2 DEF Permits
    <3>5. (avail' > CriticalBits) = TRUE
      BY <2>2, <2>5, <2>10
    <3>6. ASSUME d = c PROVE Latch!Healthy
      BY <1>3, <3>2, <3>4, <3>6, <3>5 DEF Latch!Healthy
    <3>7. ASSUME d = More(c) PROVE Latch!Anomaly
      <4>1. Credit' = IF Credit < Lookback THEN Credit + 1 ELSE Credit
        BY <1>3, <3>2, <3>7 DEF More
      <4> QED  BY <3>4, <3>5, <4>1 DEF Latch!Anomaly
    <3>8. Latch!Next
      BY <3>1, <3>6, <3>7 DEF Latch!Next
    <3> QED  BY <2>6, <3>3, <3>8 DEF Inv
  <2> QED  BY <2>2, <2>8, <2>9, <2>10
<1> QED  BY <1>5, <1>6 DEF SampleAny

\* Every step keeps the invariant and is a step of the latch, or one it does
\* not see.
LEMMA StepInv == Inv /\ [Next]_vars => Inv' /\ [Latch!Next]_(Latch!vars)
<1> SUFFICES ASSUME Inv, [Next]_vars PROVE Inv' /\ [Latch!Next]_(Latch!vars)
  OBVIOUS
<1>1. CASE UNCHANGED vars
  BY <1>1 DEF vars, Inv, TypeInv, FramesBounded, HasCredit, PermitIsEarned, Credit, Latch!vars
<1>2. CASE Start
  <2>1. IsCredit(<<>>, Lookback) /\ <<>> \in Seq(Kinds)
    BY LimitAssumption DEF IsCredit, CriticalAt
  <2>2. Credit' = Lookback
    BY <1>2, <2>1, CreditIs DEF Start, Credit
  <2>3. HasCredit'
    BY <1>2, <2>1, LimitAssumption DEF Start, HasCredit
  <2>4. FramesBounded'
    <3>1. 0 \in Nat /\ \A i \in DOMAIN frames' : frames'[i] <= 0
      BY <1>2 DEF Start
    <3> QED  BY <3>1 DEF FramesBounded
  <2>5. TypeInv'
    BY <1>2, <2>4, LimitAssumption DEF Start, Inv, TypeInv
  <2>6. PermitIsEarned'
    BY <1>2, <2>2 DEF Start, Inv, PermitIsEarned
  <2>7. Latch!Restart
    BY <1>2, <2>2 DEF Start, Latch!Restart
  <2> QED  BY <2>3, <2>5, <2>6, <2>7 DEF Inv, Latch!Next
<1>3. CASE Stop
  BY <1>3 DEF Stop, Inv, TypeInv, FramesBounded, HasCredit, PermitIsEarned, Credit, Latch!vars
<1>4. CASE SampleAny
  BY <1>4, StepSample
<1> QED  BY <1>1, <1>2, <1>3, <1>4 DEF Next

LEMMA Invariance == Spec => []Inv
<1>1. Inv /\ [Next]_vars => Inv'
  BY StepInv
<1> QED  BY InitInv, <1>1, PTL DEF Spec
-----------------------------------------------------------------------------
\* Type correctness, with the limits of the deques and bits that are never
\* negative.
THEOREM TypeCorrect == Spec => []TypeOK
<1>1. Inv => TypeOK
  BY DEF Inv, TypeInv, TypeOK
<1> QED  BY <1>1, Invariance, PTL

\* A permitting status rests on a reading above the floor and on no critical
\* anomaly within the look-back, for any thresholds, limits and restarts.
THEOREM PermitsAreEarned == Spec => []PermitIsEarned
BY Invariance, PTL DEF Inv

\* The detector with its bounded deques implements the latch.
THEOREM ImplementsLatch == Spec => LatchSpec
<1>1. Init => Latch!Init
  <2> SUFFICES ASSUME Init PROVE Latch!Init
    OBVIOUS
  <2>1. IsCredit(anomalies, Lookback) /\ anomalies \in Seq(Kinds)
    BY LimitAssumption DEF Init, IsCredit, CriticalAt
  <2>2. Credit = Lookback
    BY <2>1, CreditIs DEF Credit
  <2>3. ~(avail > CriticalBits)
    BY ThresholdAssumption DEF Init, Unreadable
  <2> QED  BY <2>2, <2>3 DEF Init, Latch!Init, Permits, NoStatus
<1>2. Inv /\ [Next]_vars => [Latch!Next]_(Latch!vars)
  BY StepInv
<1> QED  BY <1>1, <1>2, Invariance, PTL DEF Spec, LatchSpec, Latch!Spec
=============================================================================
