------------------------------ MODULE OwslLatch ------------------------------
(***************************************************************************)
(* What the entropy daemon promises to whoever reads its status: a latch.  *)
(* A critical reading closes the gate and takes all credit away; every     *)
(* later non-critical anomaly gives one unit back; the gate opens exactly  *)
(* if the credit is complete and the reading was above the floor.  A       *)
(* restarted daemon starts with complete credit, because the anomaly       *)
(* history lives in its memory only.                                       *)
(***************************************************************************)
EXTENDS Naturals

CONSTANT Lookback          \* anomalies that must follow a critical one

VARIABLES open,            \* the last published status permits work
          above,           \* the reading behind it left bits above the floor
          credit           \* anomalies since the last critical one, capped

vars == <<open, above, credit>>

TypeOK == open \in BOOLEAN /\ above \in BOOLEAN /\ credit \in 0..Lookback

Init == open = FALSE /\ above = FALSE /\ credit = Lookback

Critical == open' = FALSE /\ above' = FALSE /\ credit' = 0

Anomaly ==
  /\ credit' = IF credit < Lookback THEN credit + 1 ELSE credit
  /\ above' \in BOOLEAN
  /\ open' = (above' /\ credit' = Lookback)

Healthy ==
  /\ credit' = credit
  /\ above' = TRUE
  /\ open' = (credit = Lookback)

Restart == credit' = Lookback /\ UNCHANGED <<open, above>>

Next == Critical \/ Anomaly \/ Healthy \/ Restart

Spec == Init /\ [][Next]_vars
=============================================================================
