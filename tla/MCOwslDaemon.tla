---------------------------- MODULE MCOwslDaemon ----------------------------
(***************************************************************************)
(* OwslDaemon on the real thresholds, with short histories.                *)
(***************************************************************************)
EXTENDS OwslDaemon

\* Below the floor, on it, inside the warning band, and two healthy levels
\* far enough apart for a drop of more than half.
MCReadings == {0, 64, 100, 300, 700}
=============================================================================
