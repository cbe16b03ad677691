--------------------------- MODULE StatusRegister ---------------------------
(***************************************************************************)
(* The status file as its readers take it to be: a register that holds     *)
(* nothing or one complete status, and is overwritten in one step.         *)
(***************************************************************************)
CONSTANTS Statuses, NoFile

VARIABLE file

Init == file = NoFile

Publish(s) == file' = s

Next == \E s \in Statuses : Publish(s)

Spec == Init /\ [][Next]_file
=============================================================================
